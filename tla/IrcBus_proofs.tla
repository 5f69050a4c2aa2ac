---------------------------- MODULE IrcBus_proofs ----------------------------
(***************************************************************************)
(* Proofs about the messages of IrcBus.tla, for any agents, messages, cap  *)
(* of a mailbox and number of calls.                                       *)
(*                                                                         *)
(* IrcInv says where a message can be.  Placed counts the places of one    *)
(* message; that the count stays right needs what the counts do not say:   *)
(* a queue holds only messages to its agent and each of them once, notes   *)
(* hold only records of the agent's own replies (QueuesInv), and a waiter  *)
(* that may come to hold a message is its sender's, is the only one of     *)
(* that send and holds nothing yet (WaitersInv).  HeardInv adds that no    *)
(* wait is parked beside a message it would take, nor beside a rejection   *)
(* that is about to put one in the mailbox.                                *)
(*                                                                         *)
(* There are two kinds of steps.  A post (send, the end of the lifecycle   *)
(* gate, a rejection, an auto-reply) puts one message somewhere and shows  *)
(* or drops what its sender held: Lands names the place.  Every other step *)
(* moves messages of one agent on: Yields and Goes say which leave which   *)
(* queue, and where they go.                                               *)
(***************************************************************************)
EXTENDS IrcBus, SequenceTheorems, FiniteSetTheorems, TLAPS

USE IrcAssumption

-----------------------------------------------------------------------------
(* Queues                                                                  *)

NoDup(q) == \A i, j \in DOMAIN q : q[i] = q[j] => i = j

\* Removing one entry keeps the others, in their order.
LEMMA RemoveAtEntries ==
  ASSUME NEW S, NEW q \in Seq(S), NEW i \in DOMAIN q
  PROVE  /\ RemoveAt(q, i) \in Seq(S)
         /\ Len(RemoveAt(q, i)) = Len(q) - 1
         /\ \A k \in DOMAIN RemoveAt(q, i) :
               LET o == IF k < i THEN k ELSE k + 1
               IN o \in DOMAIN q /\ o # i /\ RemoveAt(q, i)[k] = q[o]
<1> DEFINE l == SubSeq(q, 1, i - 1)
           r == SubSeq(q, i + 1, Len(q))
<1>1. Len(q) \in Nat /\ DOMAIN q = 1 .. Len(q) /\ i \in 1 .. Len(q)
  BY LenProperties
<1>2. l \in Seq(S) /\ Len(l) = i - 1 /\ \A k \in 1 .. i - 1 : l[k] = q[k]
  BY <1>1, SubSeqProperties
<1>3. r \in Seq(S) /\ Len(r) = Len(q) - i /\ \A k \in 1 .. Len(q) - i : r[k] = q[i + k]
  BY <1>1, SubSeqProperties
<1> HIDE DEF l, r
<1>4. /\ l \o r \in Seq(S)
      /\ Len(l \o r) = Len(q) - 1
      /\ \A k \in 1 .. Len(q) - 1 : (l \o r)[k] = IF k <= i - 1 THEN l[k] ELSE r[k - (i - 1)]
  <2>1. /\ l \o r \in Seq(S)
        /\ Len(l \o r) = Len(l) + Len(r)
        /\ \A k \in 1 .. Len(l) + Len(r) :
              (l \o r)[k] = IF k <= Len(l) THEN l[k] ELSE r[k - Len(l)]
    <3>1. l \in Seq(S) /\ r \in Seq(S)  BY <1>2, <1>3
    <3> QED  BY ONLY <3>1, ConcatProperties
  <2>2. Len(l) + Len(r) = Len(q) - 1  BY <1>1, <1>2, <1>3
  <2>3. Len(l) = i - 1  BY <1>2
  <2>4. ASSUME NEW k \in 1 .. Len(q) - 1
        PROVE  (l \o r)[k] = IF k <= i - 1 THEN l[k] ELSE r[k - (i - 1)]
    BY <2>1, <2>2, <2>3
  <2> QED  BY <2>1, <2>2, <2>4
<1>5. RemoveAt(q, i) = l \o r  BY DEF RemoveAt, l, r
<1>6. DOMAIN (l \o r) = 1 .. Len(q) - 1  BY <1>4, LenProperties
<1>7. ASSUME NEW k \in 1 .. Len(q) - 1
      PROVE  LET o == IF k < i THEN k ELSE k + 1
             IN o \in DOMAIN q /\ o # i /\ (l \o r)[k] = q[o]
  <2>1. CASE k < i  BY <1>1, <1>2, <1>4, <2>1
  <2>2. CASE ~(k < i)
    <3>1. k - (i - 1) \in 1 .. Len(q) - i /\ i + (k - (i - 1)) = k + 1  BY <1>1, <2>2
    <3>2. (l \o r)[k] = r[k - (i - 1)]  BY <1>1, <1>4, <2>2
    <3>3. r[k - (i - 1)] = q[k + 1]  BY <1>3, <3>1
    <3> QED  BY <1>1, <2>2, <3>2, <3>3
  <2> QED  BY <2>1, <2>2
<1> DEFINE t == l \o r
<1>8. \A k \in DOMAIN t : LET o == IF k < i THEN k ELSE k + 1
                          IN o \in DOMAIN q /\ o # i /\ t[k] = q[o]
  BY <1>6, <1>7
<1> HIDE DEF t
<1>9. RemoveAt(q, i) = t /\ t \in Seq(S) /\ Len(t) = Len(q) - 1  BY <1>4, <1>5 DEF t
<1> QED  BY <1>8, <1>9

LEMMA RemoveAtNoDup ==
  ASSUME NEW S, NEW q \in Seq(S), NEW i \in DOMAIN q, NoDup(q)
  PROVE  NoDup(RemoveAt(q, i)) /\ ToSet(RemoveAt(q, i)) = ToSet(q) \ {q[i]}
<1>1. Len(q) \in Nat /\ DOMAIN q = 1 .. Len(q) /\ i \in 1 .. Len(q)
  BY LenProperties
<1> DEFINE t == RemoveAt(q, i)
           O(k) == IF k < i THEN k ELSE k + 1
<1>2. /\ t \in Seq(S) /\ Len(t) = Len(q) - 1
      /\ \A k \in DOMAIN t : O(k) \in DOMAIN q /\ O(k) # i /\ t[k] = q[O(k)]
  BY RemoveAtEntries
<1>3. DOMAIN t = 1 .. Len(q) - 1  BY <1>2, LenProperties
<1> HIDE DEF t
<1>4. NoDup(t)
  <2> SUFFICES ASSUME NEW k \in DOMAIN t, NEW n \in DOMAIN t, t[k] = t[n] PROVE k = n
    BY DEF NoDup
  <2>1. O(k) = O(n)  BY <1>2 DEF NoDup
  <2> QED  BY <1>1, <1>3, <2>1
<1>5. ToSet(t) \subseteq ToSet(q) \ {q[i]}
  <2> SUFFICES ASSUME NEW k \in DOMAIN t PROVE t[k] \in ToSet(q) /\ t[k] # q[i]
    BY DEF ToSet
  <2> QED  BY <1>2 DEF ToSet, NoDup
<1>6. ASSUME NEW n \in DOMAIN q, n # i PROVE q[n] \in ToSet(t)
  <2>1. CASE n < i
    <3>1. n \in DOMAIN t /\ O(n) = n  BY <1>1, <1>3, <2>1
    <3> QED  BY <1>2, <3>1 DEF ToSet
  <2>2. CASE n > i
    <3>1. n - 1 \in DOMAIN t /\ O(n - 1) = n  BY <1>1, <1>3, <2>2
    <3>2. t[n - 1] = q[n]  BY <1>2, <3>1
    <3> QED  BY <3>1, <3>2 DEF ToSet
  <2> QED  BY <1>1, <1>6, <2>1, <2>2
<1>7. ToSet(q) \ {q[i]} \subseteq ToSet(t)  BY <1>6 DEF ToSet
<1> QED  BY <1>4, <1>5, <1>7 DEF t

LEMMA AppendNoDup ==
  ASSUME NEW S, NEW q \in Seq(S), NEW x \in S
  PROVE  /\ Append(q, x) \in Seq(S) /\ Len(Append(q, x)) = Len(q) + 1
         /\ ToSet(Append(q, x)) = ToSet(q) \cup {x}
         /\ NoDup(q) /\ x \notin ToSet(q) => NoDup(Append(q, x))
         /\ \A k \in DOMAIN Append(q, x) :
               \/ k \in DOMAIN q /\ Append(q, x)[k] = q[k]
               \/ k = Len(q) + 1 /\ Append(q, x)[k] = x
<1> DEFINE t == Append(q, x)
<1>1. Len(q) \in Nat /\ DOMAIN q = 1 .. Len(q)  BY LenProperties
<1>2. /\ t \in Seq(S) /\ Len(t) = Len(q) + 1 /\ t[Len(q) + 1] = x
      /\ \A k \in 1 .. Len(q) : t[k] = q[k]
  BY AppendProperties
<1>3. DOMAIN t = 1 .. Len(q) + 1  BY <1>2, LenProperties
<1> HIDE DEF t
<1>4. \A k \in DOMAIN t : \/ k \in DOMAIN q /\ t[k] = q[k]
                          \/ k = Len(q) + 1 /\ t[k] = x
  BY <1>1, <1>2, <1>3
<1>5. ToSet(t) \subseteq ToSet(q) \cup {x}  BY <1>4 DEF ToSet
<1>6. \A k \in DOMAIN q : k \in DOMAIN t /\ t[k] = q[k]  BY <1>1, <1>2, <1>3
<1>7. Len(q) + 1 \in DOMAIN t  BY <1>1, <1>3
<1>8. ToSet(q) \cup {x} \subseteq ToSet(t)  BY <1>2, <1>6, <1>7 DEF ToSet
<1>9. ASSUME NoDup(q), x \notin ToSet(q) PROVE NoDup(t)
  <2>1. \A k \in DOMAIN q : q[k] # x  BY <1>9 DEF ToSet
  <2> QED  BY <1>4, <1>9, <2>1 DEF NoDup
<1> QED  BY <1>2, <1>4, <1>5, <1>8, <1>9 DEF t

LEMMA TailNoDup ==
  ASSUME NEW S, NEW q \in Seq(S), Len(q) > 0
  PROVE  /\ Tail(q) \in Seq(S) /\ Len(Tail(q)) = Len(q) - 1
         /\ ToSet(Tail(q)) \subseteq ToSet(q)
         /\ NoDup(q) => NoDup(Tail(q))
<1>1. Len(q) \in Nat /\ DOMAIN q = 1 .. Len(q)  BY LenProperties
<1>2. q # <<>>  BY EmptySeq
<1>3. /\ Tail(q) \in Seq(S) /\ Len(Tail(q)) = Len(q) - 1
      /\ \A k \in 1 .. Len(q) - 1 : Tail(q)[k] = q[k + 1]
  BY <1>2, HeadTailProperties
<1>4. DOMAIN Tail(q) = 1 .. Len(q) - 1  BY <1>3, LenProperties
<1>5. \A k \in DOMAIN Tail(q) : k + 1 \in DOMAIN q /\ Tail(q)[k] = q[k + 1]
  BY <1>1, <1>3, <1>4
<1>6. ToSet(Tail(q)) \subseteq ToSet(q)  BY <1>5 DEF ToSet
<1>7. ASSUME NoDup(q) PROVE NoDup(Tail(q))
  <2> SUFFICES ASSUME NEW k \in DOMAIN Tail(q), NEW n \in DOMAIN Tail(q), Tail(q)[k] = Tail(q)[n]
               PROVE  k = n
    BY DEF NoDup
  <2>1. k + 1 = n + 1  BY <1>5, <1>7 DEF NoDup
  <2> QED  BY <1>1, <1>4, <2>1
<1> QED  BY <1>3, <1>6, <1>7

LEMMA EmptyQueue ==
  /\ \A S : <<>> \in Seq(S)
  /\ Len(<<>>) = 0 /\ DOMAIN <<>> = {} /\ ToSet(<<>>) = {} /\ NoDup(<<>>)
BY EmptySeq DEF ToSet, NoDup

LEMMA ToSetTyped == ASSUME NEW S, NEW q \in Seq(S) PROVE ToSet(q) \subseteq S
BY ElementOfSeq, LenProperties DEF ToSet

LEMMA EntryTyped == ASSUME NEW S, NEW q \in Seq(S), NEW i \in DOMAIN q PROVE q[i] \in S
BY ElementOfSeq, LenProperties

-----------------------------------------------------------------------------
(* Messages and their places                                               *)

Waiter  == [from : Names, send : Maybe]
Message == [from : Names, to : Names, asks : BOOLEAN, answers : Maybe, at : Stages,
            receipt : {"none", "delivered", "failed"}, got : Maybe]

USE DEF TurnPhase, Stages, Names, Maybe, Message

Known(m) == msg[m].at # "unsent"

\* A message that was sent has two ends; the receipt comes with the end of send,
\* which keeps nothing for the sender.
WellSent(x) ==
    /\ x.from \in Agents /\ x.to \in Agents /\ x.from # x.to
    /\ x.at # "unsent"
    /\ x.at = "sent" <=> x.receipt # "none"
    /\ x.receipt # "none" => x.got = None

MessagesInv == \A m \in Msgs : msg[m] = NoMessage \/ WellSent(msg[m])

Held(m) == \E s \in Msgs : msg[s].got = m

\* The queues of an agent hold messages to it, once, and the records of its own
\* replies; nothing is anywhere that was not sent; two sends never hold the same message.
QueuesOf(b) ==
    /\ NoDup(interrupts[b]) /\ NoDup(asides[b]) /\ NoDup(box[b])
    /\ \A m \in ToSet(interrupts[b]) \cup ToSet(asides[b]) \cup ToSet(box[b]) \cup steer[b] : msg[m].to = b
    /\ \A m \in notes[b] : msg[m].from = b
    /\ \A m \in loop[b] : Known(m)

QueuesInv ==
    /\ \A b \in Agents : QueuesOf(b)
    /\ \A m \in seen \cup discarded \cup forfeited \cup replying : Known(m)
    /\ \A m \in Msgs : Held(m) => Known(m)
    /\ \A s, t \in Msgs : msg[s].got # None /\ msg[s].got = msg[t].got => s = t

TypedInv == IrcTypeOK /\ MessagesInv

\* Where a message to b is.
Underway(m, b) ==
    One(m \in ToSet(interrupts[b])) + One(m \in ToSet(asides[b])) + One(m \in steer[b])
    + One(m \in loop[b]) + One(Held(m)) + One(m \in discarded) + One(m \in forfeited)

Placed(m) ==
    LET b == msg[m].to
        u == Underway(m, b)
    IN /\ msg[m].receipt = "delivered" => m \notin ToSet(box[b]) /\ u + One(m \in seen) = 1
       /\ msg[m].receipt = "failed" => u = 0 /\ (m \in ToSet(box[b]) => m \notin seen)
       /\ msg[m].receipt = "none" => u = 0 /\ m \notin ToSet(box[b]) /\ m \notin seen

PlacedInv == \A m \in Msgs : Known(m) => Placed(m)

\* A waiter of a send belongs to its sender, is the only one, and took nothing yet.
AwaitsOf(w, ms) ==
    \A a \in Agents : \A i \in DOMAIN w[a] :
        w[a][i].send # None => ms[w[a][i].send].from = a /\ ms[w[a][i].send].got = None

OneEach(w) ==
    \A a \in Agents : \A i, j \in DOMAIN w[a] :
        w[a][i].send # None /\ w[a][i].send = w[a][j].send => i = j

WaitersInv == AwaitsOf(waiters, msg) /\ OneEach(waiters)

IrcInv == TypedInv /\ QueuesInv /\ PlacedInv /\ WaitersInv

LEMMA TypedFacts ==
  ASSUME IrcTypeOK
  PROVE  /\ msg \in [Msgs -> Message]
         /\ waiters \in [Agents -> Seq(Waiter)]
         /\ \A a \in Agents :
               /\ interrupts[a] \in Seq(Msgs) /\ asides[a] \in Seq(Msgs) /\ box[a] \in Seq(Msgs)
               /\ ToSet(interrupts[a]) \subseteq Msgs /\ ToSet(asides[a]) \subseteq Msgs
               /\ ToSet(box[a]) \subseteq Msgs
               /\ steer[a] \subseteq Msgs /\ loop[a] \subseteq Msgs /\ notes[a] \subseteq Msgs
               /\ waiters[a] \in Seq(Waiter)
BY ToSetTyped DEF IrcTypeOK, Waiter

-----------------------------------------------------------------------------
(* Initially                                                               *)

LEMMA NoMessageTyped == NoMessage \in Message /\ NoMessage.at = "unsent" /\ NoMessage.got = None
BY DEF NoMessage

LEMMA InitTyped == Init => TypedInv
<1> SUFFICES ASSUME Init PROVE TypedInv  OBVIOUS
<1>1. msg \in [Msgs -> Message] /\ MessagesInv  BY NoMessageTyped DEF Init, MessagesInv
<1>2. \A a \in Agents : /\ interrupts[a] = <<>> /\ asides[a] = <<>> /\ box[a] = <<>>
                        /\ waiters[a] = <<>> /\ Len(box[a]) <= MailboxCap
  BY EmptyQueue DEF Init
<1>3. /\ interrupts \in [Agents -> Seq(Msgs)] /\ asides \in [Agents -> Seq(Msgs)]
      /\ box \in [Agents -> Seq(Msgs)] /\ waiters \in [Agents -> Seq(Waiter)]
  BY EmptyQueue DEF Init, Waiter
<1>4. /\ life \in [Agents -> {"live", "closing", "parked", "gone"}]
      /\ turn \in [Agents -> TurnPhase]
      /\ loop \in [Agents -> SUBSET Msgs] /\ steer \in [Agents -> SUBSET Msgs]
      /\ notes \in [Agents -> SUBSET Msgs] /\ batch \in [Agents -> Names]
      /\ resume \subseteq Agents /\ leaving \subseteq Agents /\ replying \subseteq Msgs
      /\ seen \subseteq Msgs /\ discarded \subseteq Msgs /\ forfeited \subseteq Msgs
  BY DEF Init
<1> QED  BY <1>1, <1>2, <1>3, <1>4 DEF TypedInv, IrcTypeOK, Waiter

LEMMA InitPlaced == Init => IrcInv
<1> SUFFICES ASSUME Init PROVE IrcInv  OBVIOUS
<1>1. TypedInv  BY InitTyped
<1>2. \A m \in Msgs : msg[m] = NoMessage /\ ~Known(m) /\ ~Held(m)
  BY NoMessageTyped DEF Init, Known, Held
<1>3. PlacedInv  BY <1>2 DEF PlacedInv
<1>4. \A b \in Agents : QueuesOf(b)  BY EmptyQueue DEF Init, QueuesOf
<1>5. QueuesInv  BY <1>2, <1>4, NoMessageTyped DEF Init, QueuesInv
<1>6. WaitersInv  BY EmptyQueue DEF Init, WaitersInv, AwaitsOf, OneEach
<1> QED  BY <1>1, <1>3, <1>5, <1>6 DEF IrcInv

-----------------------------------------------------------------------------
(***************************************************************************)
(* What posting a message does: it lands somewhere, and what its sender    *)
(* held is shown or dropped.  e is the message, w the waiters its sender   *)
(* sees, as in IrcBus.send.                                                *)
(***************************************************************************)
Ready(m, e, w) ==
    /\ e \in Message /\ e.from \in Agents /\ e.to \in Agents /\ e.from # e.to
    /\ e.receipt = "none" /\ e.got = msg[m].got
    /\ msg[m] = NoMessage \/ (WellSent(msg[m]) /\ msg[m].receipt = "none" /\ msg[m].from = e.from /\ msg[m].to = e.to)
    /\ w \in [Agents -> Seq(Waiter)]
    /\ AwaitsOf(w, [msg EXCEPT ![m] = e]) /\ OneEach(w)
    /\ \A a \in Agents : \A i \in DOMAIN w[a] :
          w[a][i].send = None => \E j \in DOMAIN waiters[a] : waiters[a][j] = w[a][i]

Delivering == {"interrupts", "asides", "steer", "seen", "held"}
Failing    == {"box", "lost"}
Landing    == Delivering \cup Failing \cup {"pending"}

At(m, e, b, p, q) == IF b = e.to /\ p = q THEN {m} ELSE {}
Noted(m, e, b) == IF b = e.from THEN {m} ELSE {}

LandsInQueue(m, e, p) ==
    /\ \A b \in Agents :
          /\ NoDup(interrupts'[b]) /\ NoDup(asides'[b]) /\ NoDup(box'[b])
          /\ ToSet(interrupts'[b]) = ToSet(interrupts[b]) \cup At(m, e, b, p, "interrupts")
          /\ ToSet(asides'[b]) = ToSet(asides[b]) \cup At(m, e, b, p, "asides")
          /\ ToSet(box'[b]) \subseteq ToSet(box[b]) \cup At(m, e, b, p, "box")
          /\ steer'[b] = steer[b] \cup At(m, e, b, p, "steer")
          /\ notes'[b] \subseteq notes[b] \cup Noted(m, e, b)
    /\ loop' = loop /\ forfeited' = forfeited /\ replying' \subseteq replying \cup {m}

LandsInTable(m, e, p) ==
    /\ msg' \in [Msgs -> Message]
    /\ WellSent(msg'[m]) /\ msg'[m].from = e.from /\ msg'[m].to = e.to
    /\ p \in Delivering => msg'[m].receipt = "delivered"
    /\ p \in Failing => msg'[m].receipt = "failed"
    /\ p = "pending" => msg'[m].receipt = "none" /\ msg'[m].got = e.got
    /\ p # "held" => \A x \in Msgs \ {m} : msg'[x] = msg[x]
    /\ p = "held" =>
          \E s \in Msgs \ {m} :
             /\ msg[s] # NoMessage /\ msg[s].receipt = "none" /\ msg[s].got = None
             /\ msg'[s] = [msg[s] EXCEPT !.got = m]
             /\ \A x \in Msgs \ {m, s} : msg'[x] = msg[x]

LandsInHistory(m, p, shown, dropped) ==
    /\ seen' = seen \cup shown \cup (IF p = "seen" THEN {m} ELSE {})
    /\ discarded' = discarded \cup dropped
    /\ shown \cap dropped = {}
    /\ shown \cup dropped = {msg[m].got} \ {msg'[m].got, None}

LEMMA Nowhere ==
  ASSUME IrcInv, NEW m \in Msgs, NEW e, NEW w, Ready(m, e, w)
  PROVE  /\ m \notin ToSet(interrupts[e.to]) /\ m \notin ToSet(asides[e.to])
         /\ m \notin ToSet(box[e.to]) /\ m \notin steer[e.to] /\ m \notin loop[e.to]
         /\ m \notin seen /\ m \notin discarded /\ m \notin forfeited /\ ~Held(m)
<1>1. CASE msg[m] = NoMessage
  <2>1. ~Known(m) /\ \A b \in Agents : msg[m].to # b  BY <1>1 DEF NoMessage, Known
  <2> QED  BY <2>1 DEF IrcInv, QueuesInv, QueuesOf, Ready
<1>2. CASE WellSent(msg[m]) /\ msg[m].receipt = "none" /\ msg[m].to = e.to
  <2>1. Placed(m)  BY <1>2 DEF IrcInv, PlacedInv, Known, WellSent
  <2>2. Underway(m, e.to) = 0 /\ m \notin ToSet(box[e.to]) /\ m \notin seen
    BY <1>2, <2>1 DEF Placed
  <2> QED  BY <2>2 DEF Underway, One
<1> QED  BY <1>1, <1>2 DEF Ready

\* What is not the message stays where it is, or was held for its sender.
LEMMA OthersStay ==
  ASSUME IrcInv, NEW m \in Msgs, NEW e, NEW w, Ready(m, e, w), NEW p \in Landing,
         NEW shown, NEW dropped,
         LandsInQueue(m, e, p), LandsInTable(m, e, p), LandsInHistory(m, p, shown, dropped),
         NEW x \in Msgs, x # m, Known(x)
  PROVE  Placed(x)'
<1>0. /\ IrcTypeOK /\ msg \in [Msgs -> Message] /\ WellSent(msg[x])
      /\ Placed(x) /\ QueuesInv /\ msg[m].got \in Maybe
  BY TypedFacts, NoMessageTyped DEF IrcInv, TypedInv, MessagesInv, PlacedInv, Known, WellSent
<1> PICK b \in Agents : b = msg[x].to  BY <1>0 DEF WellSent
<1>1. /\ msg'[x].to = b /\ msg'[x].receipt = msg[x].receipt
      /\ msg'[x].got = x <=> msg[x].got = x
      /\ \A s \in Msgs \ {m} : msg'[s].got = x <=> msg[s].got = x
  <2>1. CASE p # "held"  BY <2>1 DEF LandsInTable
  <2>2. CASE p = "held"
    <3>1. PICK s \in Msgs \ {m} :
             /\ msg[s].got = None
             /\ msg'[s] = [msg[s] EXCEPT !.got = m]
             /\ \A y \in Msgs \ {m, s} : msg'[y] = msg[y]
      BY <2>2 DEF LandsInTable
    <3>2. msg[s] \in Message  BY <1>0
    <3>3. /\ msg'[s].to = msg[s].to /\ msg'[s].receipt = msg[s].receipt
          /\ msg'[s].got = m /\ msg[s].got # x
      BY <3>1, <3>2
    <3> QED  BY <3>1, <3>3
  <2> QED  BY <2>1, <2>2
<1>2. /\ x \in ToSet(interrupts'[b]) <=> x \in ToSet(interrupts[b])
      /\ x \in ToSet(asides'[b]) <=> x \in ToSet(asides[b])
      /\ x \in ToSet(box'[b]) => x \in ToSet(box[b])
      /\ x \in steer'[b] <=> x \in steer[b]
      /\ loop' = loop /\ forfeited' = forfeited
  <2>1. \A q \in Landing : x \notin At(m, e, b, p, q)  BY DEF At
  <2> QED  BY <2>1 DEF LandsInQueue, Landing, Delivering, Failing
<1>3. /\ x \in seen' <=> x \in seen \/ x \in shown
      /\ x \in discarded' <=> x \in discarded \/ x \in dropped
      /\ ~(x \in shown /\ x \in dropped)
      /\ x \in shown \/ x \in dropped <=> x = msg[m].got /\ x # msg'[m].got
  BY <1>0 DEF LandsInHistory
<1>5. ASSUME x # msg[m].got \/ x = msg'[m].got
      PROVE  Held(x)' <=> Held(x)
  <2>1. msg'[m].got \in {None, e.got}
    BY DEF LandsInTable, WellSent, Landing
  <2>2. msg'[m].got = x <=> msg[m].got = x
    BY <1>0, <1>5, <2>1 DEF Ready
  <2> QED  BY <1>1, <2>2 DEF Held
<1>6. ASSUME x = msg[m].got, x # msg'[m].got
      PROVE  Held(x) /\ ~Held(x)'
  <2>1. \A s \in Msgs : msg[s].got = x => s = m  BY <1>0, <1>6 DEF QueuesInv
  <2> QED  BY <1>1, <1>6, <2>1 DEF Held
<1>7. Underway(x, b)' = One(x \in ToSet(interrupts'[b])) + One(x \in ToSet(asides'[b]))
        + One(x \in steer'[b]) + One(x \in loop'[b]) + One(Held(x)')
        + One(x \in discarded') + One(x \in forfeited')
  BY DEF Underway
<1>8. CASE x # msg[m].got \/ x = msg'[m].got
  <2>1. Underway(x, b)' = Underway(x, b)
    BY <1>2, <1>3, <1>5, <1>7, <1>8 DEF Underway, One
  <2>2. One(x \in seen') = One(x \in seen) /\ (x \in seen' <=> x \in seen)
    BY <1>3, <1>8 DEF One
  <2> QED  BY <1>0, <1>1, <1>2, <2>1, <2>2 DEF Placed
<1>9. CASE x = msg[m].got /\ x # msg'[m].got
  <2>1. Held(x) /\ ~Held(x)'  BY <1>6, <1>9
  <2>2. Underway(x, b) # 0  BY <2>1 DEF Underway, One
  <2>3. /\ msg[x].receipt = "delivered" /\ x \notin ToSet(box[b])
        /\ Underway(x, b) + One(x \in seen) = 1
    BY <1>0, <2>2 DEF Placed
  <2>4. /\ x \notin ToSet(interrupts[b]) /\ x \notin ToSet(asides[b]) /\ x \notin steer[b]
        /\ x \notin loop[b] /\ x \notin discarded /\ x \notin forfeited /\ x \notin seen
    BY <2>1, <2>3 DEF Underway, One
  <2>5. Underway(x, b)' + One(x \in seen') = 1
    BY <1>2, <1>3, <1>7, <1>9, <2>1, <2>4 DEF One
  <2> QED  BY <1>1, <1>2, <2>3, <2>5 DEF Placed
<1> QED  BY <1>8, <1>9


\* The message itself is where it landed, and nowhere else.
LEMMA ItselfLands ==
  ASSUME IrcInv, NEW m \in Msgs, NEW e, NEW w, Ready(m, e, w), NEW p \in Landing,
         NEW shown, NEW dropped,
         LandsInQueue(m, e, p), LandsInTable(m, e, p), LandsInHistory(m, p, shown, dropped)
  PROVE  Placed(m)'
<1>0. /\ m \notin ToSet(interrupts[e.to]) /\ m \notin ToSet(asides[e.to])
      /\ m \notin ToSet(box[e.to]) /\ m \notin steer[e.to] /\ m \notin loop[e.to]
      /\ m \notin seen /\ m \notin discarded /\ m \notin forfeited /\ ~Held(m)
  BY Nowhere
<1> PICK b \in Agents : b = e.to  BY DEF Ready
<1>1. msg'[m].to = b  BY DEF LandsInTable
<1>2. msg[m].got # m  BY <1>0 DEF Held
<1>3. m \notin shown /\ m \notin dropped  BY <1>2 DEF LandsInHistory
<1>4. /\ m \in ToSet(interrupts'[b]) <=> p = "interrupts"
      /\ m \in ToSet(asides'[b]) <=> p = "asides"
      /\ m \in ToSet(box'[b]) => p = "box"
      /\ m \in steer'[b] <=> p = "steer"
      /\ m \notin loop'[b] /\ m \notin forfeited'
  BY <1>0 DEF LandsInQueue, At
<1>5. m \in seen' <=> p = "seen"
  BY <1>0, <1>3 DEF LandsInHistory
<1>6. m \notin discarded'  BY <1>0, <1>3 DEF LandsInHistory
<1>7. msg'[m].got # m
  BY <1>2 DEF LandsInTable, WellSent, Landing, Ready
<1>8. Held(m)' <=> p = "held"
  <2>1. ASSUME p # "held" PROVE ~Held(m)'
    BY <1>0, <1>7, <2>1 DEF LandsInTable, Held
  <2>2. ASSUME p = "held" PROVE Held(m)'
    <3>1. PICK s \in Msgs : msg[s] \in Message /\ msg'[s] = [msg[s] EXCEPT !.got = m]
      BY <2>2, TypedFacts DEF LandsInTable, IrcInv, TypedInv
    <3>2. msg'[s].got = m  BY <3>1
    <3> QED  BY <3>2 DEF Held
  <2> QED  BY <2>1, <2>2
<1>9. Underway(m, b)' = One(m \in ToSet(interrupts'[b])) + One(m \in ToSet(asides'[b]))
        + One(m \in steer'[b]) + One(m \in loop'[b]) + One(Held(m)')
        + One(m \in discarded') + One(m \in forfeited')
  BY DEF Underway
<1>10. Underway(m, b)' = IF p \in Delivering \ {"seen"} THEN 1 ELSE 0
  BY <1>4, <1>6, <1>8, <1>9 DEF One, Delivering
<1>11. /\ p \in Delivering <=> msg'[m].receipt = "delivered"
       /\ p \in Failing <=> msg'[m].receipt = "failed"
       /\ p = "pending" <=> msg'[m].receipt = "none"
  BY DEF LandsInTable, Landing, Delivering, Failing
<1>12. CASE p \in Delivering
  BY <1>1, <1>4, <1>5, <1>10, <1>11, <1>12 DEF Placed, Delivering, Failing, One
<1>13. CASE p \in Failing
  BY <1>1, <1>4, <1>5, <1>10, <1>11, <1>13 DEF Placed, Delivering, Failing
<1>14. CASE p = "pending"
  BY <1>1, <1>4, <1>5, <1>10, <1>11, <1>14 DEF Placed, Delivering, Failing
<1> QED  BY <1>12, <1>13, <1>14 DEF Landing

\* The table and the queues stay in order.
LEMMA QueuesStay ==
  ASSUME IrcInv, NEW m \in Msgs, NEW e, NEW w, Ready(m, e, w), NEW p \in Landing,
         NEW shown, NEW dropped,
         LandsInQueue(m, e, p), LandsInTable(m, e, p), LandsInHistory(m, p, shown, dropped)
  PROVE  MessagesInv' /\ QueuesInv' /\ \A x \in Msgs \ {m} : Known(x)' <=> Known(x)
<1>0. /\ msg \in [Msgs -> Message] /\ MessagesInv /\ QueuesInv /\ msg[m].got \in Maybe
  BY TypedFacts DEF IrcInv, TypedInv
<1>1. \A x \in Msgs \ {m} :
         /\ msg'[x].to = msg[x].to /\ msg'[x].from = msg[x].from /\ msg'[x].at = msg[x].at
         /\ msg'[x].receipt = msg[x].receipt
         /\ msg'[x] # msg[x] => msg[x] # NoMessage /\ msg[x].receipt = "none"
                                  /\ msg[x].got = None /\ msg'[x].got = m /\ p = "held"
  <2>1. CASE p # "held"  BY <2>1 DEF LandsInTable
  <2>2. CASE p = "held"
    <3>1. PICK s \in Msgs \ {m} :
             /\ msg[s] # NoMessage /\ msg[s].receipt = "none" /\ msg[s].got = None
             /\ msg'[s] = [msg[s] EXCEPT !.got = m]
             /\ \A y \in Msgs \ {m, s} : msg'[y] = msg[y]
      BY <2>2 DEF LandsInTable
    <3>2. msg[s] \in Message  BY <1>0
    <3>3. /\ msg'[s].to = msg[s].to /\ msg'[s].receipt = msg[s].receipt /\ msg'[s].from = msg[s].from
          /\ msg'[s].at = msg[s].at /\ msg'[s].got = m
      BY <3>1, <3>2
    <3> QED  BY <2>2, <3>1, <3>3
  <2> QED  BY <2>1, <2>2
<1>2. MessagesInv'
  <2> SUFFICES ASSUME NEW x \in Msgs, msg'[x] # NoMessage PROVE WellSent(msg'[x])
    BY DEF MessagesInv
  <2>1. CASE x = m  BY <2>1 DEF LandsInTable
  <2>2. CASE x # m /\ msg'[x] = msg[x]  BY <1>0, <2>2 DEF MessagesInv
  <2>3. CASE x # m /\ msg'[x] # msg[x]
    <3>1. WellSent(msg[x]) /\ msg'[x].receipt = "none"  BY <1>0, <1>1, <2>3 DEF MessagesInv
    <3> QED  BY <1>1, <2>3, <3>1 DEF WellSent
  <2> QED  BY <2>1, <2>2, <2>3
<1>3. /\ \A x \in Msgs \ {m} : Known(x)' <=> Known(x)
      /\ Known(m)'
  BY <1>1 DEF Known, LandsInTable, WellSent
<1>4. ASSUME NEW b \in Agents PROVE QueuesOf(b)'
  <2>1. \A q \in Landing : At(m, e, b, p, q) \subseteq {m} /\ (At(m, e, b, p, q) # {} => b = e.to)
    BY DEF At
  <2>2. /\ ToSet(interrupts'[b]) \subseteq Msgs /\ ToSet(asides'[b]) \subseteq Msgs
        /\ ToSet(box'[b]) \subseteq Msgs /\ steer'[b] \subseteq Msgs
        /\ loop'[b] \cup notes'[b] \subseteq Msgs
    <3>1. /\ ToSet(interrupts[b]) \subseteq Msgs /\ ToSet(asides[b]) \subseteq Msgs
          /\ ToSet(box[b]) \subseteq Msgs /\ steer[b] \subseteq Msgs
          /\ loop[b] \subseteq Msgs /\ notes[b] \subseteq Msgs
      BY TypedFacts DEF IrcInv, TypedInv
    <3>2. ToSet(interrupts'[b]) \subseteq Msgs  BY <3>1 DEF LandsInQueue, At
    <3>3. ToSet(asides'[b]) \subseteq Msgs  BY <3>1 DEF LandsInQueue, At
    <3>4. ToSet(box'[b]) \subseteq Msgs  BY <3>1 DEF LandsInQueue, At
    <3>5. steer'[b] \subseteq Msgs  BY <3>1 DEF LandsInQueue, At
    <3>6. loop'[b] \cup notes'[b] \subseteq Msgs  BY <3>1 DEF LandsInQueue, Noted
    <3> QED  BY <3>2, <3>3, <3>4, <3>5, <3>6
  <2>3. ASSUME NEW x \in Msgs,
               x \in ToSet(interrupts'[b]) \cup ToSet(asides'[b]) \cup ToSet(box'[b]) \cup steer'[b]
        PROVE  msg'[x].to = b
    <3>1. CASE x = m
      <4>1. CASE b = e.to  BY <1>1, <3>1, <4>1 DEF LandsInTable
      <4>2. CASE b # e.to
        <5>1. x \in ToSet(interrupts[b]) \cup ToSet(asides[b]) \cup ToSet(box[b]) \cup steer[b]
          BY <2>1, <2>3, <4>2 DEF LandsInQueue, Landing, Delivering, Failing
        <5>2. msg[m].to = b  BY <1>0, <3>1, <5>1 DEF QueuesInv, QueuesOf
        <5> QED  BY <4>2, <5>2 DEF Ready, NoMessage
      <4> QED  BY <4>1, <4>2
    <3>2. CASE x # m
      <4>0. /\ x \notin At(m, e, b, p, "interrupts") /\ x \notin At(m, e, b, p, "asides")
            /\ x \notin At(m, e, b, p, "box") /\ x \notin At(m, e, b, p, "steer")
        BY <3>2 DEF At
      <4>1. x \in ToSet(interrupts[b]) \cup ToSet(asides[b]) \cup ToSet(box[b]) \cup steer[b]
        BY <2>3, <4>0 DEF LandsInQueue
      <4> QED  BY <1>0, <1>1, <3>2, <4>1 DEF QueuesInv, QueuesOf
    <3> QED  BY <3>1, <3>2
  <2>6. ASSUME NEW x \in Msgs, x \in notes'[b] PROVE msg'[x].from = b
    <3>1. CASE x \in notes[b]
      <4>1. msg[x].from = b  BY <1>0, <3>1 DEF QueuesInv, QueuesOf
      <4>2. CASE x = m  BY <4>1, <4>2 DEF LandsInTable, Ready, NoMessage, WellSent
      <4> QED  BY <1>1, <4>1, <4>2
    <3>2. CASE x \notin notes[b]
      <4>1. x = m /\ b = e.from  BY <2>6, <3>2 DEF LandsInQueue, Noted
      <4> QED  BY <4>1 DEF LandsInTable
    <3> QED  BY <3>1, <3>2
  <2>4. \A x \in loop'[b] : Known(x)'
    BY <1>0, <1>3, <2>2 DEF LandsInQueue, QueuesInv, QueuesOf
  <2>5. NoDup(interrupts'[b]) /\ NoDup(asides'[b]) /\ NoDup(box'[b])  BY DEF LandsInQueue
  <2> QED  BY <2>2, <2>3, <2>4, <2>5, <2>6 DEF QueuesOf
<1>5. \A x \in seen' \cup discarded' \cup forfeited' \cup replying' : Known(x)'
  <2>1. \A x \in shown \cup dropped : Held(x) /\ x \in Msgs
    BY <1>0 DEF LandsInHistory, Held
  <2>2. seen \cup discarded \cup forfeited \cup replying \subseteq Msgs
    BY DEF IrcInv, TypedInv, IrcTypeOK
  <2>3. \A x \in seen' \cup discarded' \cup forfeited' \cup replying' :
           \/ x = m \/ x \in seen \cup discarded \cup forfeited \cup replying
           \/ x \in shown \cup dropped
    BY DEF LandsInHistory, LandsInQueue
  <2> QED  BY <1>0, <1>3, <2>1, <2>2, <2>3 DEF QueuesInv
<1>6. \A x \in Msgs : Held(x)' => Known(x)'
  <2> SUFFICES ASSUME NEW x \in Msgs, Held(x)', x # m PROVE Known(x)'  BY <1>3
  <2>1. PICK s \in Msgs : msg'[s].got = x  BY DEF Held
  <2>2. msg[s].got = x
    <3>1. CASE s = m  BY <2>1, <3>1, IrcAssumption DEF LandsInTable, WellSent, Landing, Ready
    <3>2. CASE s # m  BY <1>1, <2>1, <3>2
    <3> QED  BY <3>1, <3>2
  <2> QED  BY <1>0, <1>3, <2>2 DEF QueuesInv, Held
<1>7. \A s, t \in Msgs : msg'[s].got # None /\ msg'[s].got = msg'[t].got => s = t
  <2> SUFFICES ASSUME NEW s \in Msgs, NEW t \in Msgs, msg'[s].got # None, msg'[s].got = msg'[t].got
               PROVE  s = t
    OBVIOUS
  <2>1. ~Held(m)  BY Nowhere
  <2>2. \A x \in Msgs : msg'[x].got = m => msg[x].got # m  BY <2>1 DEF Held
  <2>3. msg'[m].got = msg[m].got \/ msg'[m].got = None
    BY DEF LandsInTable, WellSent, Landing, Ready
  <2>4. CASE msg'[s].got = m
    <3>1. p = "held" /\ s # m /\ t # m  BY <1>1, <2>2, <2>3, <2>4, IrcAssumption
    <3>2. PICK h \in Msgs \ {m} : \A y \in Msgs \ {m, h} : msg'[y] = msg[y]
      BY <3>1 DEF LandsInTable
    <3> QED  BY <2>2, <2>4, <3>1, <3>2
  <2>5. CASE msg'[s].got # m
    <3>1. msg[s].got = msg'[s].got /\ msg[t].got = msg'[t].got  BY <1>1, <2>3, <2>5
    <3> QED  BY <1>0, <3>1 DEF QueuesInv
  <2> QED  BY <2>4, <2>5
<1> QED  BY <1>2, <1>3, <1>4, <1>5, <1>6, <1>7 DEF QueuesInv

-----------------------------------------------------------------------------
(* Waiters                                                                 *)

\* Every waiter of v is one of w.
Shrinks(v, w) ==
    \A a \in Agents : \A k \in DOMAIN v[a] : \E i \in DOMAIN w[a] : v[a][k] = w[a][i]

LEMMA WaiterLeaves ==
  ASSUME NEW w \in [Agents -> Seq(Waiter)], OneEach(w), NEW a \in Agents, NEW i \in DOMAIN w[a],
         NEW v, v = [w EXCEPT ![a] = RemoveAt(@, i)]
  PROVE  /\ v \in [Agents -> Seq(Waiter)] /\ OneEach(v) /\ Shrinks(v, w)
         /\ w[a][i].send # None => \A k \in DOMAIN v[a] : v[a][k].send # w[a][i].send
<1> PICK q \in Seq(Waiter) : q = w[a]  OBVIOUS
<1> DEFINE t == RemoveAt(q, i)
           O(k) == IF k < i THEN k ELSE k + 1
<1>1. Len(q) \in Nat /\ DOMAIN q = 1 .. Len(q) /\ i \in DOMAIN q
  BY LenProperties
<1>2. /\ t \in Seq(Waiter) /\ Len(t) = Len(q) - 1
      /\ \A k \in DOMAIN t : O(k) \in DOMAIN q /\ O(k) # i /\ t[k] = q[O(k)]
  <2>1. q \in Seq(Waiter) /\ i \in DOMAIN q  BY <1>1
  <2> QED  BY ONLY <2>1, RemoveAtEntries
<1>3. DOMAIN t = 1 .. Len(q) - 1  BY <1>2, LenProperties
<1> HIDE DEF t
<1>4. v[a] = t /\ \A c \in Agents \ {a} : v[c] = w[c]  BY DEF t
<1>5. v \in [Agents -> Seq(Waiter)]  BY <1>2 DEF t
<1>6. Shrinks(v, w)
  <2> SUFFICES ASSUME NEW c \in Agents, NEW k \in DOMAIN v[c]
               PROVE  \E n \in DOMAIN w[c] : v[c][k] = w[c][n]
    BY DEF Shrinks
  <2>1. CASE c = a  BY <1>2, <1>4, <2>1
  <2>2. CASE c # a  BY <1>4, <2>2
  <2> QED  BY <2>1, <2>2
<1>7. OneEach(v)
  <2> SUFFICES ASSUME NEW c \in Agents, NEW k \in DOMAIN v[c], NEW n \in DOMAIN v[c],
                      v[c][k].send # None, v[c][k].send = v[c][n].send
               PROVE  k = n
    BY DEF OneEach
  <2>1. CASE c = a
    <3>1. q[O(k)].send # None /\ q[O(k)].send = q[O(n)].send  BY <1>2, <1>4, <2>1
    <3>2. O(k) = O(n)  BY <1>2, <1>4, <2>1, <3>1 DEF OneEach
    <3> QED  BY <1>1, <1>3, <1>4, <2>1, <3>2
  <2>2. CASE c # a  BY <1>4, <2>2 DEF OneEach
  <2> QED  BY <2>1, <2>2
<1>8. ASSUME w[a][i].send # None, NEW k \in DOMAIN t PROVE t[k].send # w[a][i].send
  BY <1>2, <1>8 DEF OneEach
<1> QED  BY <1>4, <1>5, <1>6, <1>7, <1>8

\* The waiters that are left after a post are still their senders'.
LEMMA AwaitsStay ==
  ASSUME IrcInv, NEW m \in Msgs, NEW e, NEW w, Ready(m, e, w), NEW p \in Landing,
         LandsInTable(m, e, p), Shrinks(waiters', w), OneEach(waiters'),
         \A s \in Msgs \ {m} : msg'[s].got # msg[s].got =>
             \A a \in Agents : \A k \in DOMAIN waiters'[a] : waiters'[a][k].send # s
  PROVE  WaitersInv'
<1>1. \A x \in Msgs \ {m} : msg'[x].from = msg[x].from
  <2>1. CASE p # "held"  BY <2>1 DEF LandsInTable
  <2>2. CASE p = "held"
    <3>1. PICK s \in Msgs \ {m} :
             /\ msg'[s] = [msg[s] EXCEPT !.got = m]
             /\ \A y \in Msgs \ {m, s} : msg'[y] = msg[y]
      BY <2>2 DEF LandsInTable
    <3>2. msg[s] \in Message  BY TypedFacts DEF IrcInv, TypedInv
    <3> QED  BY <3>1, <3>2
  <2> QED  BY <2>1, <2>2
<1>2. msg \in [Msgs -> Message] /\ e \in Message /\ w \in [Agents -> Seq(Waiter)]
  BY TypedFacts DEF IrcInv, TypedInv, Ready
<1> DEFINE mm == [msg EXCEPT ![m] = e]
<1>3. mm[m] = e /\ \A x \in Msgs \ {m} : mm[x] = msg[x]  BY <1>2
<1>4. AwaitsOf(w, mm)  BY DEF Ready
<1> HIDE DEF mm
<1>5. msg'[m].from = e.from /\ msg'[m].got \in {e.got, None}
  BY DEF LandsInTable, Landing, WellSent
<1>6. ASSUME NEW a \in Agents, NEW k \in DOMAIN waiters'[a], waiters'[a][k].send # None
      PROVE  msg'[waiters'[a][k].send].from = a /\ msg'[waiters'[a][k].send].got = None
  <2>1. PICK i \in DOMAIN w[a] : waiters'[a][k] = w[a][i]  BY DEF Shrinks
  <2>2. w[a][i] \in Waiter
    <3>1. w[a] \in Seq(Waiter)  BY <1>2
    <3> QED  BY <3>1, EntryTyped
  <2>3. PICK s \in Msgs : s = w[a][i].send  BY <1>6, <2>1, <2>2 DEF Waiter
  <2>4. mm[s].from = a /\ mm[s].got = None  BY <1>4, <1>6, <2>1, <2>3 DEF AwaitsOf
  <2>5. CASE s = m  BY <1>3, <1>5, <2>1, <2>3, <2>4, <2>5
  <2>6. CASE s # m
    <3>1. waiters'[a][k].send = s  BY <2>1, <2>3
    <3>2. msg[s].got = msg'[s].got  BY <2>6, <3>1
    <3> QED  BY <1>1, <1>3, <2>4, <2>6, <3>1, <3>2
  <2> QED  BY <2>5, <2>6
<1> QED  BY <1>6 DEF WaitersInv, AwaitsOf

-----------------------------------------------------------------------------
(* The outcomes of a post                                                  *)

PostTypes ==
    /\ turn' \in [Agents -> TurnPhase]
    /\ interrupts' \in [Agents -> Seq(Msgs)] /\ asides' \in [Agents -> Seq(Msgs)]
    /\ steer' \in [Agents -> SUBSET Msgs]
    /\ waiters' \in [Agents -> Seq(Waiter)]
    /\ replying' \subseteq Msgs /\ seen' \subseteq Msgs /\ discarded' \subseteq Msgs

Lands(m, e) ==
    \E p \in Landing, shown, dropped \in SUBSET Msgs :
        LandsInQueue(m, e, p) /\ LandsInTable(m, e, p) /\ LandsInHistory(m, p, shown, dropped)

PostDone(m, e, w) == PostTypes /\ Lands(m, e) /\ WaitersInv' /\ Shrinks(waiters', w)

\* What the callers of a post leave alone.
Aside(m, e) ==
    /\ loop' = loop /\ forfeited' = forfeited
    /\ notes' \in [Agents -> SUBSET Msgs] /\ \A b \in Agents : notes'[b] \subseteq notes[b] \cup Noted(m, e, b)

LEMMA ReadyFacts ==
  ASSUME IrcInv, NEW m \in Msgs, NEW e, NEW w, Ready(m, e, w)
  PROVE  /\ IrcTypeOK /\ msg \in [Msgs -> Message] /\ e \in Message /\ e.to \in Agents /\ e.from \in Agents
         /\ w \in [Agents -> Seq(Waiter)] /\ OneEach(w)
         /\ Taken(e) \in SUBSET Msgs /\ Taken(e) = {msg[m].got} \ {None}
         /\ msg[m].receipt = "none"
         /\ \A b \in Agents : NoDup(interrupts[b]) /\ NoDup(asides[b]) /\ NoDup(box[b])
BY TypedFacts DEF IrcInv, TypedInv, QueuesInv, QueuesOf, Ready, Taken, NoMessage

LEMMA SameTypes ==
  ASSUME IrcTypeOK
  PROVE  /\ UNCHANGED turn => turn' \in [Agents -> TurnPhase]
         /\ UNCHANGED interrupts => interrupts' \in [Agents -> Seq(Msgs)]
         /\ UNCHANGED asides => asides' \in [Agents -> Seq(Msgs)]
         /\ UNCHANGED steer => steer' \in [Agents -> SUBSET Msgs]
         /\ UNCHANGED waiters => waiters' \in [Agents -> Seq(Waiter)]
         /\ UNCHANGED replying => replying' \subseteq Msgs
         /\ UNCHANGED seen => seen' \subseteq Msgs
         /\ UNCHANGED discarded => discarded' \subseteq Msgs
BY DEF IrcTypeOK, Waiter

LEMMA Nothing ==
  ASSUME NEW m, NEW e, NEW p \in Landing, NEW b
  PROVE  /\ p # "interrupts" => At(m, e, b, p, "interrupts") = {}
         /\ p # "asides" => At(m, e, b, p, "asides") = {}
         /\ p # "box" => At(m, e, b, p, "box") = {}
         /\ p # "steer" => At(m, e, b, p, "steer") = {}
         /\ \A q : b # e.to => At(m, e, b, p, q) = {}
         /\ b = e.to => At(m, e, b, p, p) = {m}
BY DEF At

\* One entry of the table changes.
LEMMA EntrySet ==
  ASSUME NEW t \in [Msgs -> Message], NEW m \in Msgs, NEW x \in Message, NEW u, u = [t EXCEPT ![m] = x]
  PROVE  u \in [Msgs -> Message] /\ u[m] = x /\ \A y \in Msgs \ {m} : u[y] = t[y]
OBVIOUS

\* The message waits: for ensureLive, or for the microtask of its rejection.
LEMMA PostPends ==
  ASSUME IrcInv, NEW m \in Msgs, NEW e, NEW w, Ready(m, e, w), Aside(m, e), box' = box,
         NEW at \in {"gate", "bounced"}, msg' = [msg EXCEPT ![m] = [e EXCEPT !.at = at]],
         waiters' = w,
         UNCHANGED <<turn, interrupts, asides, steer, replying, seen, discarded>>
  PROVE  PostDone(m, e, w)
<1>0. /\ IrcTypeOK /\ msg \in [Msgs -> Message] /\ e \in Message /\ w \in [Agents -> Seq(Waiter)] /\ OneEach(w)
      /\ \A b \in Agents : NoDup(interrupts[b]) /\ NoDup(asides[b]) /\ NoDup(box[b])
  BY ReadyFacts
<1> DEFINE new == [e EXCEPT !.at = at]
<1>1. /\ new \in Message /\ new.from = e.from /\ new.to = e.to /\ new.receipt = e.receipt
      /\ new.got = e.got /\ new.at = at
  BY <1>0
<1> HIDE DEF new
<1>2. msg' = [msg EXCEPT ![m] = new]  BY DEF new
<1>3. LandsInTable(m, e, "pending")
  <2>1. msg' \in [Msgs -> Message] /\ msg'[m] = new /\ \A x \in Msgs \ {m} : msg'[x] = msg[x]
    <3>1. msg \in [Msgs -> Message] /\ m \in Msgs /\ new \in Message  BY <1>0, <1>1
    <3> QED  BY ONLY <3>1, <1>2, EntrySet
  <2>2. WellSent(new)  BY <1>1 DEF WellSent, Ready
  <2> QED  BY <1>1, <2>1, <2>2 DEF LandsInTable, Ready, Delivering, Failing
<1>4. LandsInQueue(m, e, "pending")
  BY <1>0, Nothing DEF LandsInQueue, Landing, Aside
<1>5. LandsInHistory(m, "pending", {}, {})
  <2>1. msg'[m].got = msg[m].got  BY <1>0, <1>1, <1>2 DEF Ready
  <2> QED  BY <2>1 DEF LandsInHistory
<1>6. Lands(m, e)  BY <1>3, <1>4, <1>5 DEF Lands, Landing
<1>7. WaitersInv'
  <2>1. Shrinks(waiters', w) /\ OneEach(waiters')  BY <1>0 DEF Shrinks
  <2>2. \A s \in Msgs \ {m} : msg'[s].got = msg[s].got  BY <1>0, <1>2
  <2> QED  BY <1>3, <2>1, <2>2, AwaitsStay DEF Landing
<1>8. Shrinks(waiters', w)  BY DEF Shrinks
<1> QED  BY <1>0, <1>6, <1>7, <1>8, SameTypes DEF PostDone, PostTypes

LEMMA BufferedFacts ==
  ASSUME NEW q \in Seq(Msgs), NoDup(q), Len(q) <= MailboxCap, NEW m \in Msgs, m \notin ToSet(q)
  PROVE  /\ Buffered(q, m) \in Seq(Msgs) /\ Len(Buffered(q, m)) <= MailboxCap
         /\ NoDup(Buffered(q, m)) /\ ToSet(Buffered(q, m)) \subseteq ToSet(q) \cup {m}
<1>1. Len(q) \in Nat /\ MailboxCap \in Nat \ {0}  BY LenProperties, IrcAssumption
<1>2. CASE Len(q) < MailboxCap  BY <1>1, <1>2, AppendNoDup DEF Buffered
<1>3. CASE ~(Len(q) < MailboxCap)
  <2>1. Len(q) > 0 /\ Len(q) = MailboxCap  BY <1>1, <1>3
  <2> PICK t \in Seq(Msgs) : t = Tail(q)  BY <2>1, TailNoDup
  <2>2. Len(t) = Len(q) - 1 /\ ToSet(t) \subseteq ToSet(q) /\ NoDup(t)  BY <2>1, TailNoDup
  <2>3. /\ Append(t, m) \in Seq(Msgs) /\ Len(Append(t, m)) = Len(t) + 1
        /\ ToSet(Append(t, m)) = ToSet(t) \cup {m} /\ NoDup(Append(t, m))
    <3>1. t \in Seq(Msgs) /\ m \in Msgs /\ NoDup(t) /\ m \notin ToSet(t)  BY <2>2
    <3> QED  BY ONLY <3>1, AppendNoDup
  <2>4. Buffered(q, m) = Append(t, m)  BY <1>3 DEF Buffered
  <2> QED  BY <1>1, <2>1, <2>2, <2>3, <2>4
<1> QED  BY <1>2, <1>3

\* Nobody received.
LEMMA PostFails ==
  ASSUME IrcInv, NEW m \in Msgs, NEW e, NEW w, Ready(m, e, w), Aside(m, e), Refused(m, e, w),
         box' = box \/ box' = [box EXCEPT ![e.to] = Buffered(@, m)]
  PROVE  PostDone(m, e, w) /\ box' \in [Agents -> Seq(Msgs)] /\ \A a \in Agents : Len(box'[a]) <= MailboxCap
<1>0. /\ IrcTypeOK /\ msg \in [Msgs -> Message] /\ e \in Message /\ e.to \in Agents /\ e.from \in Agents
      /\ w \in [Agents -> Seq(Waiter)] /\ OneEach(w)
      /\ Taken(e) \in SUBSET Msgs /\ Taken(e) = {msg[m].got} \ {None}
      /\ \A b \in Agents : NoDup(interrupts[b]) /\ NoDup(asides[b]) /\ NoDup(box[b])
  BY ReadyFacts
<1> DEFINE p == IF box' = box THEN "lost" ELSE "box"
           new == Failed(e)
<1>1. p \in Landing  BY DEF Landing, Failing
<1>2. /\ new \in Message /\ new.from = e.from /\ new.to = e.to /\ new.receipt = "failed"
      /\ new.got = None /\ new.at = "sent"
  BY <1>0 DEF Failed
<1> HIDE DEF new
<1>3. msg' = [msg EXCEPT ![m] = new]  BY DEF new, Refused
<1>4. LandsInTable(m, e, p)
  <2>1. msg' \in [Msgs -> Message] /\ msg'[m] = new /\ \A x \in Msgs \ {m} : msg'[x] = msg[x]
    BY <1>0, <1>2, <1>3
  <2>2. WellSent(new)  BY <1>2 DEF WellSent, Ready
  <2> QED  BY <1>2, <2>1, <2>2 DEF LandsInTable, Delivering, Failing
<1>5. /\ box' \in [Agents -> Seq(Msgs)]
      /\ \A b \in Agents : /\ NoDup(box'[b]) /\ Len(box'[b]) <= MailboxCap
                           /\ ToSet(box'[b]) \subseteq ToSet(box[b]) \cup At(m, e, b, p, "box")
  <2>0. box \in [Agents -> Seq(Msgs)] /\ \A b \in Agents : Len(box[b]) <= MailboxCap
    BY <1>0 DEF IrcTypeOK
  <2>1. CASE box' = box  BY <1>0, <2>0, <2>1
  <2>2. CASE box' # box
    <3> PICK q \in Seq(Msgs) : q = box[e.to]  BY <1>0, <2>0
    <3> DEFINE t == Buffered(q, m)
    <3>1. m \notin ToSet(q)  BY Nowhere
    <3>2. NoDup(q) /\ Len(q) <= MailboxCap  BY <1>0, <2>0
    <3>3. t \in Seq(Msgs) /\ Len(t) <= MailboxCap /\ NoDup(t) /\ ToSet(t) \subseteq ToSet(q) \cup {m}
      BY <3>1, <3>2, BufferedFacts
    <3> HIDE DEF t
    <3>4. box' = [box EXCEPT ![e.to] = t]  BY <2>2 DEF t
    <3>5. box'[e.to] = t /\ \A b \in Agents \ {e.to} : box'[b] = box[b]  BY <1>0, <2>0, <3>4
    <3>6. At(m, e, e.to, p, "box") = {m}  BY <2>2 DEF At
    <3>7. box' \in [Agents -> Seq(Msgs)]  BY <2>0, <3>3, <3>4
    <3> QED  BY <1>0, <2>0, <3>3, <3>5, <3>6, <3>7
  <2> QED  BY <2>1, <2>2
<1>6. LandsInQueue(m, e, p)
  <2>1. p \notin {"interrupts", "asides", "steer"}  OBVIOUS
  <2>2. UNCHANGED <<turn, interrupts, asides, steer, replying, seen>>  BY DEF Refused
  <2> HIDE DEF p
  <2> QED  BY <1>0, <1>1, <1>5, <2>1, <2>2, Nothing DEF LandsInQueue, Aside
<1>7. LandsInHistory(m, p, {}, Taken(e))
  <2>1. msg'[m].got = None  BY <1>0, <1>2, <1>3
  <2>2. p # "seen"  OBVIOUS
  <2> HIDE DEF p
  <2> QED  BY <1>0, <2>1, <2>2 DEF LandsInHistory, Refused
<1>8. Lands(m, e)  BY <1>0, <1>1, <1>4, <1>6, <1>7 DEF Lands
<1>9. waiters' \in [Agents -> Seq(Waiter)] /\ Shrinks(waiters', w) /\ OneEach(waiters')
  <2>1. CASE waiters' = w  BY <1>0, <2>1 DEF Shrinks
  <2>2. CASE \E i \in DOMAIN w[e.from] : waiters' = [w EXCEPT ![e.from] = RemoveAt(@, i)]
    <3> PICK a \in Agents : a = e.from  BY <1>0
    <3>1. PICK i \in DOMAIN w[a] : waiters' = [w EXCEPT ![a] = RemoveAt(@, i)]
      BY <2>2
    <3>2. w \in [Agents -> Seq(Waiter)] /\ OneEach(w) /\ a \in Agents /\ i \in DOMAIN w[a]  BY <1>0
    <3> QED  BY ONLY <3>1, <3>2, WaiterLeaves
  <2> QED  BY <2>1, <2>2 DEF Refused, CancelsAwait
<1>10. WaitersInv'
  <2>1. \A s \in Msgs \ {m} : msg'[s].got = msg[s].got  BY <1>0, <1>3
  <2> QED  BY <1>1, <1>4, <1>9, <2>1, AwaitsStay
<1>11. discarded' \subseteq Msgs  BY <1>0 DEF Refused, IrcTypeOK
<1> QED  BY <1>0, <1>5, <1>8, <1>9, <1>10, <1>11, SameTypes DEF PostDone, PostTypes, Refused

LEMMA DeliveredFacts ==
  ASSUME IrcInv, NEW m \in Msgs, NEW e, NEW w, Ready(m, e, w)
  PROVE  /\ Delivered(e) \in Message /\ Delivered(e).from = e.from /\ Delivered(e).to = e.to
         /\ Delivered(e).receipt = "delivered" /\ Delivered(e).got = None /\ WellSent(Delivered(e))
<1>1. e \in Message  BY ReadyFacts
<1> PICK new \in Message : new = Delivered(e)  BY <1>1 DEF Delivered
<1>2. /\ new.from = e.from /\ new.to = e.to /\ new.receipt = "delivered"
      /\ new.got = None /\ new.at = "sent"
  BY <1>1 DEF Delivered
<1>3. WellSent(new)  BY <1>2 DEF WellSent, Ready
<1> QED  BY <1>2, <1>3

\* A parked call of the recipient takes the message.
LEMMA PostTaken ==
  ASSUME IrcInv, NEW m \in Msgs, NEW e, NEW w, Ready(m, e, w), Aside(m, e), box' = box, WaiterTakes(m, e, w)
  PROVE  PostDone(m, e, w)
<1>0. /\ IrcTypeOK /\ msg \in [Msgs -> Message] /\ e \in Message /\ e.to \in Agents /\ e.from \in Agents
      /\ w \in [Agents -> Seq(Waiter)] /\ OneEach(w)
      /\ Taken(e) \in SUBSET Msgs /\ Taken(e) = {msg[m].got} \ {None}
      /\ \A b \in Agents : NoDup(interrupts[b]) /\ NoDup(asides[b]) /\ NoDup(box[b])
  BY ReadyFacts
<1> PICK b \in Agents : b = e.to  BY <1>0
<1> PICK i \in DOMAIN w[e.to] :
       LET t == w[e.to][i].send
           holds == t # None /\ msg[t].receipt = "none"
       IN /\ waiters' = [w EXCEPT ![e.to] = RemoveAt(@, i)]
          /\ msg' = [x \in Msgs |-> IF x = m THEN Delivered(e)
                                    ELSE IF x = t /\ holds THEN [msg[x] EXCEPT !.got = m] ELSE msg[x]]
          /\ seen' = seen \cup Taken(e) \cup (IF holds THEN {} ELSE {m})
          /\ UNCHANGED <<turn, interrupts, asides, steer, replying, discarded>>
  BY DEF WaiterTakes
<1> PICK s \in Maybe : s = w[b][i].send
  <2>1. w[b] \in Seq(Waiter) /\ i \in DOMAIN w[b]  BY <1>0
  <2>2. w[b][i] \in Waiter  BY ONLY <2>1, EntryTyped
  <2> QED  BY <2>2 DEF Waiter
<1> DEFINE held == s # None /\ msg[s].receipt = "none"
           p == IF held THEN "held" ELSE "seen"
<1>1. s # None => s \in Msgs \ {m} /\ msg[s].from = b /\ msg[s].got = None /\ msg[s] # NoMessage
  <2> SUFFICES ASSUME s # None PROVE s \in Msgs \ {m} /\ msg[s].from = b /\ msg[s].got = None /\ msg[s] # NoMessage
    OBVIOUS
  <2> PICK mm \in [Msgs -> Message] : mm = [msg EXCEPT ![m] = e]  BY <1>0
  <2>1. mm[m] = e /\ \A x \in Msgs \ {m} : mm[x] = msg[x]  BY <1>0
  <2>2. AwaitsOf(w, mm)  BY DEF Ready
  <2>3. mm[s].from = b /\ mm[s].got = None  BY <2>2 DEF AwaitsOf
  <2>4. s # m  BY <2>1, <2>3 DEF Ready
  <2> QED  BY <2>1, <2>3, <2>4 DEF NoMessage
<1>2. /\ Delivered(e) \in Message /\ Delivered(e).from = e.from /\ Delivered(e).to = e.to
      /\ Delivered(e).receipt = "delivered" /\ Delivered(e).got = None /\ WellSent(Delivered(e))
  BY DeliveredFacts
<1>3. ASSUME held PROVE [msg[s] EXCEPT !.got = m] \in Message
  BY <1>0, <1>1, <1>3
<1>4. /\ msg'[m] = Delivered(e)
      /\ held => msg'[s] = [msg[s] EXCEPT !.got = m]
      /\ \A x \in Msgs \ {m} : ~held \/ x # s => msg'[x] = msg[x]
  BY <1>1
<1>5. msg' \in [Msgs -> Message]
  <2>1. ASSUME NEW x \in Msgs PROVE msg'[x] \in Message
    <3>1. CASE x = m  BY <1>2, <1>4, <3>1
    <3>2. CASE x = s /\ held  BY <1>3, <1>4, <3>2
    <3>3. CASE x # m /\ (~held \/ x # s)  BY <1>0, <1>4, <3>3
    <3> QED  BY <3>1, <3>2, <3>3
  <2>2. msg' = [x \in Msgs |-> msg'[x]]  OBVIOUS
  <2> QED  BY <2>1, <2>2
<1>6. LandsInTable(m, e, p)
  <2>1. p \in Delivering /\ p \notin Failing /\ p # "pending"  BY DEF Delivering, Failing
  <2>2. p # "held" => \A x \in Msgs \ {m} : msg'[x] = msg[x]  BY <1>4
  <2>3. ASSUME p = "held"
        PROVE  \E y \in Msgs \ {m} :
             /\ msg[y] # NoMessage /\ msg[y].receipt = "none" /\ msg[y].got = None
             /\ msg'[y] = [msg[y] EXCEPT !.got = m]
             /\ \A x \in Msgs \ {m, y} : msg'[x] = msg[x]
    <3>1. held  BY <2>3
    <3> QED  BY <1>1, <1>4, <3>1
  <2> HIDE DEF p
  <2> QED  BY <1>2, <1>4, <1>5, <2>1, <2>2, <2>3 DEF LandsInTable
<1>7. p \in Landing /\ p \notin {"interrupts", "asides", "box", "steer"}  BY DEF Landing, Delivering
<1>8. LandsInQueue(m, e, p)
  <2>1. UNCHANGED <<turn, interrupts, asides, steer, replying>>  OBVIOUS
  <2> HIDE DEF p
  <2> QED  BY <1>0, <1>7, <2>1, Nothing DEF LandsInQueue, Aside
<1>9. LandsInHistory(m, p, Taken(e), {})
  <2>1. msg'[m].got = None  BY <1>2, <1>4
  <2>2. seen' = seen \cup Taken(e) \cup (IF p = "seen" THEN {m} ELSE {}) /\ discarded' = discarded  OBVIOUS
  <2> HIDE DEF p
  <2> QED  BY <1>0, <2>1, <2>2 DEF LandsInHistory
<1>10. Lands(m, e)
  <2> HIDE DEF p
  <2> QED  BY <1>0, <1>6, <1>7, <1>8, <1>9 DEF Lands
<1>11. /\ waiters' \in [Agents -> Seq(Waiter)] /\ Shrinks(waiters', w) /\ OneEach(waiters')
       /\ s # None => \A k \in DOMAIN waiters'[b] : waiters'[b][k].send # s
  <2>1. w \in [Agents -> Seq(Waiter)] /\ OneEach(w) /\ b \in Agents /\ i \in DOMAIN w[b]  BY <1>0
  <2>2. waiters' = [w EXCEPT ![b] = RemoveAt(@, i)]  OBVIOUS
  <2>3. waiters' \in [Agents -> Seq(Waiter)] /\ Shrinks(waiters', w) /\ OneEach(waiters')
    BY ONLY <2>1, <2>2, WaiterLeaves
  <2>4. w[b][i].send # None => \A k \in DOMAIN waiters'[b] : waiters'[b][k].send # w[b][i].send
    BY ONLY <2>1, <2>2, WaiterLeaves
  <2> QED  BY <2>3, <2>4
<1>12. WaitersInv'
  <2>1. ASSUME NEW x \in Msgs \ {m}, msg'[x].got # msg[x].got,
               NEW a \in Agents, NEW k \in DOMAIN waiters'[a]
        PROVE  waiters'[a][k].send # x
    <3>1. held /\ x = s  BY <1>4, <2>1
    <3>2. CASE a = b  BY <1>11, <3>1, <3>2
    <3>3. CASE a # b
      <4> SUFFICES ASSUME waiters'[a][k].send = x PROVE FALSE  OBVIOUS
      <4>1. PICK n \in DOMAIN w[a] : w[a][n].send = s  BY <1>11, <3>1 DEF Shrinks
      <4> PICK mm \in [Msgs -> Message] : mm = [msg EXCEPT ![m] = e]  BY <1>0
      <4>2. AwaitsOf(w, mm) /\ mm[s] = msg[s]  BY <1>1, <3>1 DEF Ready
      <4>3. msg[s].from = a  BY <3>1, <4>1, <4>2 DEF AwaitsOf
      <4> QED  BY <1>1, <3>1, <3>3, <4>3
    <3> QED  BY <3>2, <3>3
  <2> HIDE DEF p
  <2> QED  BY <1>6, <1>7, <1>11, <2>1, AwaitsStay
<1>13. seen' \subseteq Msgs
  <2>1. seen \subseteq Msgs  BY <1>0 DEF IrcTypeOK
  <2> QED  BY <1>0, <2>1
<1>14. PostTypes  BY <1>0, <1>11, <1>13, SameTypes DEF PostTypes
<1> QED  BY <1>10, <1>11, <1>12, <1>14 DEF PostDone

\* The session takes the message in, or shows it at once.
LEMMA PostAccepted ==
  ASSUME IrcInv, NEW m \in Msgs, NEW e, NEW w, Ready(m, e, w), Aside(m, e), box' = box, Accepted(m, e, w)
  PROVE  PostDone(m, e, w)
<1>0. /\ IrcTypeOK /\ msg \in [Msgs -> Message] /\ e \in Message /\ e.to \in Agents /\ e.from \in Agents
      /\ w \in [Agents -> Seq(Waiter)] /\ OneEach(w)
      /\ Taken(e) \in SUBSET Msgs /\ Taken(e) = {msg[m].got} \ {None}
      /\ \A b \in Agents : NoDup(interrupts[b]) /\ NoDup(asides[b]) /\ NoDup(box[b])
  BY ReadyFacts
<1> PICK b \in Agents : b = e.to  BY <1>0
<1>1. /\ turn \in [Agents -> TurnPhase]
      /\ interrupts \in [Agents -> Seq(Msgs)] /\ asides \in [Agents -> Seq(Msgs)]
      /\ steer \in [Agents -> SUBSET Msgs]
      /\ replying \subseteq Msgs /\ seen \subseteq Msgs /\ discarded \subseteq Msgs
  BY <1>0 DEF IrcTypeOK
<1>2. /\ m \notin ToSet(interrupts[b]) /\ m \notin ToSet(asides[b])
  BY Nowhere
<1>3. PICK new \in Message :
         /\ new = Delivered(e) /\ new.from = e.from /\ new.to = e.to
         /\ new.receipt = "delivered" /\ new.got = None /\ WellSent(new)
  BY DeliveredFacts
<1>4. msg' \in [Msgs -> Message] /\ msg'[m] = new /\ \A y \in Msgs \ {m} : msg'[y] = msg[y]
  <2>1. msg \in [Msgs -> Message] /\ m \in Msgs /\ new \in Message  BY <1>0
  <2>2. msg' = [msg EXCEPT ![m] = new]  BY <1>3 DEF Accepted
  <2> QED  BY ONLY <2>1, <2>2, EntrySet
<1>5. ASSUME NEW p \in Delivering \ {"held"} PROVE LandsInTable(m, e, p)
  BY <1>3, <1>4 DEF LandsInTable, Delivering, Failing
<1>6. replying' \subseteq replying \cup {m} /\ replying' \subseteq Msgs
  BY <1>1 DEF Accepted
<1>7. waiters' = w /\ discarded' = discarded /\ Shrinks(waiters', w)  BY DEF Accepted, Shrinks
<1>8. WaitersInv'
  <2>1. Shrinks(waiters', w) /\ OneEach(waiters')  BY <1>0, <1>7 DEF Shrinks
  <2>2. \A s \in Msgs \ {m} : msg'[s].got = msg[s].got  BY <1>4
  <2>3. LandsInTable(m, e, "seen") /\ "seen" \in Landing  BY <1>5 DEF Delivering, Landing
  <2> QED  BY <2>1, <2>2, <2>3, AwaitsStay
<1>9. ASSUME NEW p \in Delivering \ {"held"},
             turn' \in [Agents -> TurnPhase],
             interrupts' \in [Agents -> Seq(Msgs)], asides' \in [Agents -> Seq(Msgs)],
             steer' \in [Agents -> SUBSET Msgs],
             seen' = seen \cup Taken(e) \cup (IF p = "seen" THEN {m} ELSE {}),
             \A c \in Agents :
                /\ NoDup(interrupts'[c]) /\ NoDup(asides'[c])
                /\ ToSet(interrupts'[c]) = ToSet(interrupts[c]) \cup At(m, e, c, p, "interrupts")
                /\ ToSet(asides'[c]) = ToSet(asides[c]) \cup At(m, e, c, p, "asides")
                /\ steer'[c] = steer[c] \cup At(m, e, c, p, "steer")
      PROVE  PostDone(m, e, w)
  <2>1. LandsInQueue(m, e, p)  BY <1>0, <1>6, <1>9 DEF LandsInQueue, Aside
  <2>2. LandsInHistory(m, p, Taken(e), {})
    BY <1>0, <1>3, <1>4, <1>7, <1>9 DEF LandsInHistory
  <2>3. Lands(m, e)  BY <1>0, <1>5, <2>1, <2>2 DEF Lands, Landing
  <2>4. seen' \subseteq Msgs /\ discarded' \subseteq Msgs  BY <1>0, <1>1, <1>7, <1>9
  <2>5. PostTypes  BY <1>0, <1>6, <1>7, <1>9, <2>4 DEF PostTypes
  <2> QED  BY <1>7, <1>8, <2>3, <2>5 DEF PostDone
<1>10. CASE /\ steer' = [steer EXCEPT ![b] = @ \cup {m}]
            /\ seen' = seen \cup Taken(e) /\ UNCHANGED <<turn, interrupts, asides>>
  <2> PICK p \in Delivering \ {"held"} : p = "steer"  BY DEF Delivering
  <2>1. steer'[b] = steer[b] \cup {m} /\ \A c \in Agents \ {b} : steer'[c] = steer[c]  BY <1>1, <1>10
  <2>2. steer' \in [Agents -> SUBSET Msgs]  BY <1>1, <1>10
  <2>8. \A c \in Agents :
           /\ NoDup(interrupts'[c]) /\ NoDup(asides'[c])
           /\ ToSet(interrupts'[c]) = ToSet(interrupts[c]) \cup At(m, e, c, p, "interrupts")
           /\ ToSet(asides'[c]) = ToSet(asides[c]) \cup At(m, e, c, p, "asides")
           /\ steer'[c] = steer[c] \cup At(m, e, c, p, "steer")
    BY <1>0, <1>10, <2>1 DEF At
  <2>9. seen' = seen \cup Taken(e) \cup (IF p = "seen" THEN {m} ELSE {})  BY <1>10
  <2> QED  BY ONLY p \in Delivering \ {"held"}, <1>1, <1>10, <2>2, <2>8, <2>9, <1>9
<1>11. CASE /\ interrupts' = [interrupts EXCEPT ![b] = Append(@, m)]
            /\ seen' = seen \cup Taken(e) /\ UNCHANGED <<turn, asides, steer>>
  <2> PICK p \in Delivering \ {"held"} : p = "interrupts"  BY DEF Delivering
  <2> PICK q \in Seq(Msgs) : q = interrupts[b]  BY <1>1
  <2> DEFINE t == Append(q, m)
  <2>1. t \in Seq(Msgs) /\ ToSet(t) = ToSet(q) \cup {m} /\ NoDup(t)
    <3>1. q \in Seq(Msgs) /\ m \in Msgs /\ NoDup(q) /\ m \notin ToSet(q)  BY <1>0, <1>2
    <3> QED  BY ONLY <3>1, AppendNoDup
  <2> HIDE DEF t
  <2>2. interrupts' = [interrupts EXCEPT ![b] = t]  BY <1>11 DEF t
  <2>3. interrupts'[b] = t /\ \A c \in Agents \ {b} : interrupts'[c] = interrupts[c]  BY <1>1, <2>2
  <2>4. interrupts' \in [Agents -> Seq(Msgs)]  BY <1>1, <2>1, <2>2
  <2>8. \A c \in Agents :
           /\ NoDup(interrupts'[c]) /\ NoDup(asides'[c])
           /\ ToSet(interrupts'[c]) = ToSet(interrupts[c]) \cup At(m, e, c, p, "interrupts")
           /\ ToSet(asides'[c]) = ToSet(asides[c]) \cup At(m, e, c, p, "asides")
           /\ steer'[c] = steer[c] \cup At(m, e, c, p, "steer")
    <3>1. \A c \in Agents : /\ NoDup(interrupts'[c])
                             /\ ToSet(interrupts'[c]) = ToSet(interrupts[c]) \cup At(m, e, c, p, "interrupts")
      BY <1>0, <2>1, <2>3 DEF At
    <3>2. \A c \in Agents : /\ At(m, e, c, p, "asides") = {} /\ At(m, e, c, p, "steer") = {}
      BY DEF At
    <3> QED  BY <1>0, <1>11, <3>1, <3>2
  <2>9. seen' = seen \cup Taken(e) \cup (IF p = "seen" THEN {m} ELSE {})  BY <1>11
  <2> QED  BY ONLY p \in Delivering \ {"held"}, <1>1, <1>11, <2>4, <2>8, <2>9, <1>9
<1>12. CASE /\ asides' = [asides EXCEPT ![b] = Append(@, m)]
            /\ seen' = seen \cup Taken(e) /\ UNCHANGED <<turn, interrupts, steer>>
  <2> PICK p \in Delivering \ {"held"} : p = "asides"  BY DEF Delivering
  <2> PICK q \in Seq(Msgs) : q = asides[b]  BY <1>1
  <2> DEFINE t == Append(q, m)
  <2>1. t \in Seq(Msgs) /\ ToSet(t) = ToSet(q) \cup {m} /\ NoDup(t)
    <3>1. q \in Seq(Msgs) /\ m \in Msgs /\ NoDup(q) /\ m \notin ToSet(q)  BY <1>0, <1>2
    <3> QED  BY ONLY <3>1, AppendNoDup
  <2> HIDE DEF t
  <2>2. asides' = [asides EXCEPT ![b] = t]  BY <1>12 DEF t
  <2>3. asides'[b] = t /\ \A c \in Agents \ {b} : asides'[c] = asides[c]  BY <1>1, <2>2
  <2>4. asides' \in [Agents -> Seq(Msgs)]  BY <1>1, <2>1, <2>2
  <2>8. \A c \in Agents :
           /\ NoDup(interrupts'[c]) /\ NoDup(asides'[c])
           /\ ToSet(interrupts'[c]) = ToSet(interrupts[c]) \cup At(m, e, c, p, "interrupts")
           /\ ToSet(asides'[c]) = ToSet(asides[c]) \cup At(m, e, c, p, "asides")
           /\ steer'[c] = steer[c] \cup At(m, e, c, p, "steer")
    <3>1. \A c \in Agents : /\ NoDup(asides'[c])
                             /\ ToSet(asides'[c]) = ToSet(asides[c]) \cup At(m, e, c, p, "asides")
      BY <1>0, <2>1, <2>3 DEF At
    <3>2. \A c \in Agents : /\ At(m, e, c, p, "interrupts") = {} /\ At(m, e, c, p, "steer") = {}
      BY DEF At
    <3> QED  BY <1>0, <1>12, <3>1, <3>2
  <2>9. seen' = seen \cup Taken(e) \cup (IF p = "seen" THEN {m} ELSE {})  BY <1>12
  <2> QED  BY ONLY p \in Delivering \ {"held"}, <1>1, <1>12, <2>4, <2>8, <2>9, <1>9
<1>13. CASE /\ turn' = turn \/ turn' = [turn EXCEPT ![b] = "step"]
            /\ seen' = (seen \cup Taken(e)) \cup {m} /\ UNCHANGED <<interrupts, asides, steer>>
  <2> PICK p \in Delivering \ {"held"} : p = "seen"  BY DEF Delivering
  <2>1. turn' \in [Agents -> TurnPhase]  BY <1>1, <1>13
  <2>8. \A c \in Agents :
           /\ NoDup(interrupts'[c]) /\ NoDup(asides'[c])
           /\ ToSet(interrupts'[c]) = ToSet(interrupts[c]) \cup At(m, e, c, p, "interrupts")
           /\ ToSet(asides'[c]) = ToSet(asides[c]) \cup At(m, e, c, p, "asides")
           /\ steer'[c] = steer[c] \cup At(m, e, c, p, "steer")
    BY <1>0, <1>13 DEF At
  <2>9. seen' = seen \cup Taken(e) \cup (IF p = "seen" THEN {m} ELSE {})  BY <1>13
  <2> QED  BY ONLY p \in Delivering \ {"held"}, <1>1, <1>13, <2>1, <2>8, <2>9, <1>9
<1> QED  BY <1>10, <1>11, <1>12, <1>13 DEF Accepted

LEMMA HandOverDone ==
  ASSUME IrcInv, NEW m \in Msgs, NEW e, NEW w, Ready(m, e, w), Aside(m, e), box' = box, HandOver(m, e, w)
  PROVE  PostDone(m, e, w)
<1>1. CASE WaiterTakes(m, e, w)  BY <1>1, PostTaken
<1>2. CASE Accepted(m, e, w)  BY <1>2, PostAccepted
<1>3. CASE Throws(m, e, w)  BY <1>3, PostPends DEF Throws
<1>4. CASE Refused(m, e, w)  BY <1>4, PostFails
<1> QED  BY <1>1, <1>2, <1>3, <1>4 DEF HandOver

LEMMA PostsDone ==
  ASSUME IrcInv, NEW m \in Msgs, NEW e, NEW w, Ready(m, e, w), Aside(m, e), box' = box, Posts(m, e, w)
  PROVE  PostDone(m, e, w)
<1>1. CASE Refused(m, e, w)  BY <1>1, PostFails
<1>2. CASE HandOver(m, e, w)  BY <1>2, HandOverDone
<1>3. CASE /\ msg' = [msg EXCEPT ![m] = [e EXCEPT !.at = "gate"]]
           /\ waiters' = w
           /\ UNCHANGED <<turn, interrupts, asides, steer, replying, seen, discarded>>
  BY <1>3, PostPends
<1> QED  BY <1>1, <1>2, <1>3 DEF Posts

\* A post keeps the invariant.
LEMMA PostStep ==
  ASSUME IrcInv, NEW m \in Msgs, NEW e, NEW w, Ready(m, e, w), PostDone(m, e, w),
         UNCHANGED <<life, loop, resume, leaving, batch, forfeited>>,
         notes' \in [Agents -> SUBSET Msgs],
         box' \in [Agents -> Seq(Msgs)], \A a \in Agents : Len(box'[a]) <= MailboxCap
  PROVE  IrcInv'
<1>1. PICK p \in Landing, shown \in SUBSET Msgs, dropped \in SUBSET Msgs :
         LandsInQueue(m, e, p) /\ LandsInTable(m, e, p) /\ LandsInHistory(m, p, shown, dropped)
  BY DEF PostDone, Lands
<1>2. MessagesInv' /\ QueuesInv' /\ \A x \in Msgs \ {m} : Known(x)' <=> Known(x)
  BY <1>1, QueuesStay
<1>3. PlacedInv'
  <2> SUFFICES ASSUME NEW x \in Msgs, Known(x)' PROVE Placed(x)'  BY DEF PlacedInv
  <2>1. CASE x = m  BY <1>1, <2>1, ItselfLands
  <2>2. CASE x # m  BY <1>1, <1>2, <2>2, OthersStay
  <2> QED  BY <2>1, <2>2
<1>4. IrcTypeOK'
  <2>1. msg' \in [Msgs -> Message]  BY <1>1 DEF LandsInTable
  <2>2. IrcTypeOK /\ PostTypes  BY DEF IrcInv, TypedInv, PostDone
  <2> QED  BY <2>1, <2>2 DEF IrcTypeOK, PostTypes, Waiter
<1> QED  BY <1>2, <1>3, <1>4 DEF IrcInv, TypedInv, PostDone

-----------------------------------------------------------------------------
(***************************************************************************)
(* No wait beside its message.  A message whose rejection is on its way    *)
(* will be in the mailbox: nobody who would take it may start to wait.     *)
(***************************************************************************)
NoWaitFor(a, x) ==
    \A i \in DOMAIN waiters[a] : waiters[a][i].send = None => ~Matches(waiters[a][i].from, x)

Ahead(a, x) ==
    \/ x \in ToSet(interrupts[a]) \/ x \in ToSet(asides[a]) \/ x \in ToSet(box[a])
    \/ msg[x].at = "bounced" /\ msg[x].to = a

HeardInv == \A a \in Agents, x \in Msgs : Ahead(a, x) => NoWaitFor(a, x)

\* A post that puts the message where a wait would look finds no wait for it.
Answered(m, e) ==
    \/ \A k \in DOMAIN waiters'[e.to] :
          waiters'[e.to][k].send = None => ~Accepts(waiters'[e.to][k], e.from)
    \/ /\ m \notin ToSet(interrupts'[e.to]) /\ m \notin ToSet(asides'[e.to]) /\ m \notin ToSet(box'[e.to])
       /\ msg'[m].at # "bounced"

LEMMA EntriesStay ==
  ASSUME IrcInv, NEW m \in Msgs, NEW e, NEW p, LandsInTable(m, e, p), NEW x \in Msgs \ {m}
  PROVE  msg'[x].from = msg[x].from /\ msg'[x].to = msg[x].to /\ msg'[x].at = msg[x].at
<1>1. CASE p # "held"  BY <1>1 DEF LandsInTable
<1>2. CASE p = "held"
  <2>1. PICK s \in Msgs \ {m} :
           /\ msg'[s] = [msg[s] EXCEPT !.got = m]
           /\ \A y \in Msgs \ {m, s} : msg'[y] = msg[y]
    BY <1>2 DEF LandsInTable
  <2>2. msg[s] \in Message  BY TypedFacts DEF IrcInv, TypedInv
  <2>3. msg'[s].from = msg[s].from /\ msg'[s].to = msg[s].to /\ msg'[s].at = msg[s].at  BY <2>1, <2>2
  <2> QED  BY <2>1, <2>3
<1> QED  BY <1>1, <1>2

LEMMA PostHeard ==
  ASSUME IrcInv, IrcInv', HeardInv, NEW m \in Msgs, NEW e, NEW w, Ready(m, e, w), PostDone(m, e, w),
         Answered(m, e)
  PROVE  HeardInv'
<1> SUFFICES ASSUME NEW a \in Agents, NEW x \in Msgs, Ahead(a, x)' PROVE NoWaitFor(a, x)'
  BY DEF HeardInv
<1>1. PICK p \in Landing : LandsInQueue(m, e, p) /\ LandsInTable(m, e, p)
  BY DEF PostDone, Lands
<1>2. \A k \in DOMAIN waiters'[a] : waiters'[a][k].send = None =>
         \E j \in DOMAIN waiters[a] : waiters[a][j] = waiters'[a][k]
  BY DEF PostDone, Shrinks, Ready
<1>3. CASE x # m
  <2>1. msg'[x].from = msg[x].from /\ msg'[x].to = msg[x].to /\ msg'[x].at = msg[x].at
    BY <1>1, <1>3, EntriesStay
  <2>2. \A q \in Landing : x \notin At(m, e, a, p, q)  BY <1>3 DEF At
  <2>3. Ahead(a, x)
    BY <1>1, <2>1, <2>2 DEF Ahead, LandsInQueue, Landing, Delivering, Failing
  <2>4. NoWaitFor(a, x)  BY <2>3 DEF HeardInv
  <2> QED  BY <1>2, <2>1, <2>4 DEF NoWaitFor, Matches
<1>4. CASE x = m
  <2>1. msg'[m].from = e.from /\ msg'[m].to = e.to  BY <1>1 DEF LandsInTable
  <2>2. a = e.to  BY <1>4, <2>1 DEF Ahead, IrcInv, QueuesInv, QueuesOf
  <2>3. \A k \in DOMAIN waiters'[a] : waiters'[a][k].send = None => ~Accepts(waiters'[a][k], e.from)
    BY <1>4, <2>2 DEF Answered, Ahead
  <2> QED  BY <1>4, <2>1, <2>3 DEF NoWaitFor, Matches, Accepts
<1> QED  BY <1>3, <1>4

LEMMA HandOverAnswered ==
  ASSUME IrcInv, NEW m \in Msgs, NEW e, NEW w, Ready(m, e, w), box' = box,
         HandOver(m, e, w) \/ Refused(m, e, w)
  PROVE  Answered(m, e)
<1>1. /\ m \notin ToSet(interrupts[e.to]) /\ m \notin ToSet(asides[e.to]) /\ m \notin ToSet(box[e.to])
      /\ msg \in [Msgs -> Message] /\ e \in Message
  BY Nowhere, ReadyFacts
<1>2. CASE WaiterTakes(m, e, w)
  <2>1. msg'[m] = Delivered(e) /\ UNCHANGED <<interrupts, asides>>  BY <1>2 DEF WaiterTakes
  <2>2. msg'[m].at = "sent"  BY <1>1, <2>1 DEF Delivered
  <2> QED  BY <1>1, <2>1, <2>2 DEF Answered
<1>3. CASE Refused(m, e, w)
  <2>1. msg'[m] = Failed(e) /\ UNCHANGED <<interrupts, asides>>  BY <1>1, <1>3 DEF Refused
  <2>2. msg'[m].at = "sent"  BY <1>1, <2>1 DEF Failed
  <2> QED  BY <1>1, <2>1, <2>2 DEF Answered
<1>4. CASE /\ ~\E i \in DOMAIN w[e.to] : Accepts(w[e.to][i], e.from)
           /\ waiters' = w
  BY <1>4 DEF Answered
<1> QED  BY <1>2, <1>3, <1>4 DEF HandOver, Accepted, Throws

LEMMA PostsAnswered ==
  ASSUME IrcInv, NEW m \in Msgs, NEW e, NEW w, Ready(m, e, w), box' = box, Posts(m, e, w)
  PROVE  Answered(m, e)
<1>1. CASE Refused(m, e, w)  BY <1>1, HandOverAnswered
<1>2. CASE HandOver(m, e, w)  BY <1>2, HandOverAnswered
<1>3. CASE /\ msg' = [msg EXCEPT ![m] = [e EXCEPT !.at = "gate"]]
           /\ UNCHANGED <<interrupts, asides>>
  <2>1. /\ m \notin ToSet(interrupts[e.to]) /\ m \notin ToSet(asides[e.to]) /\ m \notin ToSet(box[e.to])
        /\ msg \in [Msgs -> Message] /\ e \in Message
    BY Nowhere, ReadyFacts
  <2>2. msg'[m].at = "gate"  BY <1>3, <2>1
  <2> QED  BY <1>3, <2>1, <2>2 DEF Answered
<1> QED  BY <1>1, <1>2, <1>3 DEF Posts

LEMMA BounceAnswered ==
  ASSUME IrcInv, HeardInv, NEW m \in Msgs, Bounces(m), PostDone(m, msg[m], waiters)
  PROVE  Answered(m, msg[m])
<1> PICK b \in Agents : b = msg[m].to
  BY NoMessageTyped DEF Bounces, IrcInv, TypedInv, MessagesInv, WellSent
<1>1. NoWaitFor(b, m)  BY DEF Bounces, HeardInv, Ahead
<1>2. \A k \in DOMAIN waiters'[b] : \E i \in DOMAIN waiters[b] : waiters'[b][k] = waiters[b][i]
  BY DEF PostDone, Shrinks
<1> QED  BY <1>1, <1>2 DEF Answered, NoWaitFor, Matches, Accepts

-----------------------------------------------------------------------------
(* The actions that post                                                   *)

LEMMA FreshFacts ==
  ASSUME IrcInv, NEW m \in Msgs, msg[m].at = "unsent"
  PROVE  /\ msg[m] = NoMessage
         /\ \A a \in Agents : \A i \in DOMAIN waiters[a] : waiters[a][i].send # m
<1>1. msg[m] = NoMessage  BY DEF IrcInv, TypedInv, MessagesInv, WellSent
<1> QED  BY <1>1 DEF IrcInv, WaitersInv, AwaitsOf, NoMessage

LEMMA ReadyFresh ==
  ASSUME IrcInv, NEW m \in Msgs, msg[m].at = "unsent",
         NEW e \in Message, e.from \in Agents, e.to \in Agents, e.from # e.to,
         e.receipt = "none", e.got = None
  PROVE  Ready(m, e, waiters)
<1>1. msg \in [Msgs -> Message] /\ waiters \in [Agents -> Seq(Waiter)]
  BY TypedFacts DEF IrcInv, TypedInv
<1>2. /\ msg[m] = NoMessage /\ NoMessage.got = None
      /\ \A a \in Agents : \A i \in DOMAIN waiters[a] : waiters[a][i].send # m
  BY FreshFacts, NoMessageTyped
<1> PICK mm \in [Msgs -> Message] : mm = [msg EXCEPT ![m] = e]  BY <1>1
<1>3. \A x \in Msgs \ {m} : mm[x] = msg[x]  BY <1>1
<1>4. AwaitsOf(waiters, mm)
  <2> SUFFICES ASSUME NEW a \in Agents, NEW i \in DOMAIN waiters[a], waiters[a][i].send # None
               PROVE  mm[waiters[a][i].send].from = a /\ mm[waiters[a][i].send].got = None
    BY DEF AwaitsOf
  <2>1. waiters[a] \in Seq(Waiter) /\ i \in DOMAIN waiters[a]  BY <1>1
  <2>2. waiters[a][i] \in Waiter  BY ONLY <2>1, EntryTyped
  <2>3. waiters[a][i].send \in Msgs \ {m}  BY <1>2, <2>2 DEF Waiter
  <2> QED  BY <1>3, <2>3 DEF IrcInv, WaitersInv, AwaitsOf
<1>5. OneEach(waiters)  BY DEF IrcInv, WaitersInv
<1> QED  BY <1>1, <1>2, <1>4, <1>5 DEF Ready

LEMMA ReadyParked ==
  ASSUME IrcInv, NEW m \in Msgs, msg[m].at = "unsent",
         NEW e \in Message, NEW a \in Agents, e.from = a, e.to \in Agents, e.from # e.to,
         e.receipt = "none", e.got = None,
         NEW w, w = [waiters EXCEPT ![a] = Append(@, [from |-> e.to, send |-> m])]
  PROVE  Ready(m, e, w)
<1>1. msg \in [Msgs -> Message] /\ waiters \in [Agents -> Seq(Waiter)]
  BY TypedFacts DEF IrcInv, TypedInv
<1>2. /\ msg[m] = NoMessage /\ NoMessage.got = None
      /\ \A c \in Agents : \A i \in DOMAIN waiters[c] : waiters[c][i].send # m
  BY FreshFacts, NoMessageTyped
<1> PICK new \in Waiter : new = [from |-> e.to, send |-> m]  BY DEF Waiter
<1>3. new.send = m  OBVIOUS
<1> PICK q \in Seq(Waiter) : q = waiters[a]  BY <1>1
<1> DEFINE t == Append(q, new)
<1>4. /\ t \in Seq(Waiter)
      /\ \A k \in DOMAIN t : \/ k \in DOMAIN q /\ t[k] = q[k]
                             \/ k = Len(q) + 1 /\ t[k] = new
  <2>1. q \in Seq(Waiter) /\ new \in Waiter  OBVIOUS
  <2> QED  BY ONLY <2>1, AppendNoDup
<1> HIDE DEF t
<1>5. w = [waiters EXCEPT ![a] = t]  BY DEF t
<1>6. /\ w \in [Agents -> Seq(Waiter)] /\ w[a] = t
      /\ \A c \in Agents \ {a} : w[c] = waiters[c]
  BY <1>1, <1>4, <1>5
<1>7. \A c \in Agents : \A k \in DOMAIN w[c] :
         \/ k \in DOMAIN waiters[c] /\ w[c][k] = waiters[c][k]
         \/ c = a /\ k = Len(q) + 1 /\ w[c][k] = new
  BY <1>4, <1>6
<1> PICK mm \in [Msgs -> Message] : mm = [msg EXCEPT ![m] = e]  BY <1>1
<1>8. AwaitsOf(w, mm)
  <2>1. Ready(m, e, waiters)  BY ReadyFresh
  <2>2. AwaitsOf(waiters, mm)  BY <2>1 DEF Ready
  <2>3. mm[m].from = a /\ mm[m].got = None  BY <1>1
  <2> QED  BY <1>3, <1>7, <2>2, <2>3 DEF AwaitsOf
<1>9. OneEach(w)
  <2> SUFFICES ASSUME NEW c \in Agents, NEW i \in DOMAIN w[c], NEW j \in DOMAIN w[c],
                      w[c][i].send # None, w[c][i].send = w[c][j].send
               PROVE  i = j
    BY DEF OneEach
  <2>1. OneEach(waiters)  BY DEF IrcInv, WaitersInv
  <2> QED  BY <1>2, <1>3, <1>7, <2>1 DEF OneEach
<1>10. \A c \in Agents : \A k \in DOMAIN w[c] :
          w[c][k].send = None => \E j \in DOMAIN waiters[c] : waiters[c][j] = w[c][k]
  BY <1>3, <1>7
<1> QED  BY <1>2, <1>6, <1>8, <1>9, <1>10 DEF Ready

LEMMA ReadyAgain ==
  ASSUME IrcInv, NEW m \in Msgs, msg[m].at \in {"gate", "bounced"}
  PROVE  Ready(m, msg[m], waiters)
<1>1. msg \in [Msgs -> Message] /\ waiters \in [Agents -> Seq(Waiter)]
  BY TypedFacts DEF IrcInv, TypedInv
<1>2. WellSent(msg[m])  BY NoMessageTyped DEF IrcInv, TypedInv, MessagesInv
<1>3. [msg EXCEPT ![m] = msg[m]] = msg  BY <1>1
<1>4. AwaitsOf(waiters, msg) /\ OneEach(waiters)  BY DEF IrcInv, WaitersInv
<1> QED  BY <1>1, <1>2, <1>3, <1>4 DEF Ready, WellSent

LEMMA SendStep ==
  ASSUME IrcInv, NEW m \in Msgs, NEW a \in Agents, NEW b \in Agents, NEW asks \in BOOLEAN,
         Send(m, a, b, asks)
  PROVE  IrcInv' /\ (HeardInv => HeardInv')
<1> PICK e \in Message : e = [NoMessage EXCEPT !.from = a, !.to = b, !.asks = asks]
  BY DEF NoMessage
<1>1. e.from = a /\ e.to = b /\ e.receipt = "none" /\ e.got = None
  BY DEF NoMessage
<1> PICK w : w = IF asks THEN [waiters EXCEPT ![a] = Append(@, [from |-> e.to, send |-> m])] ELSE waiters
  OBVIOUS
<1>2. /\ a # b /\ msg[m].at = "unsent" /\ Posts(m, e, w)
      /\ UNCHANGED <<life, notes, loop, resume, leaving, batch, box, forfeited>>
  BY <1>1 DEF Send, Fresh
<1>3. Ready(m, e, w)
  <2>1. CASE asks  BY <1>1, <1>2, <2>1, ReadyParked
  <2>2. CASE ~asks  BY <1>1, <1>2, <2>2, ReadyFresh
  <2> QED  BY <2>1, <2>2
<1>4. IrcTypeOK  BY DEF IrcInv, TypedInv
<1>5. Aside(m, e)  BY <1>2, <1>4 DEF Aside, Noted, IrcTypeOK
<1>6. PostDone(m, e, w) /\ Answered(m, e)  BY <1>2, <1>3, <1>5, PostsDone, PostsAnswered
<1>7. IrcInv'  BY <1>2, <1>3, <1>4, <1>6, PostStep DEF IrcTypeOK
<1> QED  BY <1>3, <1>6, <1>7, PostHeard

LEMMA GateStep ==
  ASSUME IrcInv, NEW m \in Msgs, GateOpens(m) \/ GateFails(m)
  PROVE  IrcInv' /\ (HeardInv => HeardInv')
<1> PICK e : e = msg[m]  OBVIOUS
<1>1. /\ msg[m].at \in {"gate", "bounced"}
      /\ HandOver(m, e, waiters) \/ Refused(m, e, waiters)
      /\ UNCHANGED <<life, notes, loop, resume, leaving, batch, box, forfeited>>
  BY DEF GateOpens, GateFails
<1>2. Ready(m, e, waiters)  BY <1>1, ReadyAgain
<1>3. IrcTypeOK  BY DEF IrcInv, TypedInv
<1>4. Aside(m, e)  BY <1>1, <1>3 DEF Aside, Noted, IrcTypeOK
<1>5. PostDone(m, e, waiters) /\ Answered(m, e)
  BY <1>1, <1>2, <1>4, HandOverDone, PostFails, HandOverAnswered
<1>6. IrcInv'  BY <1>1, <1>2, <1>3, <1>5, PostStep DEF IrcTypeOK
<1> QED  BY <1>2, <1>5, <1>6, PostHeard

LEMMA BounceStep ==
  ASSUME IrcInv, NEW m \in Msgs, Bounces(m)
  PROVE  IrcInv' /\ (HeardInv => HeardInv')
<1> PICK e : e = msg[m]  OBVIOUS
<1>1. /\ msg[m].at \in {"gate", "bounced"}
      /\ Refused(m, e, waiters)
      /\ box' = [box EXCEPT ![e.to] = Buffered(@, m)]
      /\ UNCHANGED <<life, notes, loop, resume, leaving, batch, forfeited>>
  BY DEF Bounces
<1>2. Ready(m, e, waiters)  BY <1>1, ReadyAgain
<1>3. IrcTypeOK  BY DEF IrcInv, TypedInv
<1>4. Aside(m, e)  BY <1>1, <1>3 DEF Aside, Noted, IrcTypeOK
<1>5. PostDone(m, e, waiters) /\ box' \in [Agents -> Seq(Msgs)] /\ \A a \in Agents : Len(box'[a]) <= MailboxCap
  BY <1>1, <1>2, <1>4, PostFails
<1>6. IrcInv'  BY <1>1, <1>2, <1>3, <1>5, PostStep DEF IrcTypeOK
<1> QED  BY <1>2, <1>5, <1>6, PostHeard, BounceAnswered

LEMMA ReplyStep ==
  ASSUME IrcInv, NEW m \in Msgs, NEW r \in Msgs, ReplySent(m, r)
  PROVE  IrcInv' /\ (HeardInv => HeardInv')
<1>1. WellSent(msg[m])
  <2>1. Known(m)  BY DEF ReplySent, Unanswered, IrcInv, QueuesInv
  <2> QED  BY <2>1, NoMessageTyped DEF Known, IrcInv, TypedInv, MessagesInv
<1> PICK a \in Agents, c \in Agents : a = msg[m].to /\ c = msg[m].from  BY <1>1 DEF WellSent
<1> PICK e \in Message : e = [NoMessage EXCEPT !.from = a, !.to = c, !.answers = m]
  BY DEF NoMessage
<1>2. e.from = a /\ e.to = c /\ e.receipt = "none" /\ e.got = None /\ a # c
  BY <1>1 DEF NoMessage, WellSent
<1>3. /\ msg[r].at = "unsent" /\ Posts(r, e, waiters)
      /\ notes' = [notes EXCEPT ![a] = @ \cup {r}]
      /\ UNCHANGED <<life, loop, resume, leaving, batch, box, forfeited>>
  BY DEF ReplySent, Fresh
<1>4. Ready(r, e, waiters)  BY <1>2, <1>3, ReadyFresh
<1>5. IrcTypeOK  BY DEF IrcInv, TypedInv
<1>6. Aside(r, e) /\ notes' \in [Agents -> SUBSET Msgs]  BY <1>3, <1>5 DEF Aside, Noted, IrcTypeOK
<1>7. PostDone(r, e, waiters) /\ Answered(r, e)  BY <1>3, <1>4, <1>6, PostsDone, PostsAnswered
<1>8. IrcInv'  BY <1>3, <1>4, <1>5, <1>6, <1>7, PostStep DEF IrcTypeOK
<1> QED  BY <1>4, <1>7, <1>8, PostHeard

-----------------------------------------------------------------------------
(***************************************************************************)
(* The actions that move messages on: agent a gives up OI, OA, OB, OS and  *)
(* OL of its queues and its loop; of these S is shown, F forfeited and L   *)
(* taken by the loop.                                                      *)
(***************************************************************************)
Others(a) ==
    \A b \in Agents \ {a} :
        /\ interrupts'[b] = interrupts[b] /\ asides'[b] = asides[b] /\ box'[b] = box[b]
        /\ steer'[b] = steer[b] /\ loop'[b] = loop[b] /\ notes'[b] = notes[b]

Own(a) == ToSet(interrupts[a]) \cup ToSet(asides[a]) \cup ToSet(box[a]) \cup steer[a] \cup loop[a]

Yields(a, OI, OA, OB, OS, OL) ==
    /\ OI \subseteq ToSet(interrupts[a]) /\ OA \subseteq ToSet(asides[a]) /\ OB \subseteq ToSet(box[a])
    /\ OS \subseteq steer[a] /\ OL \subseteq loop[a]
    /\ NoDup(interrupts'[a]) /\ ToSet(interrupts'[a]) = ToSet(interrupts[a]) \ OI
    /\ NoDup(asides'[a]) /\ ToSet(asides'[a]) = ToSet(asides[a]) \ OA
    /\ NoDup(box'[a]) /\ ToSet(box'[a]) = ToSet(box[a]) \ OB
    /\ steer'[a] = steer[a] \ OS
    /\ notes'[a] \subseteq notes[a]

Goes(a, OI, OA, OB, OS, OL, S, F, L) ==
    /\ loop'[a] = (loop[a] \ OL) \cup L
    /\ seen' = seen \cup S /\ forfeited' = forfeited \cup F
    /\ S \cup F \subseteq {x \in Own(a) : msg[x].to = a} /\ L \subseteq Own(a) \cup notes[a]
    /\ {x \in S \cup F \cup L : msg[x].to = a} = {x \in OI \cup OA \cup OB \cup OS \cup OL : msg[x].to = a}
    /\ S \cap F = {} /\ S \cap L = {} /\ F \cap L = {} /\ OB \subseteq S

LEMMA MovedPlaced ==
  ASSUME IrcInv, NEW a \in Agents, Others(a), msg' = msg, discarded' = discarded,
         NEW OI, NEW OA, NEW OB, NEW OS, NEW OL, NEW S, NEW F, NEW L,
         Yields(a, OI, OA, OB, OS, OL), Goes(a, OI, OA, OB, OS, OL, S, F, L)
  PROVE  PlacedInv'
<1> SUFFICES ASSUME NEW x \in Msgs, Known(x) PROVE Placed(x)'
  BY DEF PlacedInv, Known
<1>1. /\ Placed(x) /\ (Held(x)' <=> Held(x)) /\ WellSent(msg[x])
  BY NoMessageTyped DEF IrcInv, PlacedInv, Held, TypedInv, MessagesInv, Known
<1> PICK b \in Agents : b = msg[x].to  BY <1>1 DEF WellSent
<1>2. Underway(x, b)' = One(x \in ToSet(interrupts'[b])) + One(x \in ToSet(asides'[b]))
        + One(x \in steer'[b]) + One(x \in loop'[b]) + One(Held(x)')
        + One(x \in discarded') + One(x \in forfeited')
  BY DEF Underway
<1>3. CASE b # a
  <2>1. x \notin S /\ x \notin F  BY <1>3 DEF Goes
  <2>2. /\ interrupts'[b] = interrupts[b] /\ asides'[b] = asides[b] /\ box'[b] = box[b]
        /\ steer'[b] = steer[b] /\ loop'[b] = loop[b]
    BY <1>3 DEF Others
  <2>3. /\ x \in seen' <=> x \in seen
        /\ x \in forfeited' <=> x \in forfeited
    BY <2>1 DEF Goes
  <2>4. Underway(x, b)' = Underway(x, b) /\ One(x \in seen') = One(x \in seen)
    BY <1>1, <1>2, <2>2, <2>3 DEF Underway, One
  <2> QED  BY <1>1, <2>2, <2>3, <2>4 DEF Placed
<1>4. CASE b = a
  <2>1. /\ x \in ToSet(interrupts'[a]) <=> x \in ToSet(interrupts[a]) /\ x \notin OI
        /\ x \in ToSet(asides'[a]) <=> x \in ToSet(asides[a]) /\ x \notin OA
        /\ x \in ToSet(box'[a]) <=> x \in ToSet(box[a]) /\ x \notin OB
        /\ x \in steer'[a] <=> x \in steer[a] /\ x \notin OS
        /\ x \in OI => x \in ToSet(interrupts[a])
        /\ x \in OA => x \in ToSet(asides[a])
        /\ x \in OB => x \in ToSet(box[a])
        /\ x \in OS => x \in steer[a]
        /\ x \in OL => x \in loop[a]
    BY DEF Yields
  <2>2. /\ x \in loop'[a] <=> (x \in loop[a] /\ x \notin OL) \/ x \in L
        /\ x \in seen' <=> x \in seen \/ x \in S
        /\ x \in forfeited' <=> x \in forfeited \/ x \in F
        /\ x \in S \/ x \in F \/ x \in L <=> x \in OI \/ x \in OA \/ x \in OB \/ x \in OS \/ x \in OL
        /\ ~(x \in S /\ x \in F) /\ ~(x \in S /\ x \in L) /\ ~(x \in F /\ x \in L)
        /\ x \in OB => x \in S
    BY <1>4 DEF Goes
  <2>3. CASE msg[x].receipt = "delivered"
    <3>1. x \notin ToSet(box[a]) /\ Underway(x, a) + One(x \in seen) = 1
      BY <1>1, <1>4, <2>3 DEF Placed
    <3>2. Underway(x, a)' + One(x \in seen') = 1
      BY <1>1, <1>2, <1>4, <2>1, <2>2, <3>1 DEF Underway, One
    <3> QED  BY <1>4, <2>1, <2>3, <3>1, <3>2 DEF Placed
  <2>4. CASE msg[x].receipt # "delivered"
    <3>1. Underway(x, a) = 0  BY <1>1, <1>4, <2>4, TypedFacts DEF Placed, IrcInv, TypedInv
    <3>2. /\ x \notin ToSet(interrupts[a]) /\ x \notin ToSet(asides[a]) /\ x \notin steer[a]
          /\ x \notin loop[a] /\ ~Held(x) /\ x \notin discarded /\ x \notin forfeited
      BY <3>1 DEF Underway, One
    <3>3. x \notin F /\ x \notin L  BY <2>1, <2>2, <3>2
    <3>4. Underway(x, a)' = 0
      BY <1>1, <1>2, <1>4, <2>1, <2>2, <3>2, <3>3 DEF One
    <3>5. /\ x \in ToSet(box'[a]) => x \in ToSet(box[a]) /\ x \notin S
          /\ x \in S => x \in ToSet(box[a])
      BY <2>1, <2>2, <3>2
    <3> QED  BY <1>1, <1>4, <2>2, <2>4, <3>4, <3>5 DEF Placed
  <2> QED  BY <2>3, <2>4
<1> QED  BY <1>3, <1>4

LEMMA MovedQueues ==
  ASSUME IrcInv, NEW a \in Agents, Others(a), msg' = msg, discarded' = discarded, replying' = replying,
         NEW OI, NEW OA, NEW OB, NEW OS, NEW OL, NEW S, NEW F, NEW L,
         Yields(a, OI, OA, OB, OS, OL), Goes(a, OI, OA, OB, OS, OL, S, F, L)
  PROVE  QueuesInv'
<1>0. QueuesInv /\ IrcTypeOK /\ \A x \in Msgs : Known(x)' <=> Known(x)
  BY DEF IrcInv, TypedInv, Known
<1>1. \A x \in Own(a) \cup notes[a] : x \in Msgs /\ Known(x)
  <2>1. \A x \in Own(a) \cup notes[a] : x \in Msgs
    BY <1>0, TypedFacts DEF Own
  <2>2. \A x \in Msgs : msg[x] = NoMessage => msg[x].to = None /\ msg[x].from = None
    BY DEF NoMessage
  <2>3. \A x \in Msgs : msg[x] # NoMessage => Known(x)
    BY DEF IrcInv, TypedInv, MessagesInv, WellSent, Known
  <2>4. QueuesOf(a)  BY <1>0 DEF QueuesInv
  <2>5. ASSUME NEW x \in Own(a) \cup notes[a] PROVE Known(x)
    <3>1. msg[x].to = a \/ msg[x].from = a \/ Known(x)  BY <2>4 DEF QueuesOf, Own
    <3> QED  BY <2>1, <2>2, <2>3, <3>1, IrcAssumption
  <2> QED  BY <2>1, <2>5
<1>2. ASSUME NEW b \in Agents PROVE QueuesOf(b)'
  <2>1. QueuesOf(b)  BY <1>0 DEF QueuesInv
  <2>2. CASE b # a
    BY <1>0, <2>1, <2>2, TypedFacts DEF QueuesOf, Others
  <2>3. CASE b = a
    <3>1. NoDup(interrupts'[a]) /\ NoDup(asides'[a]) /\ NoDup(box'[a])  BY DEF Yields
    <3>2. \A m \in ToSet(interrupts'[a]) \cup ToSet(asides'[a]) \cup ToSet(box'[a]) \cup steer'[a] : msg[m].to = a
      BY <2>1, <2>3 DEF QueuesOf, Yields
    <3>3. \A m \in notes'[a] : msg[m].from = a  BY <2>1, <2>3 DEF QueuesOf, Yields
    <3>4. \A m \in loop'[a] : m \in Msgs /\ Known(m)
      BY <1>1, <2>1, <2>3 DEF QueuesOf, Goes, Own
    <3> QED  BY <1>0, <2>3, <3>1, <3>2, <3>3, <3>4 DEF QueuesOf
  <2> QED  BY <2>2, <2>3
<1>3. \A x \in seen' \cup discarded' \cup forfeited' \cup replying' : Known(x)'
  <2>1. \A x \in S \cup F : x \in Msgs /\ Known(x)  BY <1>1 DEF Goes
  <2>2. seen \cup discarded \cup forfeited \cup replying \subseteq Msgs  BY <1>0 DEF IrcTypeOK
  <2> QED  BY <1>0, <2>1, <2>2 DEF Goes, QueuesInv
<1>4. \A x \in Msgs : Held(x)' => Known(x)'  BY <1>0 DEF Held, QueuesInv
<1>5. \A s, t \in Msgs : msg'[s].got # None /\ msg'[s].got = msg'[t].got => s = t
  BY <1>0 DEF QueuesInv
<1> QED  BY <1>2, <1>3, <1>4, <1>5 DEF QueuesInv

LEMMA SameWaiters == ASSUME WaitersInv, msg' = msg, waiters' = waiters PROVE WaitersInv'
BY DEF WaitersInv, AwaitsOf, OneEach

\* The queues and the waiters only become fewer.
Subsides ==
    /\ msg' = msg
    /\ \A b \in Agents : /\ ToSet(interrupts'[b]) \subseteq ToSet(interrupts[b])
                        /\ ToSet(asides'[b]) \subseteq ToSet(asides[b])
                        /\ ToSet(box'[b]) \subseteq ToSet(box[b])

Calms == Subsides /\ Shrinks(waiters', waiters)

LEMMA MoveStep ==
  ASSUME IrcInv, NEW a \in Agents, Others(a), IrcTypeOK', UNCHANGED <<waiters, msg, discarded, replying>>,
         NEW OI, NEW OA, NEW OB, NEW OS, NEW OL, NEW S, NEW F, NEW L,
         Yields(a, OI, OA, OB, OS, OL), Goes(a, OI, OA, OB, OS, OL, S, F, L)
  PROVE  IrcInv' /\ Calms
<1>1. PlacedInv'  BY MovedPlaced
<1>2. QueuesInv'  BY MovedQueues
<1>3. MessagesInv'  BY DEF IrcInv, TypedInv, MessagesInv
<1>4. WaitersInv'  BY SameWaiters DEF IrcInv
<1>5. Subsides  BY DEF Subsides, Yields, Others
<1>6. Shrinks(waiters', waiters)  BY DEF Shrinks
<1> QED  BY <1>1, <1>2, <1>3, <1>4, <1>5, <1>6 DEF IrcInv, TypedInv, Calms

\* The other variables of a step that posts nothing.
TurnTyped ==
    /\ life' \in [Agents -> {"live", "closing", "parked", "gone"}]
    /\ turn' \in [Agents -> TurnPhase]
    /\ resume' \subseteq Agents /\ leaving' \subseteq Agents
    /\ batch' \in [Agents -> Names]

QueuesTyped ==
    /\ loop' \in [Agents -> SUBSET Msgs] /\ steer' \in [Agents -> SUBSET Msgs]
    /\ interrupts' \in [Agents -> Seq(Msgs)] /\ asides' \in [Agents -> Seq(Msgs)]
    /\ notes' \in [Agents -> SUBSET Msgs]
    /\ box' \in [Agents -> Seq(Msgs)] /\ \A a \in Agents : Len(box'[a]) <= MailboxCap
    /\ seen' \subseteq Msgs /\ forfeited' \subseteq Msgs

LEMMA StepTyped ==
  ASSUME IrcTypeOK, TurnTyped, QueuesTyped, waiters' \in [Agents -> Seq(Waiter)],
         msg' = msg, discarded' = discarded, replying' \subseteq replying
  PROVE  IrcTypeOK'
BY DEF IrcTypeOK, TurnTyped, QueuesTyped, Waiter

\* A step that leaves every queue alone.
LEMMA StillStep ==
  ASSUME IrcInv, TurnTyped, waiters' \in [Agents -> Seq(Waiter)], WaitersInv', replying' \subseteq replying,
         UNCHANGED <<interrupts, asides, notes, steer, loop, box, msg, seen, discarded, forfeited>>
  PROVE  IrcInv' /\ Subsides
<1>1. IrcTypeOK /\ MessagesInv /\ QueuesInv /\ PlacedInv  BY DEF IrcInv, TypedInv
<1>2. QueuesTyped  BY <1>1 DEF QueuesTyped, IrcTypeOK
<1>3. IrcTypeOK'  BY <1>1, <1>2, StepTyped
<1>4. MessagesInv'  BY <1>1 DEF MessagesInv
<1>5. PlacedInv'
  <2> SUFFICES ASSUME NEW x \in Msgs, Known(x) PROVE Placed(x)'  BY DEF PlacedInv, Known
  <2>1. Placed(x)  BY <1>1 DEF PlacedInv
  <2> QED  BY <2>1 DEF Placed, Underway, Held
<1>6. QueuesInv'
  <2>1. \A b \in Agents : QueuesOf(b)'  BY <1>1 DEF QueuesInv, QueuesOf, Known
  <2>2. \A x \in seen' \cup discarded' \cup forfeited' \cup replying' : Known(x)'
    BY <1>1 DEF QueuesInv, Known
  <2> QED  BY <1>1, <2>1, <2>2 DEF QueuesInv, Held, Known
<1> QED  BY <1>3, <1>4, <1>5, <1>6 DEF IrcInv, TypedInv, Subsides

\* A step that leaves the queues, the waiters and what the turns keep alone.
LEMMA TurnSame ==
  ASSUME IrcTypeOK
  PROVE  /\ UNCHANGED life => life' \in [Agents -> {"live", "closing", "parked", "gone"}]
         /\ UNCHANGED turn => turn' \in [Agents -> TurnPhase]
         /\ UNCHANGED resume => resume' \subseteq Agents
         /\ UNCHANGED leaving => leaving' \subseteq Agents
         /\ UNCHANGED batch => batch' \in [Agents -> Names]
BY DEF IrcTypeOK

LEMMA TurnOnlyStep ==
  ASSUME IrcInv, TurnTyped, replying' \subseteq replying,
         UNCHANGED <<interrupts, asides, notes, steer, loop, box, waiters, msg, seen, discarded, forfeited>>
  PROVE  IrcInv' /\ Calms
<1>1. waiters' \in [Agents -> Seq(Waiter)]  BY TypedFacts DEF IrcInv, TypedInv
<1>2. WaitersInv'  BY SameWaiters DEF IrcInv
<1>3. Shrinks(waiters', waiters)  BY DEF Shrinks
<1> QED  BY <1>1, <1>2, <1>3, StillStep DEF Calms

\* The session's pending messages go to the transcript.
LEMMA FlushStep ==
  ASSUME IrcInv, NEW a \in Agents, Flushes(a), TurnTyped,
         UNCHANGED <<steer, loop, box, waiters, msg, replying, discarded, forfeited>>
  PROVE  IrcInv' /\ Calms
<1>1. IrcTypeOK /\ waiters' \in [Agents -> Seq(Waiter)]  BY TypedFacts DEF IrcInv, TypedInv
<1> PICK I \in SUBSET Msgs, A \in SUBSET Msgs : I = ToSet(interrupts[a]) /\ A = ToSet(asides[a])
  BY <1>1, TypedFacts
<1>2. /\ interrupts \in [Agents -> Seq(Msgs)] /\ asides \in [Agents -> Seq(Msgs)]
      /\ notes \in [Agents -> SUBSET Msgs] /\ seen \subseteq Msgs
  BY <1>1 DEF IrcTypeOK
<1>3. /\ interrupts' = [interrupts EXCEPT ![a] = <<>>] /\ asides' = [asides EXCEPT ![a] = <<>>]
      /\ notes' = [notes EXCEPT ![a] = {}] /\ seen' = seen \cup (I \cup A)
  BY DEF Flushes, Incoming
<1>4. /\ interrupts'[a] = <<>> /\ asides'[a] = <<>> /\ notes'[a] = {}
      /\ \A b \in Agents \ {a} : interrupts'[b] = interrupts[b] /\ asides'[b] = asides[b] /\ notes'[b] = notes[b]
  BY <1>2, <1>3
<1>5. Others(a)  BY <1>4 DEF Others
<1>6. QueuesTyped
  <2>1. /\ interrupts' \in [Agents -> Seq(Msgs)] /\ asides' \in [Agents -> Seq(Msgs)]
        /\ notes' \in [Agents -> SUBSET Msgs] /\ seen' \subseteq Msgs
    BY <1>2, <1>3, EmptyQueue
  <2> QED  BY <1>1, <2>1 DEF QueuesTyped, IrcTypeOK
<1>7. IrcTypeOK'  BY <1>1, <1>6, StepTyped
<1>8. QueuesOf(a)  BY DEF IrcInv, QueuesInv
<1>9. Yields(a, I, A, {}, {}, {})
  BY <1>4, <1>8, EmptyQueue DEF Yields, QueuesOf
<1>10. \A x \in I \cup A : msg[x].to = a  BY <1>8 DEF QueuesOf
<1>11. Goes(a, I, A, {}, {}, {}, I \cup A, {}, {})
  BY <1>3, <1>10 DEF Goes, Own
<1> QED  BY <1>5, <1>7, <1>9, <1>11, MoveStep

-----------------------------------------------------------------------------
(* The hub calls                                                           *)

\* One entry leaves a queue without duplicates.
Without(Q, R, a, i) ==
    /\ R \in [Agents -> Seq(Msgs)] /\ NoDup(R[a]) /\ Len(R[a]) <= Len(Q[a])
    /\ Q[a][i] \in Msgs /\ Q[a][i] \in ToSet(Q[a]) /\ ToSet(R[a]) = ToSet(Q[a]) \ {Q[a][i]}
    /\ \A b \in Agents \ {a} : R[b] = Q[b]

LEMMA EntryLeaves ==
  ASSUME NEW Q \in [Agents -> Seq(Msgs)], NEW a \in Agents, NEW i \in DOMAIN Q[a], NoDup(Q[a]),
         NEW R, R = [Q EXCEPT ![a] = RemoveAt(@, i)]
  PROVE  Without(Q, R, a, i)
<1> PICK q \in Seq(Msgs) : q = Q[a]  OBVIOUS
<1> DEFINE t == RemoveAt(q, i)
<1>1. q \in Seq(Msgs) /\ i \in DOMAIN q /\ NoDup(q)  OBVIOUS
<1>2. NoDup(t) /\ ToSet(t) = ToSet(q) \ {q[i]}  BY ONLY <1>1, RemoveAtNoDup
<1>3. t \in Seq(Msgs) /\ Len(t) = Len(q) - 1  BY ONLY <1>1, RemoveAtEntries
<1>4. Len(q) \in Nat  BY LenProperties
<1>5. q[i] \in Msgs  BY ONLY <1>1, EntryTyped
<1>6. q[i] \in ToSet(q)  BY <1>1 DEF ToSet
<1> HIDE DEF t
<1>7. R = [Q EXCEPT ![a] = t]  BY DEF t
<1>8. R[a] = t /\ R \in [Agents -> Seq(Msgs)] /\ \A b \in Agents \ {a} : R[b] = Q[b]
  BY <1>3, <1>7
<1> QED  BY <1>2, <1>3, <1>4, <1>5, <1>6, <1>8 DEF Without

LEMMA WaitQueuedStep ==
  ASSUME IrcInv, NEW a \in Agents, NEW f, WaitQueued(a, f)
  PROVE  IrcInv' /\ Calms
<1>1. /\ IrcTypeOK /\ waiters' \in [Agents -> Seq(Waiter)] /\ QueuesOf(a)
      /\ UNCHANGED <<life, notes, steer, turn, loop, resume, leaving, batch,
                     box, waiters, msg, replying, discarded, forfeited>>
  BY TypedFacts DEF WaitQueued, turnVars, busVars, IrcInv, TypedInv, QueuesInv
<1>2. TurnTyped  BY <1>1, TurnSame DEF TurnTyped
<1>4. /\ interrupts \in [Agents -> Seq(Msgs)] /\ asides \in [Agents -> Seq(Msgs)] /\ seen \subseteq Msgs
      /\ NoDup(interrupts[a]) /\ NoDup(asides[a]) /\ NoDup(box[a])
  BY <1>1 DEF IrcTypeOK, QueuesOf
<1>5. CASE \E i \in DOMAIN interrupts[a] :
             /\ interrupts' = [interrupts EXCEPT ![a] = RemoveAt(@, i)]
             /\ seen' = seen \cup {interrupts[a][i]}
             /\ UNCHANGED asides
  <2>1. PICK i \in DOMAIN interrupts[a] :
             /\ interrupts' = [interrupts EXCEPT ![a] = RemoveAt(@, i)]
             /\ seen' = seen \cup {interrupts[a][i]}
             /\ UNCHANGED asides
    BY <1>5
  <2>2. /\ interrupts' \in [Agents -> Seq(Msgs)] /\ NoDup(interrupts'[a])
        /\ interrupts[a][i] \in Msgs /\ interrupts[a][i] \in ToSet(interrupts[a])
        /\ ToSet(interrupts'[a]) = ToSet(interrupts[a]) \ {interrupts[a][i]}
        /\ \A b \in Agents \ {a} : interrupts'[b] = interrupts[b]
    <3>1. Without(interrupts, interrupts', a, i)
      BY ONLY <1>4, <2>1, i \in DOMAIN interrupts[a], a \in Agents, EntryLeaves
    <3> QED  BY <3>1 DEF Without
  <2> PICK x \in Msgs : x = interrupts[a][i]  BY <2>2
  <2>3. msg[x].to = a  BY <1>1, <2>2 DEF QueuesOf
  <2>4. Others(a)  BY <1>1, <2>1, <2>2 DEF Others
  <2>5. QueuesTyped  BY <1>1, <1>4, <2>1, <2>2 DEF QueuesTyped, IrcTypeOK
  <2>6. Yields(a, {x}, {}, {}, {}, {})  BY <1>1, <1>4, <2>1, <2>2 DEF Yields
  <2>7. Goes(a, {x}, {}, {}, {}, {}, {x}, {}, {})  BY <1>1, <2>1, <2>2, <2>3 DEF Goes, Own
  <2>8. IrcTypeOK'  BY <1>1, <1>2, <2>5, StepTyped
  <2> QED  BY <1>1, <2>4, <2>6, <2>7, <2>8, MoveStep
<1>6. CASE \E i \in DOMAIN asides[a] :
             /\ asides' = [asides EXCEPT ![a] = RemoveAt(@, i)]
             /\ seen' = seen \cup {asides[a][i]}
             /\ UNCHANGED interrupts
  <2>1. PICK i \in DOMAIN asides[a] :
             /\ asides' = [asides EXCEPT ![a] = RemoveAt(@, i)]
             /\ seen' = seen \cup {asides[a][i]}
             /\ UNCHANGED interrupts
    BY <1>6
  <2>2. /\ asides' \in [Agents -> Seq(Msgs)] /\ NoDup(asides'[a])
        /\ asides[a][i] \in Msgs /\ asides[a][i] \in ToSet(asides[a])
        /\ ToSet(asides'[a]) = ToSet(asides[a]) \ {asides[a][i]}
        /\ \A b \in Agents \ {a} : asides'[b] = asides[b]
    <3>1. Without(asides, asides', a, i)
      BY ONLY <1>4, <2>1, i \in DOMAIN asides[a], a \in Agents, EntryLeaves
    <3> QED  BY <3>1 DEF Without
  <2> PICK x \in Msgs : x = asides[a][i]  BY <2>2
  <2>3. msg[x].to = a  BY <1>1, <2>2 DEF QueuesOf
  <2>4. Others(a)  BY <1>1, <2>1, <2>2 DEF Others
  <2>5. QueuesTyped  BY <1>1, <1>4, <2>1, <2>2 DEF QueuesTyped, IrcTypeOK
  <2>6. Yields(a, {}, {x}, {}, {}, {})  BY <1>1, <1>4, <2>1, <2>2 DEF Yields
  <2>7. Goes(a, {}, {x}, {}, {}, {}, {x}, {}, {})  BY <1>1, <2>1, <2>2, <2>3 DEF Goes, Own
  <2>8. IrcTypeOK'  BY <1>1, <1>2, <2>5, StepTyped
  <2> QED  BY <1>1, <2>4, <2>6, <2>7, <2>8, MoveStep
<1> QED  BY <1>5, <1>6 DEF WaitQueued

LEMMA WaitMailedStep ==
  ASSUME IrcInv, NEW a \in Agents, NEW f, WaitMailed(a, f)
  PROVE  IrcInv' /\ Calms
<1>1. /\ IrcTypeOK /\ waiters' \in [Agents -> Seq(Waiter)] /\ QueuesOf(a)
      /\ UNCHANGED <<life, interrupts, asides, notes, steer, turn, loop, resume, leaving, batch,
                     waiters, msg, replying, discarded, forfeited>>
  BY TypedFacts DEF WaitMailed, queueVars, turnVars, IrcInv, TypedInv, QueuesInv
<1>2. TurnTyped  BY <1>1, TurnSame DEF TurnTyped
<1>4. /\ box \in [Agents -> Seq(Msgs)] /\ seen \subseteq Msgs
      /\ NoDup(interrupts[a]) /\ NoDup(asides[a]) /\ NoDup(box[a])
      /\ \A b \in Agents : Len(box[b]) <= MailboxCap
  BY <1>1 DEF IrcTypeOK, QueuesOf
<1>5. PICK i \in DOMAIN box[a] :
         /\ box' = [box EXCEPT ![a] = RemoveAt(@, i)]
         /\ seen' = seen \cup {box[a][i]}
  BY DEF WaitMailed
<1>6. /\ box' \in [Agents -> Seq(Msgs)] /\ NoDup(box'[a]) /\ Len(box'[a]) <= Len(box[a])
      /\ box[a][i] \in Msgs /\ box[a][i] \in ToSet(box[a])
      /\ ToSet(box'[a]) = ToSet(box[a]) \ {box[a][i]}
      /\ \A b \in Agents \ {a} : box'[b] = box[b]
  <2>1. Without(box, box', a, i)
    BY ONLY <1>4, <1>5, i \in DOMAIN box[a], a \in Agents, EntryLeaves
  <2> QED  BY <2>1 DEF Without
<1> PICK x \in Msgs : x = box[a][i]  BY <1>6
<1>7. msg[x].to = a  BY <1>1, <1>6 DEF QueuesOf
<1>8. Others(a)  BY <1>1, <1>6 DEF Others
<1>9. \A b \in Agents : Len(box'[b]) <= MailboxCap
  <2>1. Len(box[a]) \in Nat /\ Len(box'[a]) \in Nat
    <3>1. box[a] \in Seq(Msgs) /\ box'[a] \in Seq(Msgs)  BY <1>4, <1>6
    <3> QED  BY <3>1, LenProperties
  <2>2. Len(box[a]) <= MailboxCap /\ Len(box'[a]) <= Len(box[a])  BY <1>4, <1>6
  <2>3. Len(box'[a]) <= MailboxCap  BY <2>1, <2>2, IrcAssumption
  <2> QED  BY <1>4, <1>6, <2>3
<1>10. QueuesTyped  BY <1>1, <1>4, <1>5, <1>6, <1>9 DEF QueuesTyped, IrcTypeOK
<1>11. Yields(a, {}, {}, {x}, {}, {})  BY <1>1, <1>4, <1>5, <1>6 DEF Yields
<1>12. Goes(a, {}, {}, {x}, {}, {}, {x}, {}, {})  BY <1>1, <1>5, <1>6, <1>7 DEF Goes, Own
<1>13. IrcTypeOK'  BY <1>1, <1>2, <1>10, StepTyped
<1> QED  BY <1>1, <1>8, <1>11, <1>12, <1>13, MoveStep

LEMMA InboxStep ==
  ASSUME IrcInv, NEW a \in Agents, NEW peek \in BOOLEAN, Inbox(a, peek)
  PROVE  IrcInv' /\ Calms
<1>1. /\ IrcTypeOK /\ waiters' \in [Agents -> Seq(Waiter)] /\ QueuesOf(a)
      /\ UNCHANGED <<life, notes, steer, turn, loop, resume, leaving, batch,
                     waiters, msg, replying, discarded, forfeited>>
  BY TypedFacts DEF Inbox, turnVars, IrcInv, TypedInv, QueuesInv
<1>2. TurnTyped  BY <1>1, TurnSame DEF TurnTyped
<1>4. /\ interrupts \in [Agents -> Seq(Msgs)] /\ asides \in [Agents -> Seq(Msgs)]
      /\ box \in [Agents -> Seq(Msgs)] /\ seen \subseteq Msgs
      /\ NoDup(interrupts[a]) /\ NoDup(asides[a]) /\ NoDup(box[a])
      /\ \A b \in Agents : Len(box[b]) <= MailboxCap
  BY <1>1 DEF IrcTypeOK, QueuesOf
<1> PICK I \in SUBSET Msgs, A \in SUBSET Msgs, B \in SUBSET Msgs :
       /\ I = ToSet(interrupts[a]) /\ A = ToSet(asides[a])
       /\ B = IF peek THEN {} ELSE ToSet(box[a])
  BY <1>1, TypedFacts
<1>5. /\ interrupts' = [interrupts EXCEPT ![a] = <<>>] /\ asides' = [asides EXCEPT ![a] = <<>>]
      /\ seen' = seen \cup (I \cup A \cup B)
  BY DEF Inbox, Incoming
<1>6. box' = IF peek THEN box ELSE [box EXCEPT ![a] = <<>>]  BY DEF Inbox
<1>7. /\ interrupts'[a] = <<>> /\ asides'[a] = <<>>
      /\ \A b \in Agents \ {a} : interrupts'[b] = interrupts[b] /\ asides'[b] = asides[b]
  BY <1>4, <1>5
<1>8. /\ box' \in [Agents -> Seq(Msgs)] /\ \A b \in Agents : Len(box'[b]) <= MailboxCap
      /\ NoDup(box'[a]) /\ ToSet(box'[a]) = ToSet(box[a]) \ B
      /\ \A b \in Agents \ {a} : box'[b] = box[b]
  <2>1. CASE peek  BY <1>4, <1>6, <2>1
  <2>2. CASE ~peek
    <3>1. box' = [box EXCEPT ![a] = <<>>] /\ box'[a] = <<>>  BY <1>4, <1>6, <2>2
    <3> QED  BY <1>4, <2>2, <3>1, EmptyQueue, IrcAssumption
  <2> QED  BY <2>1, <2>2
<1>9. Others(a)  BY <1>1, <1>7, <1>8 DEF Others
<1>10. QueuesTyped
  <2>1. interrupts' \in [Agents -> Seq(Msgs)] /\ asides' \in [Agents -> Seq(Msgs)] /\ seen' \subseteq Msgs
    BY <1>4, <1>5, EmptyQueue
  <2> QED  BY <1>1, <1>8, <2>1 DEF QueuesTyped, IrcTypeOK
<1>11. Yields(a, I, A, B, {}, {})
  BY <1>1, <1>7, <1>8, EmptyQueue DEF Yields
<1>12. \A x \in I \cup A \cup B : msg[x].to = a  BY <1>1 DEF QueuesOf
<1>13. Goes(a, I, A, B, {}, {}, I \cup A \cup B, {}, {})
  BY <1>1, <1>5, <1>12 DEF Goes, Own
<1>14. IrcTypeOK'  BY <1>1, <1>2, <1>10, StepTyped
<1> QED  BY <1>1, <1>9, <1>11, <1>13, <1>14, MoveStep

LEMMA WaitParksStep ==
  ASSUME IrcInv, NEW a \in Agents, NEW f \in Names, WaitParks(a, f)
  PROVE  IrcInv'
<1>1. IrcTypeOK /\ waiters \in [Agents -> Seq(Waiter)] /\ AwaitsOf(waiters, msg) /\ OneEach(waiters)
  BY TypedFacts DEF IrcInv, TypedInv, WaitersInv
<1> PICK new \in Waiter : new = [from |-> f, send |-> None]  BY DEF Waiter
<1>2. new.send = None  OBVIOUS
<1> PICK q \in Seq(Waiter) : q = waiters[a]  BY <1>1
<1> DEFINE t == Append(q, new)
<1>3. /\ t \in Seq(Waiter)
      /\ \A k \in DOMAIN t : \/ k \in DOMAIN q /\ t[k] = q[k]
                             \/ k = Len(q) + 1 /\ t[k] = new
  <2>1. q \in Seq(Waiter) /\ new \in Waiter  OBVIOUS
  <2> QED  BY ONLY <2>1, AppendNoDup
<1> HIDE DEF t
<1>4. waiters' = [waiters EXCEPT ![a] = t]  BY DEF WaitParks, t
<1>5. waiters' \in [Agents -> Seq(Waiter)] /\ waiters'[a] = t /\ \A c \in Agents \ {a} : waiters'[c] = waiters[c]
  BY <1>1, <1>3, <1>4
<1>6. UNCHANGED <<life, interrupts, asides, notes, steer, turn, loop, resume, leaving, batch,
                  box, msg, replying, seen, discarded, forfeited>>
  BY DEF WaitParks, queueVars, turnVars, historyVars
<1>7. \A c \in Agents : \A k \in DOMAIN waiters'[c] :
         waiters'[c][k].send # None => k \in DOMAIN waiters[c] /\ waiters'[c][k] = waiters[c][k]
  BY <1>2, <1>3, <1>5
<1>8. WaitersInv'
  <2>1. AwaitsOf(waiters', msg')  BY <1>1, <1>6, <1>7 DEF AwaitsOf
  <2>2. OneEach(waiters')  BY <1>1, <1>7 DEF OneEach
  <2> QED  BY <2>1, <2>2 DEF WaitersInv
<1>9. TurnTyped  BY <1>1, <1>6, TurnSame DEF TurnTyped
<1> QED  BY <1>5, <1>6, <1>8, <1>9, StillStep

LEMMA ShrinkKeeps ==
  ASSUME WaitersInv, msg' = msg, Shrinks(waiters', waiters), OneEach(waiters')
  PROVE  WaitersInv'
<1>1. AwaitsOf(waiters, msg)  BY DEF WaitersInv
<1>2. AwaitsOf(waiters', msg')  BY <1>1 DEF AwaitsOf, Shrinks
<1> QED  BY <1>2 DEF WaitersInv

LEMMA EndsCallStep ==
  ASSUME IrcInv, NEW a \in Agents, NEW i \in DOMAIN waiters[a], EndsCall(a, i)
  PROVE  IrcInv' /\ Calms
<1>1. IrcTypeOK /\ waiters \in [Agents -> Seq(Waiter)] /\ OneEach(waiters)
  BY TypedFacts DEF IrcInv, TypedInv, WaitersInv
<1>2. /\ waiters' = [waiters EXCEPT ![a] = RemoveAt(@, i)]
      /\ UNCHANGED <<life, interrupts, asides, notes, steer, turn, loop, resume, leaving, batch,
                  box, msg, replying, seen, discarded, forfeited>>
  BY DEF EndsCall, queueVars, turnVars, historyVars
<1>3. waiters' \in [Agents -> Seq(Waiter)] /\ Shrinks(waiters', waiters) /\ OneEach(waiters')
  <2>1. a \in Agents /\ i \in DOMAIN waiters[a] /\ waiters' = [waiters EXCEPT ![a] = RemoveAt(@, i)]
    BY <1>2
  <2> QED  BY ONLY <1>1, <2>1, WaiterLeaves
<1>4. WaitersInv'  BY <1>2, <1>3, ShrinkKeeps DEF IrcInv
<1>5. TurnTyped  BY <1>1, <1>2, TurnSame DEF TurnTyped
<1> QED  BY <1>2, <1>3, <1>4, <1>5, StillStep DEF Calms

-----------------------------------------------------------------------------
(* The turns                                                               *)

LEMMA QuietSteps ==
  ASSUME IrcInv, NEW a \in Agents,
         \/ Prompt(a) \/ PromptDropped(a) \/ Finishes(a) \/ BatchEnds(a) \/ Revives(a)
         \/ \E b \in Agents : Spawns(a, b)
         \/ \E m \in Msgs : ReplyEmpty(m)
  PROVE  IrcInv' /\ Calms
<1>1. IrcTypeOK  BY DEF IrcInv, TypedInv
<1> USE <1>1 DEF queueVars, turnVars, busVars, historyVars
<1>2. CASE Prompt(a)
  <2>1. TurnTyped  BY <1>2 DEF Prompt, TurnTyped, IrcTypeOK
  <2> QED  BY <1>2, <2>1, TurnOnlyStep DEF Prompt
<1>3. CASE PromptDropped(a)
  <2>1. TurnTyped  BY <1>3 DEF PromptDropped, TurnTyped, IrcTypeOK
  <2> QED  BY <1>3, <2>1, TurnOnlyStep DEF PromptDropped
<1>4. CASE Finishes(a)
  <2>1. TurnTyped  BY <1>4 DEF Finishes, TurnTyped, IrcTypeOK
  <2> QED  BY <1>4, <2>1, TurnOnlyStep DEF Finishes
<1>5. CASE BatchEnds(a)
  <2>1. TurnTyped  BY <1>5 DEF BatchEnds, TurnTyped, IrcTypeOK
  <2> QED  BY <1>5, <2>1, TurnOnlyStep DEF BatchEnds
<1>6. CASE Revives(a)
  <2>1. TurnTyped  BY <1>6 DEF Revives, TurnTyped, IrcTypeOK
  <2> QED  BY <1>6, <2>1, TurnOnlyStep DEF Revives
<1>7. CASE \E b \in Agents : Spawns(a, b)
  <2>1. TurnTyped  BY <1>7 DEF Spawns, TurnTyped, IrcTypeOK
  <2> QED  BY <1>7, <2>1, TurnOnlyStep DEF Spawns
<1>8. CASE \E m \in Msgs : ReplyEmpty(m)
  <2>1. TurnTyped  BY <1>8, TurnSame DEF ReplyEmpty, TurnTyped
  <2> QED  BY <1>8, <2>1, TurnOnlyStep DEF ReplyEmpty
<1> QED  BY <1>2, <1>3, <1>4, <1>5, <1>6, <1>7, <1>8

\* The calls of an agent are aborted with its turn.
LEMMA AbortSteps ==
  ASSUME IrcInv, NEW a \in Agents, Abort(a) \/ BeginsLeaving(a) \/ Disposed(a)
  PROVE  IrcInv' /\ Calms
<1>1. IrcTypeOK /\ waiters \in [Agents -> Seq(Waiter)] /\ OneEach(waiters)
  BY TypedFacts DEF IrcInv, TypedInv, WaitersInv
<1>2. /\ waiters' = [waiters EXCEPT ![a] = <<>>]
      /\ UNCHANGED <<interrupts, asides, notes, steer, loop, box, msg, replying, seen, discarded, forfeited>>
  BY DEF Abort, BeginsLeaving, Disposed, queueVars, historyVars
<1>3. waiters' \in [Agents -> Seq(Waiter)]  BY <1>1, <1>2, EmptyQueue
<1>4. DOMAIN waiters'[a] = {} /\ \A b \in Agents \ {a} : waiters'[b] = waiters[b]
  BY <1>1, <1>2, EmptyQueue
<1>5. Shrinks(waiters', waiters)  BY <1>4 DEF Shrinks
<1>6. OneEach(waiters')  BY <1>1, <1>4 DEF OneEach
<1>7. WaitersInv'  BY <1>2, <1>5, <1>6, ShrinkKeeps DEF IrcInv
<1>8. TurnTyped
  <2>1. CASE Abort(a)  BY <1>1, <2>1 DEF Abort, TurnTyped, IrcTypeOK
  <2>2. CASE BeginsLeaving(a)  BY <1>1, <2>2 DEF BeginsLeaving, TurnTyped, IrcTypeOK
  <2>3. CASE Disposed(a)  BY <1>1, <2>3 DEF Disposed, TurnTyped, IrcTypeOK
  <2> QED  BY <2>1, <2>2, <2>3
<1> QED  BY <1>2, <1>3, <1>5, <1>7, <1>8, StillStep DEF Calms

\* Pending messages are flushed where a prompt starts, a session is resumed and
\* it is parked.
LEMMA FlushSteps ==
  ASSUME IrcInv, NEW a \in Agents, PromptStarts(a) \/ Settles(a) \/ EndsLeaving(a) \/ Parks(a)
  PROVE  IrcInv' /\ Calms
<1>1. IrcTypeOK  BY DEF IrcInv, TypedInv
<1>2. UNCHANGED <<steer, loop, box, waiters, msg, replying, discarded, forfeited>>
  BY DEF PromptStarts, Settles, EndsLeaving, Parks, turnVars, busVars
<1>3. Flushes(a) \/ UNCHANGED <<interrupts, asides, notes, seen>>
  BY DEF PromptStarts, Settles, EndsLeaving, Parks, Resumes
<1>4. TurnTyped
  <2>0. ASSUME Resumes(a) PROVE turn' \in [Agents -> TurnPhase] /\ resume' \subseteq Agents
    <3>0. turn \in [Agents -> TurnPhase] /\ resume \subseteq Agents  BY <1>1 DEF IrcTypeOK
    <3>1. CASE steer[a] # {}
      <4>1. resume' = resume \cup {a} /\ turn' = [turn EXCEPT ![a] = "idle"]  BY <2>0, <3>1 DEF Resumes
      <4> QED  BY <3>0, <4>1
    <3>2. CASE steer[a] = {}
      <4> PICK t \in TurnPhase : turn' = [turn EXCEPT ![a] = t]
        BY <2>0, <3>2, Zenon DEF Resumes, TurnPhase
      <4> QED  BY <1>1, <2>0, <3>2 DEF Resumes, IrcTypeOK
    <3> QED  BY <3>1, <3>2
  <2>1. CASE PromptStarts(a)  BY <1>1, <2>1 DEF PromptStarts, TurnTyped, IrcTypeOK
  <2>2. CASE Settles(a)
    <3>1. CASE Resumes(a)
      <4>1. UNCHANGED <<life, leaving, batch>>  BY <2>2 DEF Settles
      <4> QED  BY <1>1, <2>0, <3>1, <4>1, TurnSame DEF TurnTyped
    <3>2. CASE ~Resumes(a)  BY <1>1, <2>2, <3>2 DEF Settles, TurnTyped, IrcTypeOK
    <3> QED  BY <3>1, <3>2
  <2>3. CASE EndsLeaving(a)
    <3>0. UNCHANGED <<life, batch>> /\ leaving' \subseteq Agents  BY <1>1, <2>3 DEF EndsLeaving, IrcTypeOK
    <3>1. CASE Resumes(a)  BY <1>1, <2>0, <3>0, <3>1, TurnSame DEF TurnTyped
    <3>2. CASE ~Resumes(a)
      <4>1. UNCHANGED <<turn, resume>>  BY <2>3, <3>2 DEF EndsLeaving
      <4> QED  BY <1>1, <3>0, <4>1, TurnSame DEF TurnTyped
    <3> QED  BY <3>1, <3>2
  <2>4. CASE Parks(a)  BY <1>1, <2>4 DEF Parks, turnVars, TurnTyped, IrcTypeOK
  <2> QED  BY <2>1, <2>2, <2>3, <2>4
<1>5. CASE Flushes(a)  BY <1>2, <1>4, <1>5, FlushStep
<1>6. CASE UNCHANGED <<interrupts, asides, notes, seen>>  BY <1>2, <1>4, <1>6, TurnOnlyStep
<1> QED  BY <1>3, <1>5, <1>6

LEMMA CommitsStep ==
  ASSUME IrcInv, NEW a \in Agents, Commits(a)
  PROVE  IrcInv' /\ Calms
<1>1. /\ IrcTypeOK /\ waiters' \in [Agents -> Seq(Waiter)] /\ QueuesOf(a)
      /\ UNCHANGED <<life, interrupts, asides, notes, steer, turn, resume, leaving, batch,
                     box, waiters, msg, replying, discarded, forfeited>>
  BY TypedFacts DEF Commits, queueVars, busVars, IrcInv, TypedInv, QueuesInv
<1>2. TurnTyped  BY <1>1, TurnSame DEF TurnTyped
<1>4. loop \in [Agents -> SUBSET Msgs] /\ seen \subseteq Msgs  BY <1>1 DEF IrcTypeOK
<1> PICK L \in SUBSET Msgs, S \in SUBSET Msgs : L = loop[a] /\ S = {m \in loop[a] : msg[m].to = a}
  BY <1>4
<1>5. loop' = [loop EXCEPT ![a] = {}] /\ seen' = seen \cup S  BY DEF Commits
<1>6. loop'[a] = {} /\ \A b \in Agents \ {a} : loop'[b] = loop[b]  BY <1>4, <1>5
<1>7. Others(a)  BY <1>1, <1>6 DEF Others
<1>8. QueuesTyped
  <2>1. loop' \in [Agents -> SUBSET Msgs] /\ seen' \subseteq Msgs  BY <1>4, <1>5
  <2> QED  BY <1>1, <2>1 DEF QueuesTyped, IrcTypeOK
<1>9. Yields(a, {}, {}, {}, {}, L)  BY <1>1 DEF Yields, QueuesOf
<1>10. Goes(a, {}, {}, {}, {}, L, S, {}, {})
  <2>1. S \subseteq {x \in Own(a) : msg[x].to = a}  BY DEF Own
  <2> QED  BY <1>1, <1>5, <1>6, <2>1 DEF Goes
<1>11. IrcTypeOK'  BY <1>1, <1>2, <1>8, StepTyped
<1> QED  BY <1>1, <1>7, <1>9, <1>10, <1>11, MoveStep

LEMMA ContinuesStep ==
  ASSUME IrcInv, NEW a \in Agents, Continues(a)
  PROVE  IrcInv' /\ Calms
<1>1. /\ IrcTypeOK /\ waiters' \in [Agents -> Seq(Waiter)] /\ QueuesOf(a)
      /\ UNCHANGED <<life, interrupts, asides, notes, loop, leaving, batch,
                     box, waiters, msg, replying, discarded, forfeited>>
  BY TypedFacts DEF Continues, busVars, IrcInv, TypedInv, QueuesInv
<1>2. TurnTyped  BY <1>1 DEF Continues, TurnTyped, IrcTypeOK
<1>4. CASE UNCHANGED <<turn, seen, steer>>  BY <1>1, <1>2, <1>4, TurnOnlyStep
<1>5. CASE seen' = seen \cup steer[a] /\ steer' = [steer EXCEPT ![a] = {}]
  <2>1. steer \in [Agents -> SUBSET Msgs] /\ seen \subseteq Msgs  BY <1>1 DEF IrcTypeOK
  <2> PICK S \in SUBSET Msgs : S = steer[a]  BY <2>1
  <2>2. steer'[a] = {} /\ \A b \in Agents \ {a} : steer'[b] = steer[b]  BY <1>5, <2>1
  <2>3. Others(a)  BY <1>1, <2>2 DEF Others
  <2>4. QueuesTyped
    <3>1. steer' \in [Agents -> SUBSET Msgs] /\ seen' \subseteq Msgs  BY <1>5, <2>1
    <3> QED  BY <1>1, <3>1 DEF QueuesTyped, IrcTypeOK
  <2>5. Yields(a, {}, {}, {}, S, {})  BY <1>1, <2>2 DEF Yields, QueuesOf
  <2>6. S \subseteq {x \in Own(a) : msg[x].to = a}  BY <1>1 DEF QueuesOf, Own
  <2>7. Goes(a, {}, {}, {}, S, {}, S, {}, {})  BY <1>1, <1>5, <2>6 DEF Goes
  <2>8. IrcTypeOK'  BY <1>1, <1>2, <2>4, StepTyped
  <2> QED  BY <1>1, <2>3, <2>5, <2>7, <2>8, MoveStep
<1> QED  BY <1>4, <1>5 DEF Continues

\* The records of an agent's own replies are no messages to it.
LEMMA NotesLeave ==
  ASSUME IrcInv, NEW a \in Agents, NEW x \in notes[a] PROVE msg[x].to # a
<1>1. x \in Msgs /\ msg[x].from = a
  BY TypedFacts DEF IrcInv, TypedInv, QueuesInv, QueuesOf
<1>2. msg[x] # NoMessage  BY <1>1 DEF NoMessage
<1> QED  BY <1>1, <1>2 DEF IrcInv, TypedInv, MessagesInv, WellSent

\* A message to an agent is in one of its places only.
LEMMA OnePlace ==
  ASSUME IrcInv, NEW a \in Agents, NEW x \in Own(a), msg[x].to = a
  PROVE  /\ ~(x \in Incoming(a) /\ x \in steer[a]) /\ ~(x \in Incoming(a) /\ x \in loop[a])
         /\ ~(x \in steer[a] /\ x \in loop[a])
<1>1. x \in Msgs  BY TypedFacts DEF Own, IrcInv, TypedInv
<1>2. Known(x)
  <2>1. msg[x] # NoMessage  BY DEF NoMessage
  <2> QED  BY <1>1, <2>1 DEF IrcInv, TypedInv, MessagesInv, WellSent, Known
<1>3. Placed(x) /\ msg[x].receipt \in {"none", "delivered", "failed"}
  BY <1>1, <1>2, TypedFacts DEF IrcInv, TypedInv, PlacedInv
<1>4. Underway(x, a) = 0 \/ Underway(x, a) + One(x \in seen) = 1  BY <1>3 DEF Placed
<1> QED  BY <1>4 DEF Underway, One, Incoming

LEMMA BoundaryStep ==
  ASSUME IrcInv, NEW a \in Agents, Boundary(a)
  PROVE  IrcInv' /\ Calms
<1>1. /\ IrcTypeOK /\ waiters' \in [Agents -> Seq(Waiter)] /\ QueuesOf(a) /\ loop[a] = {}
      /\ UNCHANGED <<life, turn, resume, leaving, batch,
                     box, waiters, msg, replying, seen, discarded, forfeited>>
      /\ steer' = [steer EXCEPT ![a] = {}]
  BY TypedFacts DEF Boundary, AtWork, busVars, historyVars, IrcInv, TypedInv, QueuesInv
<1>2. TurnTyped  BY <1>1, TurnSame DEF TurnTyped
<1>4. /\ loop \in [Agents -> SUBSET Msgs] /\ steer \in [Agents -> SUBSET Msgs]
      /\ interrupts \in [Agents -> Seq(Msgs)] /\ asides \in [Agents -> Seq(Msgs)]
      /\ notes \in [Agents -> SUBSET Msgs]
  BY <1>1 DEF IrcTypeOK
<1>5. steer'[a] = {} /\ (\A b \in Agents \ {a} : steer'[b] = steer[b]) /\ steer' \in [Agents -> SUBSET Msgs]
  BY <1>1, <1>4
<1> PICK I \in SUBSET Msgs, A \in SUBSET Msgs, S \in SUBSET Msgs, N \in SUBSET Msgs :
       /\ I = ToSet(interrupts[a]) /\ A = ToSet(asides[a])
       /\ S = steer[a] /\ N = notes[a]
  BY <1>1, TypedFacts
<1>6. CASE /\ loop' = [loop EXCEPT ![a] = steer[a] \cup Queued(a)]
           /\ interrupts' = [interrupts EXCEPT ![a] = <<>>]
           /\ asides' = [asides EXCEPT ![a] = <<>>]
           /\ notes' = [notes EXCEPT ![a] = {}]
  <2> DEFINE T == S \cup ((I \cup A) \cup N)
  <2>1. loop' = [loop EXCEPT ![a] = T]  BY <1>6 DEF Queued, Incoming
  <2>2. T \in SUBSET Msgs  OBVIOUS
  <2> HIDE DEF T
  <2>3. /\ loop'[a] = T /\ interrupts'[a] = <<>> /\ asides'[a] = <<>> /\ notes'[a] = {}
        /\ \A b \in Agents \ {a} : /\ loop'[b] = loop[b] /\ interrupts'[b] = interrupts[b]
                                   /\ asides'[b] = asides[b] /\ notes'[b] = notes[b]
    BY <1>4, <1>6, <2>1
  <2>4. Others(a)  BY <1>1, <1>5, <2>3 DEF Others
  <2>5. QueuesTyped
    <3>1. /\ loop' \in [Agents -> SUBSET Msgs] /\ notes' \in [Agents -> SUBSET Msgs]
          /\ interrupts' \in [Agents -> Seq(Msgs)] /\ asides' \in [Agents -> Seq(Msgs)]
      BY <1>4, <1>6, <2>1, <2>2, EmptyQueue
    <3> QED  BY <1>1, <1>5, <3>1 DEF QueuesTyped, IrcTypeOK
  <2>6. Yields(a, I, A, {}, S, {})  BY <1>1, <1>5, <2>3, EmptyQueue DEF Yields, QueuesOf
  <2>7. Goes(a, I, A, {}, S, {}, {}, {}, T)
    <3>1. T \subseteq Own(a) \cup notes[a]  BY DEF T, Own
    <3>2. {x \in T : msg[x].to = a} = {x \in (I \cup A) \cup S : msg[x].to = a}
      BY NotesLeave DEF T
    <3> QED  BY <1>1, <2>3, <3>1, <3>2 DEF Goes
  <2>8. IrcTypeOK'  BY <1>1, <1>2, <2>5, StepTyped
  <2> QED  BY <1>1, <2>4, <2>6, <2>7, <2>8, MoveStep
<1>7. CASE /\ loop' = [loop EXCEPT ![a] = steer[a]]
           /\ UNCHANGED <<interrupts, asides, notes>>
  <2>1. loop' = [loop EXCEPT ![a] = S]  BY <1>7
  <2>2. loop'[a] = S /\ \A b \in Agents \ {a} : loop'[b] = loop[b]  BY <1>4, <2>1
  <2>3. Others(a)  BY <1>1, <1>5, <1>7, <2>2 DEF Others
  <2>4. QueuesTyped
    <3>1. loop' \in [Agents -> SUBSET Msgs]  BY <1>4, <2>1
    <3> QED  BY <1>1, <1>5, <1>7, <3>1 DEF QueuesTyped, IrcTypeOK
  <2>5. Yields(a, {}, {}, {}, S, {})  BY <1>1, <1>5, <1>7 DEF Yields, QueuesOf
  <2>6. S \subseteq Own(a) \cup notes[a]  BY DEF Own
  <2>7. Goes(a, {}, {}, {}, S, {}, {}, {}, S)  BY <1>1, <2>2, <2>6 DEF Goes
  <2>8. IrcTypeOK'  BY <1>1, <1>2, <2>4, StepTyped
  <2> QED  BY <1>1, <2>3, <2>5, <2>7, <2>8, MoveStep
<1> QED  BY <1>6, <1>7 DEF Boundary

LEMMA BeginDisposeStep ==
  ASSUME IrcInv, NEW a \in Agents, BeginDispose(a)
  PROVE  IrcInv' /\ Calms
<1>1. /\ IrcTypeOK /\ waiters' \in [Agents -> Seq(Waiter)] /\ QueuesOf(a)
      /\ UNCHANGED <<turn, resume, leaving, batch, box, waiters, msg, replying, discarded>>
  BY TypedFacts DEF BeginDispose, busVars, IrcInv, TypedInv, QueuesInv
<1>2. TurnTyped  BY <1>1 DEF BeginDispose, TurnTyped, IrcTypeOK
<1>4. /\ loop \in [Agents -> SUBSET Msgs] /\ steer \in [Agents -> SUBSET Msgs]
      /\ interrupts \in [Agents -> Seq(Msgs)] /\ asides \in [Agents -> Seq(Msgs)]
      /\ notes \in [Agents -> SUBSET Msgs] /\ seen \subseteq Msgs /\ forfeited \subseteq Msgs
  BY <1>1 DEF IrcTypeOK
<1> PICK I \in SUBSET Msgs, A \in SUBSET Msgs, S \in SUBSET Msgs, L \in SUBSET Msgs, F \in SUBSET Msgs :
       /\ I = ToSet(interrupts[a]) /\ A = ToSet(asides[a])
       /\ S = steer[a] /\ L = loop[a] /\ F = {m \in S \cup L : msg[m].to = a}
  BY <1>1, TypedFacts
<1>5. /\ interrupts' = [interrupts EXCEPT ![a] = <<>>] /\ asides' = [asides EXCEPT ![a] = <<>>]
      /\ notes' = [notes EXCEPT ![a] = {}] /\ seen' = seen \cup (I \cup A)
      /\ steer' = [steer EXCEPT ![a] = {}] /\ loop' = [loop EXCEPT ![a] = {}]
      /\ forfeited' = forfeited \cup F
  BY DEF BeginDispose, Flushes, Incoming
<1>6. /\ loop'[a] = {} /\ steer'[a] = {} /\ interrupts'[a] = <<>> /\ asides'[a] = <<>> /\ notes'[a] = {}
      /\ \A b \in Agents \ {a} : /\ loop'[b] = loop[b] /\ steer'[b] = steer[b]
                                 /\ interrupts'[b] = interrupts[b]
                                 /\ asides'[b] = asides[b] /\ notes'[b] = notes[b]
  BY <1>4, <1>5
<1>7. Others(a)  BY <1>1, <1>6 DEF Others
<1>8. QueuesTyped
  <2>1. /\ loop' \in [Agents -> SUBSET Msgs] /\ notes' \in [Agents -> SUBSET Msgs]
        /\ steer' \in [Agents -> SUBSET Msgs]
    BY <1>4, <1>5
  <2>2. interrupts' \in [Agents -> Seq(Msgs)] /\ asides' \in [Agents -> Seq(Msgs)]
    BY <1>4, <1>5, EmptyQueue
  <2>3. seen' \subseteq Msgs /\ forfeited' \subseteq Msgs  BY <1>4, <1>5
  <2> QED  BY <1>1, <2>1, <2>2, <2>3 DEF QueuesTyped, IrcTypeOK
<1>9. Yields(a, I, A, {}, S, L)  BY <1>1, <1>6, EmptyQueue DEF Yields, QueuesOf
<1>10. \A x \in I \cup A : msg[x].to = a  BY <1>1 DEF QueuesOf
<1>11. Goes(a, I, A, {}, S, L, I \cup A, F, {})
  <2>1. (I \cup A) \cup F \subseteq {x \in Own(a) : msg[x].to = a}  BY <1>10 DEF Own
  <2>2. (I \cup A) \cap F = {}
    <3> SUFFICES ASSUME NEW x \in (I \cup A) \cap F PROVE FALSE  OBVIOUS
    <3>1. x \in Own(a) /\ msg[x].to = a  BY <2>1
    <3> QED  BY <3>1, OnePlace DEF Incoming
  <2>3. {x \in ((I \cup A) \cup F) \cup {} : msg[x].to = a} = {x \in I \cup A \cup {} \cup S \cup L : msg[x].to = a}
    OBVIOUS
  <2>4. loop'[a] = (loop[a] \ L) \cup {}  BY <1>6
  <2> QED  BY <1>5, <2>1, <2>2, <2>3, <2>4 DEF Goes
<1>12. IrcTypeOK'  BY <1>1, <1>2, <1>8, StepTyped
<1> QED  BY <1>1, <1>7, <1>9, <1>11, <1>12, MoveStep

-----------------------------------------------------------------------------
(* Every step                                                              *)

LEMMA CalmHeard == HeardInv /\ Calms => HeardInv'
<1> SUFFICES ASSUME HeardInv, Calms, NEW a \in Agents, NEW x \in Msgs, Ahead(a, x)' PROVE NoWaitFor(a, x)'
  BY DEF HeardInv
<1>1. Ahead(a, x)  BY DEF Calms, Subsides, Ahead
<1>2. NoWaitFor(a, x)  BY <1>1 DEF HeardInv
<1>3. msg' = msg /\ \A k \in DOMAIN waiters'[a] : \E i \in DOMAIN waiters[a] : waiters'[a][k] = waiters[a][i]
  BY DEF Calms, Subsides, Shrinks
<1> QED  BY <1>2, <1>3 DEF NoWaitFor, Matches

LEMMA ParksHeard ==
  ASSUME IrcInv, HeardInv, NEW a \in Agents, NEW f \in Names, WaitParks(a, f)
  PROVE  HeardInv'
<1>1. waiters \in [Agents -> Seq(Waiter)]  BY TypedFacts DEF IrcInv, TypedInv
<1> PICK new \in Waiter : new = [from |-> f, send |-> None]  BY DEF Waiter
<1>2. new.from = f  OBVIOUS
<1> PICK q \in Seq(Waiter) : q = waiters[a]  BY <1>1
<1> DEFINE t == Append(q, new)
<1>3. \A k \in DOMAIN t : \/ k \in DOMAIN q /\ t[k] = q[k]
                          \/ k = Len(q) + 1 /\ t[k] = new
  <2>1. q \in Seq(Waiter) /\ new \in Waiter  OBVIOUS
  <2> QED  BY ONLY <2>1, AppendNoDup
<1> HIDE DEF t
<1>4. waiters' = [waiters EXCEPT ![a] = t]  BY DEF WaitParks, t
<1>5. waiters'[a] = t /\ \A c \in Agents \ {a} : waiters'[c] = waiters[c]  BY <1>1, <1>4
<1>6. UNCHANGED <<interrupts, asides, box, msg>>  BY DEF WaitParks, queueVars
<1> SUFFICES ASSUME NEW c \in Agents, NEW x \in Msgs, Ahead(c, x)' PROVE NoWaitFor(c, x)'
  BY DEF HeardInv
<1>7. Ahead(c, x) /\ NoWaitFor(c, x)  BY <1>6 DEF Ahead, HeardInv
<1>8. CASE c # a  BY <1>5, <1>6, <1>7, <1>8 DEF NoWaitFor, Matches
<1>9. CASE c = a
  <2>1. x \in Incoming(a) \cup ToSet(box[a])
    BY <1>7, <1>9 DEF Ahead, Incoming, WaitParks, CanCall, Settled
  <2>2. ~Matches(f, x)  BY <2>1 DEF WaitParks, QueuedFrom, MailFrom
  <2> QED  BY <1>2, <1>3, <1>5, <1>6, <1>7, <1>9, <2>2 DEF NoWaitFor, Matches
<1> QED  BY <1>8, <1>9

LEMMA InitHeard == Init => HeardInv
BY EmptyQueue DEF Init, HeardInv, NoWaitFor

LEMMA SendingStep ==
  ASSUME IrcInv, NEW m \in Msgs, Sending(m)
  PROVE  IrcInv' /\ (HeardInv => HeardInv')
<1>1. CASE GateOpens(m) \/ GateFails(m)  BY <1>1, GateStep
<1>2. CASE Bounces(m)  BY <1>2, BounceStep
<1>3. CASE ReplyEmpty(m)
  <2>1. PICK a \in Agents : TRUE
    <3>1. m \in replying  BY <1>3 DEF ReplyEmpty, Unanswered
    <3>2. msg[m].at # "unsent"  BY <3>1 DEF IrcInv, QueuesInv, Known
    <3>3. msg[m].to \in Agents
      BY <3>2, NoMessageTyped DEF IrcInv, TypedInv, MessagesInv, WellSent
    <3> QED  BY <3>3
  <2> QED  BY <1>3, <2>1, QuietSteps, CalmHeard
<1>4. CASE \E r \in Msgs : ReplySent(m, r)  BY <1>4, ReplyStep
<1> QED  BY <1>1, <1>2, <1>3, <1>4 DEF Sending

LEMMA HubCallStep ==
  ASSUME IrcInv, NEW a \in Agents, HubCall(a)
  PROVE  IrcInv' /\ (HeardInv => HeardInv')
<1>1. CASE \E m \in Msgs, b \in Agents, asks \in BOOLEAN : Send(m, a, b, asks)
  BY <1>1, SendStep
<1>2. CASE \E f \in (Agents \ {a}) \cup {None} : WaitQueued(a, f) \/ WaitMailed(a, f)
  BY <1>2, WaitQueuedStep, WaitMailedStep, CalmHeard
<1>3. CASE \E f \in (Agents \ {a}) \cup {None} : WaitParks(a, f)
  BY <1>3, WaitParksStep, ParksHeard
<1>4. CASE \E i \in DOMAIN waiters[a] : WaitDeserted(a, i) \/ WaitInterrupted(a, i) \/ TimesOut(a, i)
  BY <1>4, EndsCallStep, CalmHeard DEF WaitDeserted, WaitInterrupted, TimesOut
<1>5. CASE \E peek \in BOOLEAN : Inbox(a, peek)
  BY <1>5, InboxStep, CalmHeard
<1> QED  BY <1>1, <1>2, <1>3, <1>4, <1>5 DEF HubCall

LEMMA TurnStepStep ==
  ASSUME IrcInv, NEW a \in Agents, TurnStep(a) \/ Revives(a) \/ Parks(a) \/ BeginDispose(a) \/ Disposed(a)
  PROVE  IrcInv' /\ (HeardInv => HeardInv')
BY QuietSteps, AbortSteps, FlushSteps, CommitsStep, ContinuesStep, BoundaryStep, BeginDisposeStep, CalmHeard
DEF TurnStep

LEMMA StutterStep ==
  ASSUME IrcInv, UNCHANGED vars
  PROVE  IrcInv' /\ (HeardInv => HeardInv')
<1>1. IrcTypeOK  BY DEF IrcInv, TypedInv
<1>2. TurnTyped  BY <1>1, TurnSame DEF TurnTyped, vars, turnVars
<1> QED  BY <1>2, TurnOnlyStep, CalmHeard DEF vars, queueVars, turnVars, busVars, historyVars

LEMMA IrcStep == IrcInv /\ [Next]_vars => IrcInv' /\ (HeardInv => HeardInv')
BY SendingStep, HubCallStep, TurnStepStep, StutterStep DEF Next

-----------------------------------------------------------------------------
(* Counting places                                                         *)

LEMMA CountOnce ==
  ASSUME NEW q \in Seq(Msgs), NoDup(q), NEW m
  PROVE  Count(q, m) = One(m \in ToSet(q))
<1> DEFINE I == {i \in DOMAIN q : q[i] = m}
<1>1. CASE m \in ToSet(q)
  <2>1. PICK k \in DOMAIN q : q[k] = m  BY <1>1 DEF ToSet
  <2>2. I = {k}  BY <2>1 DEF NoDup
  <2>3. Cardinality({k}) = 1  BY FS_Singleton
  <2> QED  BY <1>1, <2>2, <2>3 DEF Count, One
<1>2. CASE m \notin ToSet(q)
  <2>1. I = {}  BY <1>2 DEF ToSet
  <2> QED  BY <1>2, <2>1, FS_EmptySet DEF Count, One
<1> QED  BY <1>1, <1>2

LEMMA HeldOnce ==
  ASSUME QueuesInv, NEW m \in Msgs
  PROVE  Cardinality({s \in Msgs : msg[s].got = m}) = One(Held(m))
<1> DEFINE H == {s \in Msgs : msg[s].got = m}
<1>1. CASE Held(m)
  <2>1. PICK k \in Msgs : msg[k].got = m  BY <1>1 DEF Held
  <2>2. H = {k}  BY <2>1, IrcAssumption DEF QueuesInv
  <2>3. Cardinality({k}) = 1  BY FS_Singleton
  <2> QED  BY <1>1, <2>2, <2>3 DEF One
<1>2. CASE ~Held(m)
  <2>1. H = {}  BY <1>2 DEF Held
  <2> QED  BY <1>2, <2>1, FS_EmptySet DEF One
<1> QED  BY <1>1, <1>2

LEMMA EachPlaced == IrcInv => EachMessageOnce
<1> SUFFICES ASSUME IrcInv, NEW m \in Msgs, msg[m].at # "unsent", NEW b, b = msg[m].to
             PROVE  LET live == OnTheWay(m, b) + One(m \in discarded) + One(m \in forfeited)
                    IN CASE msg[m].receipt = "delivered" -> Count(box[b], m) = 0 /\ live + One(m \in seen) = 1
                         [] msg[m].receipt = "failed"    -> live = 0 /\ Count(box[b], m) + One(m \in seen) <= 1
                         [] OTHER -> live + Count(box[b], m) + One(m \in seen) = 0
  BY DEF EachMessageOnce
<1>1. Placed(m) /\ QueuesInv /\ IrcTypeOK  BY DEF IrcInv, PlacedInv, Known, TypedInv
<1>2. b \in Agents /\ msg[m].receipt \in {"none", "delivered", "failed"}
  <2>1. msg[m] # NoMessage  BY NoMessageTyped
  <2> QED  BY <2>1, TypedFacts DEF IrcInv, TypedInv, MessagesInv, WellSent
<1>3. /\ Count(interrupts[b], m) = One(m \in ToSet(interrupts[b]))
      /\ Count(asides[b], m) = One(m \in ToSet(asides[b]))
      /\ Count(box[b], m) = One(m \in ToSet(box[b]))
  BY <1>1, <1>2, TypedFacts, CountOnce DEF QueuesInv, QueuesOf
<1>4. Cardinality({s \in Msgs : msg[s].got = m}) = One(Held(m))  BY <1>1, HeldOnce
<1>5. OnTheWay(m, b) + One(m \in discarded) + One(m \in forfeited) = Underway(m, b)
  BY <1>3, <1>4 DEF OnTheWay, Underway, One
<1>6. /\ msg[m].receipt = "delivered" => m \notin ToSet(box[b]) /\ Underway(m, b) + One(m \in seen) = 1
      /\ msg[m].receipt = "failed" => Underway(m, b) = 0 /\ (m \in ToSet(box[b]) => m \notin seen)
      /\ msg[m].receipt = "none" => Underway(m, b) = 0 /\ m \notin ToSet(box[b]) /\ m \notin seen
  BY <1>1 DEF Placed
<1> QED  BY <1>2, <1>3, <1>5, <1>6 DEF One

LEMMA HeardSees == IrcInv /\ HeardInv => WaitSeesMail
<1> SUFFICES ASSUME IrcInv, HeardInv, NEW a \in Agents, NEW i \in DOMAIN waiters[a], waiters[a][i].send = None
             PROVE  /\ QueuedFrom(a, waiters[a][i].from) = {}
                    /\ MailFrom(a, waiters[a][i].from) = {}
  BY DEF WaitSeesMail
<1>1. Incoming(a) \subseteq Msgs /\ ToSet(box[a]) \subseteq Msgs
  BY TypedFacts DEF Incoming, IrcInv, TypedInv
<1>2. \A x \in Incoming(a) \cup ToSet(box[a]) : ~Matches(waiters[a][i].from, x)
  BY <1>1 DEF Incoming, HeardInv, Ahead, NoWaitFor
<1> QED  BY <1>2 DEF QueuedFrom, MailFrom

-----------------------------------------------------------------------------
(* What every reachable state satisfies                                    *)

\* The queues, the waiters and the message table keep their types; a mailbox
\* keeps to its cap.
THEOREM IrcTyped == Spec => []IrcTypeOK
<1>1. Init => IrcInv  BY InitPlaced
<1>2. IrcInv /\ [Next]_vars => IrcInv'  BY IrcStep
<1>3. IrcInv => IrcTypeOK  BY DEF IrcInv, TypedInv
<1> QED  BY <1>1, <1>2, <1>3, PTL DEF Spec

\* A delivered message is in one place, on its way or shown, and never buffered
\* as well; a failed one is nowhere but in the mailbox.
THEOREM MessagesAreOnce == Spec => []EachMessageOnce
<1>1. Init => IrcInv  BY InitPlaced
<1>2. IrcInv /\ [Next]_vars => IrcInv'  BY IrcStep
<1>3. IrcInv => EachMessageOnce  BY EachPlaced
<1> QED  BY <1>1, <1>2, <1>3, PTL DEF Spec

\* No wait is parked beside a message that would have ended it.
THEOREM WaitsSeeMail == Spec => []WaitSeesMail
<1>1. Init => IrcInv /\ HeardInv  BY InitPlaced, InitHeard
<1>2. (IrcInv /\ HeardInv) /\ [Next]_vars => (IrcInv /\ HeardInv)'  BY IrcStep
<1>3. IrcInv /\ HeardInv => WaitSeesMail  BY HeardSees
<1> QED  BY <1>1, <1>2, <1>3, PTL DEF Spec

=============================================================================
