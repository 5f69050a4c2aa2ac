------------------------ MODULE AgentRegistry_proofs ------------------------
(* Proofs about the registry, for every set of refs and sessions. *)
EXTENDS AgentRegistry, TLAPS

(***************************************************************************)
(* The three ways a registry operation can leave the registry: a new ref   *)
(* under the id, one field of the current ref changed, or the id freed.    *)
(***************************************************************************)
Creates(r) ==
    /\ ~Born(r)
    /\ \E status \in AgentStatus, session \in Sessions \cup {None} :
          reg' = Registered(reg, r, status, session)

Updates ==
    /\ reg.current # None
    /\ \/ \E status \in AgentStatus :
             /\ reg.status[reg.current] = "aborted" => status = "aborted"
             /\ reg' = [reg EXCEPT !.status[reg.current] = status]
       \/ \E session \in Sessions :
             /\ reg.status[reg.current] # "aborted"
             /\ reg' = [reg EXCEPT !.session[reg.current] = session]
       \/ reg' = [reg EXCEPT !.session[reg.current] = None]

Frees == reg' = [reg EXCEPT !.current = None]

\* Every step of the registry is one of the three, or changes nothing.
LEMMA RegistryStep ==
    ASSUME RegistryNext
    PROVE  \/ \E r \in Refs : Creates(r)
           \/ Updates
           \/ Frees
           \/ UNCHANGED reg
<1>1. ASSUME NEW r \in Refs, Register(r) \/ RegisterIfAvailable(r)
      PROVE  Creates(r)
  BY <1>1 DEF Register, RegisterIfAvailable, Creates
<1>2. CASE SetStatus
  BY <1>2 DEF SetStatus, WithStatus, AcceptsStatus, Holds, Updates
<1>3. CASE AttachSession
  BY <1>3 DEF AttachSession, WithSession, AcceptsSession, Holds, Updates
<1>4. CASE DetachSession
  BY <1>4 DEF DetachSession, Detached, Holds, Updates
<1>5. CASE Unregister
  BY <1>5 DEF Unregister, Unregistered, Frees
<1>6. QED
  BY <1>1, <1>2, <1>3, <1>4, <1>5 DEF RegistryNext

\* The registry holds well-formed refs, whatever the callers do.
THEOREM RegistryTyped == RegistrySpec => []RegistryTypeOK
<1>1. RegistryInit => RegistryTypeOK
  BY DEF RegistryInit, RegistryTypeOK, EmptyRegistry, Registry, Born
<1>2. RegistryTypeOK /\ [RegistryNext]_reg => RegistryTypeOK'
  <2> SUFFICES ASSUME RegistryTypeOK, [RegistryNext]_reg
               PROVE  RegistryTypeOK'
    OBVIOUS
  <2> USE RegistryAssumption DEF RegistryTypeOK, Registry, Born, AgentStatus
  <2>1. ASSUME NEW r \in Refs, Creates(r) PROVE RegistryTypeOK'
    BY <2>1 DEF Creates, Registered
  <2>2. CASE Updates
    BY <2>2 DEF Updates
  <2>3. CASE Frees
    BY <2>3 DEF Frees
  <2>4. CASE UNCHANGED reg
    BY <2>4
  <2>5. QED
    BY <2>1, <2>2, <2>3, <2>4, RegistryStep
<1>3. QED
  BY <1>1, <1>2, PTL DEF RegistrySpec

\* A killed generation stays down, for any number of generations and callers.
THEOREM AbortedTerminal == RegistrySpec => AbortedIsTerminal
<1>1. RegistryTypeOK /\ [RegistryNext]_reg
        => [\A r \in Refs : AbortedStaysDown(r)]_reg
  <2> SUFFICES ASSUME RegistryTypeOK, RegistryNext, NEW r \in Refs
               PROVE  AbortedStaysDown(r) \/ UNCHANGED reg
    OBVIOUS
  <2> USE RegistryAssumption
      DEF RegistryTypeOK, Registry, Born, AgentStatus, AbortedStaysDown
  <2>1. ASSUME NEW q \in Refs, Creates(q) PROVE AbortedStaysDown(r)
    BY <2>1 DEF Creates, Registered
  <2>2. CASE Updates
    BY <2>2 DEF Updates
  <2>3. CASE Frees
    BY <2>3 DEF Frees
  <2>4. QED
    BY <2>1, <2>2, <2>3, RegistryStep
<1>2. QED
  BY <1>1, RegistryTyped, PTL DEF RegistrySpec, AbortedIsTerminal

\* A generation that lost the id is out of reach of every operation.
THEOREM RetiredStaysRetired == RegistrySpec => RetiredNeverReturns
<1>1. RegistryTypeOK /\ [RegistryNext]_reg
        => [\A r \in Refs : RetiredIsFrozen(r)]_reg
  <2> SUFFICES ASSUME RegistryTypeOK, RegistryNext, NEW r \in Refs
               PROVE  RetiredIsFrozen(r) \/ UNCHANGED reg
    OBVIOUS
  <2> USE RegistryAssumption
      DEF RegistryTypeOK, Registry, Born, AgentStatus, RetiredIsFrozen
  <2>1. ASSUME NEW q \in Refs, Creates(q) PROVE RetiredIsFrozen(r)
    BY <2>1 DEF Creates, Registered
  <2>2. CASE Updates
    BY <2>2 DEF Updates
  <2>3. CASE Frees
    BY <2>3 DEF Frees
  <2>4. QED
    BY <2>1, <2>2, <2>3, RegistryStep
<1>2. QED
  BY <1>1, RegistryTyped, PTL DEF RegistrySpec, RetiredNeverReturns
=============================================================================
