\* Two generations of the id: a stale park, revival, release or finalizer of
\* the first one runs while the second one holds the id.
SPECIFICATION Spec
CONSTANTS
    None = None
    Anyone = Anyone
    Refs = {r1, r2}
    Sessions = {s1, s2}
    Adoptions = {a1, a2, a3}
    Parks = {p1}
    Callers = {c1}
    Releasers = {k1}
    Overrun = FALSE
SYMMETRY Interchangeable
INVARIANTS
    
    LifecycleTypeOK
    SingleWriter
    NoLeakedSession
    DetachedExactlyWhenParked
PROPERTIES
    AbortedIsTerminal
    RetiredNeverReturns
    
    ImplementsSlot
CHECK_DEADLOCK FALSE
