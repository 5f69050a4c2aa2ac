\* Liveness: no symmetry.
SPECIFICATION FairSpec
CONSTANTS
    None = None
    Anyone = Anyone
    Refs = {r1}
    Sessions = {s1}
    Adoptions = {a1, a2}
    Parks = {p1}
    Callers = {c1, c2}
    Releasers = {k1}
    Overrun = FALSE
INVARIANTS
    OneRevivalPerRef
    IdleIsTimed
PROPERTIES
    EnsureLiveReturns
CHECK_DEADLOCK FALSE
