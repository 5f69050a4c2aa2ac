\* The clean-up of an isolated run outlasts its deadline.
SPECIFICATION Spec
CONSTANTS
    None = None
    Anyone = Anyone
    Refs = {r1, r2}
    Sessions = {s1, s2}
    Adoptions = {a1, a2, a3}
    Parks = {p1}
    Callers = {c1}
    Releasers = {k1}
    Overrun = TRUE
SYMMETRY Interchangeable
INVARIANTS
    SingleWriter
CHECK_DEADLOCK FALSE
