\* What README.md says of a request that lands twice.
SPECIFICATION Spec
CONSTANTS
    Callers = {c1, c2}
    Keys = {k1}
    Endpoints = {p1, p2}
    Bodies = {d1, d2}
    Handlers = {h1, h2}
    OlderThan = 1
    MaxClock = 4
    MaxEffects = 3
    NULL = NULL
SYMMETRY Symmetry
INVARIANTS
    OneEffect
CHECK_DEADLOCK FALSE
