\* Two callers and one key between them, two bodies, three requests at a
\* time: a key can expire while two that looked it up before are still open.
\* Three effects let a key be used, expire and be used again while a third
\* request races. Requests and the clock are bounded, so the system stops.
SPECIFICATION Spec
CONSTANTS
    Callers = {c1, c2}
    Keys = {k1}
    Endpoints = {p1}
    Bodies = {d1, d2}
    Handlers = {h1, h2, h3}
    OlderThan = 1
    MaxClock = 2
    MaxEffects = 3
    NULL = NULL
SYMMETRY Symmetry
INVARIANTS
    ReplayIsOwn
    AnswersAgree
    RepeatedOnlyIfRacedOrExpired
CHECK_DEADLOCK FALSE
