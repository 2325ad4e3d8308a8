\* One vehicle, two keys, two requests at a time and three in all, so that a
\* pair can race and a third follow. Requests are bounded, so the system stops.
SPECIFICATION AdminSpec
CONSTANTS
    Vehicles = {v1}
    Keys = {k1, k2}
    Handlers = {h1, h2}
    MaxRequests = 3
    NULL = NULL
SYMMETRY Symmetry
INVARIANTS
    TrailIsTrue
    AnsweredIsDone
    TrailTellsSwitch
CHECK_DEADLOCK FALSE
