\* One vehicle and two hosts, two transactions at a time on it, four events,
\* two blocks in a calendar of two days. Events and blocks are bounded and a
\* vehicle is never deleted, so the system stops.
SPECIFICATION ListingSpec
CONSTANTS
    Vehicles = {v1}
    Hosts = {h1, h2}
    Prices = {p1, p2}
    Modes = {m1, m2}
    Days = {1, 2}
    Workers = {w1, w2}
    MaxEvents = 4
    MaxBlocks = 2
    NULL = NULL
SYMMETRY Symmetry
INVARIANTS
    ListingTypeOK
    LastEventTellsRow
PROPERTIES
    DecisionSurvivesEdits
CHECK_DEADLOCK FALSE
