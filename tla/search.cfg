\* One vehicle at one price, two transactions at a time in listing (an edit
\* that overlaps the approval takes the vehicle out of the index again), two
\* events, two members of the consumer group; any number of errors, and any two
\* of rebalance, restart, replay by the connector, expired claim and backfill.
\* Without symmetry, for liveness. Everything is bounded, so the system stops.
SPECIFICATION Spec
CONSTANTS
    Vehicles = {v1}
    Hosts = {h1}
    Prices = {p1}
    Modes = {instant}
    Days = {}
    Workers = {w1, w2}
    MaxEvents = 2
    MaxBlocks = 0
    Members = {m1, m2}
    MaxIncidents = 2
    NULL = NULL
INVARIANTS
    UndecidedIsHidden
    CaughtUpShowsLastEvent
PROPERTIES
    NeverShowsOlder
    EventReachesIndex
CHECK_DEADLOCK FALSE
