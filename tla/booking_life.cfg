\* One booking through its whole life, two concurrent transactions and
\* three payment events. A booking at rest in a final status with all payment
\* events published has nothing left to do.
SPECIFICATION Spec
CONSTANTS
    Bookings = {b1}
    Vehicles = {v1}
    h1 = h1
    Hosts = {h1, h2}
    HostOf <- MCHostOf
    Days = {1, 2}
    Prices = {3}
    MileageLimits = {1}
    Odometers = {0, 2, 3}
    Workers = {w1, w2}
    EventIds = {e1, e2, e3}
    MaxVersion = 9
    MaxInteger = 60
    NULL = NULL
SYMMETRY Symmetry
INVARIANTS
    TypeOK
    RowProjectsLog
    MessagesTellLog
PROPERTIES
    TerminalStays
    ImplementsLifecycle
CHECK_DEADLOCK FALSE
