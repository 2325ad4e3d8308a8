\* One booking through the whole saga: two requests and one consumer task at
\* work at a time in booking, one consumer in payment (a partition has one),
\* tasks that end and come back, up to two acceptances and returns. A saga that
\* has ended has nothing left to do.
SPECIFICATION Spec
CONSTANTS
    Bookings = {b1}
    Vehicles = {v1}
    h1 = h1
    Hosts = {h1}
    HostOf <- MCHostOf
    Days = {1, 2}
    Prices = {2}
    MileageLimits = {1}
    Odometers = {0, 2}
    Workers = {w1, w2, t1}
    EventIds = {1, 2}
    MaxVersion = 12
    NULL = NULL
    Partitions = {p1}
    PartitionOf <- MCPartitionOf
    Amounts = {2}
    Overages = {50, 0}
    Consumers = {c1}
    MaxInteger = 60
    MaxCommands = 10
    Tasks = {t1}
    MaxRepeats = 2
INVARIANTS
    StatusIsBacked
    ChargedOnlyIfRented
    DroppedWasAnswered
PROPERTIES
    ServicesRunInSaga
CHECK_DEADLOCK FALSE
