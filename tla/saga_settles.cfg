\* Two bookings that compete for the days of one vehicle, in one partition, so
\* that a record of one can hold back the other; a request and a consumer task
\* at a time, so that one may write a booking the other has read; tasks that end
\* and may never come back. The higher price does not fit the amount column. One
\* acceptance or return of each booking: an instant booking goes as far as the
\* capture, one on request as far as the handover. Settled or poisoned bookings
\* have nothing left to do.
SPECIFICATION Spec
CONSTANTS
    Bookings = {b1, b2}
    Vehicles = {v1}
    h1 = h1
    Hosts = {h1}
    HostOf <- MCHostOf
    Days = {1, 2}
    Prices = {2, 70}
    MileageLimits = {1}
    Odometers = {0, 2}
    Workers = {w1, t1}
    EventIds = {1, 2}
    MaxVersion = 9
    NULL = NULL
    Partitions = {p1}
    PartitionOf <- MCPartitionOf
    Amounts = {2, 70}
    Overages = {50, 0}
    Consumers = {c1}
    MaxInteger = 60
    MaxCommands = 10
    Tasks = {t1}
    MaxRepeats = 1
INVARIANTS
    NoDoubleBooking
PROPERTIES
    RequestSettles
    ReturnSettles
CHECK_DEADLOCK FALSE
