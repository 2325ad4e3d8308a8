\* One booking, four records (so that an authorization, a capture, a repeated
\* command and a domain event fit), two consumers, an amount and an overage
\* that do not fit their columns. A topic read to its end has nothing left to do.
SPECIFICATION Spec
CONSTANTS
    Bookings = {b1}
    Partitions = {p1}
    PartitionOf <- MCPartitionOf
    Amounts = {2, 4}
    Overages = {0, 1, 5}
    Consumers = {c1, c2}
    MaxInteger = 3
    MaxCommands = 4
    NULL = NULL
SYMMETRY Symmetry
INVARIANTS
    ChargedAtMostOnce
    LedgerIsBacked
    CapturedIsBookedOrFlagged
    OneAnswerPerPhase
CHECK_DEADLOCK FALSE
