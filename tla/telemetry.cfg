\* One vehicle that reports a valid and an invalid speed, two replicas, two
\* records and batches of up to two, two faults. The topic is bounded, but the
\* switch can always be set.
SPECIFICATION Spec
CONSTANTS
    Vehicles = {v1}
    Connections = {c1}
    Speeds = {1, 2}
    MaxSpeed = 1
    Members = {m1, m2}
    BatchSize = 2
    MaxPackets = 2
    MaxFaults = 2
    NULL = NULL
INVARIANTS
    StoredAsDelivered
    CaughtUpShowsLast
PROPERTIES
    EnforcedWhileOn
    PublishedIsStored
