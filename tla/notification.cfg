\* Two replicas, three events of which the first is one nobody is told about,
\* one replay by the connector, one restart and one rebalance. Events are
\* bounded, and a group without tasks stops.
SPECIFICATION Spec
CONSTANTS
    Members = {m1, m2}
    Notifiable = {2, 3}
    preferences <- MCPreferences
    MaxEvents = 3
    MaxReplays = 1
    MaxRestarts = 1
    MaxRebalances = 1
    NULL = NULL
INVARIANTS
    NotifiedAsHandled
PROPERTIES
    ImplementsDelivery
    EventIsHandled
CHECK_DEADLOCK FALSE
