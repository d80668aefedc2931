\* Two tasks with any two of the envelopes, their calls in any order and with any outcome.
SPECIFICATION Spec
CONSTANTS
    Names <- MCNames
    DeviceIds = {"echo", "hub"}
    Domain <- MCDomain
    Members <- MCMembers
    Numeric = {"+1", "+2", "chat"}
    Known = {"iphone", "pixel"}
    Deliveries <- MCDeliveries
    Conf <- MCConf
    Filtered <- MCFiltered
    Entries <- MCEntries
    NoEntry = NoEntry
    Tasks = {t1, t2}
    Envelopes <- MCEnvelopes
    NoEnvelope = NoEnvelope
    Responding <- MCResponding
    Apple = {"iphone"}
    OwnersOf <- MCOwnersOf
    Keys = {"media", "enqueue", "announce", "message", "ttl", "push"}
SYMMETRY Symmetry
INVARIANTS
    TypeOK
    OutcomeTellsTheTruth
    OneFailureStopsNoOther
    SnoozedExactlyFailed
    ForeignDataAccountedFor
\* Each task delivers one envelope and is done.
CHECK_DEADLOCK FALSE
