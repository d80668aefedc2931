\* Global, delivery and device snoozes of two people and of everyone, three minutes.
SPECIFICATION SnoozerSpec
CONSTANTS
    People <- MCPeople
    Devices <- MCDevices
    OwnersOf <- MCOwnersOf
    Deliveries <- MCDeliveries
    Transports <- MCTransports
    TransportOf <- MCTransportOf
    Priorities <- MCPriorities
    Cameras = {}
    Parts <- MCParts
    FirstPart <- MCFirstPart
    SnoozePeriod = 2
    OneDay = 3
    Minutes = {1}
    SnoozableTypes = {"EVERYTHING", "NONCRITICAL", "DELIVERY", "MOBILE"}
    MaxSnoozes = 2
    MaxTime = 3
    Everyone = Everyone
    NoTarget = NoTarget
    Forever = Forever
INVARIANT
    SnoozesTyped
PROPERTIES
    PurgeUnnoticed
    CommandsKeepToReach
