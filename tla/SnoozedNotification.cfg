\* Snoozes of everything, of deliveries and of devices, against defaults that add people.
SPECIFICATION Spec
CONSTANTS
    People <- MCPeople
    Devices <- MCDevices
    OwnersOf <- MCOwnersOf
    Deliveries <- MCDeliveries
    Transports <- MCTransports
    TransportOf <- MCTransportOf
    Priorities <- MCPriorities
    Cameras = {}
    Parts <- MCParts
    FirstPart <- MCFirstPart
    SnoozePeriod = 1
    OneDay = 2
    Minutes = {}
    SnoozableTypes = {"EVERYTHING", "DELIVERY", "MOBILE"}
    MaxSnoozes = 2
    MaxTime = 1
    Everyone = Everyone
    NoTarget = NoTarget
    Forever = Forever
    Addresses <- MCAddresses
    AddressesOf <- MCAddressesOf
    Accepts <- MCAccepts
    DefaultTarget <- MCDefaultTarget
    TargetUsage <- MCTargetUsage
    PushDeliveries = {"push"}
    Calls <- MCCalls
    NoCall = NoCall
INVARIANT
    TypeOK
PROPERTIES
    OnlyUnsnoozedReached
    SnoozesKept
