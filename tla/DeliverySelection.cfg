\* A notification, while a delivery and a scenario are switched and people move.
SPECIFICATION Spec
CONSTANTS
    Transports <- MCTransports
    Deliveries <- MCDeliveries
    Scenarios <- MCScenarios
    People <- MCPeople
    TransportOf <- MCTransportOf
    Conf <- MCConf
    AutoOf <- MCAutoOf
    Entries <- MCEntries
    Matches <- MCMatches
    GroupsKnown <- MCScenarios
    Raises <- MCRaises
    Condition <- MCCondition
    ScenarioOrder <- MCScenarioOrder
    MediaOf <- MCMediaOf
    PersonalOf <- MCPersonalOf
    Switchable <- MCSwitchable
    TransportsOn <- MCTransportsOn
    PeopleOn <- MCPeople
    Used = {"mail", "night", "ann"}
    Movers = {"ann"}
    Calls <- MCCalls
    MaxPending = 2
    MaxNotifications = 1
    NoDelivery = NoDelivery
    NoMedia = NoMedia
INVARIANTS
    TypeOK
    SelectionHasNoMemory
    EntitiesTell
    EnquiriesForetell
PROPERTY
    ShownOffTakesNoPart
