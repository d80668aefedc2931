\* The deliveries of one notification, in any order, while snoozes change and people move.
SPECIFICATION Spec
CONSTANTS
    Names <- MCNames
    Validates <- MCValidates
    OtherCategories = {"discord"}
    DataKeys = {"sound", "urgency"}
    DataValues = {"a", "b", "low", "high"}
    PersonEntities = {"ann", "bob"}
    DevicesOf <- MCDevicesOf
    Recipients <- MCRecipients
    DiscoverPeople = TRUE
    DiscoverMobiles = TRUE
    Personal <- MCPersonal
    Deliveries = {"push1", "push2", "mail"}
    Given <- MCGiven
    TransportGiven <- MCTransportGiven
    ClassDefaults <- MCClassDefaults
    Digitless <- MCDigitless
    Matches <- MCMatches
    Calls <- MCCalls
    SnoozedSets <- MCSnoozedSets
    NoRule = NoRule
INVARIANTS
    TypeOK
    OnePlaceEach
    OnlyChosenAddresses
    OwnDataStaysOwn
PROPERTIES
    UniqueTargetsKeptApart
    NobodyLeftOut
\* Once every delivery has been called, nothing more happens to the notification.
CHECK_DEADLOCK FALSE
