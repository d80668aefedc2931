\* Envelopes of two deliveries of one notification are taken for duplicates.
SPECIFICATION Spec
CONSTANTS
    Names <- MCNames
    Validates <- MCValidates
    OtherCategories = {"discord"}
    DataKeys = {"sound", "urgency"}
    DataValues = {"a", "b", "low", "high"}
    PersonEntities = {"ann", "bob"}
    DevicesOf <- MCDevicesOf
    Recipients <- MCRecipients
    DiscoverPeople = TRUE
    DiscoverMobiles = TRUE
    Personal <- MCPersonal
    Deliveries = {"push1", "push2", "mail"}
    Given <- MCGiven
    TransportGiven <- MCTransportGiven
    ClassDefaults <- MCClassDefaults
    Digitless <- MCDigitless
    Matches <- MCMatches
    Calls <- MCCalls
    SnoozedSets <- MCSnoozedSets
    NoRule = NoRule
INVARIANT NoDupesWithinACall
CHECK_DEADLOCK FALSE
