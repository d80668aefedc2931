\* Three deliveries of up to two envelopes, one of them a fallback of both kinds and
\* another one of errors when it is not selected.
SPECIFICATION Spec
CONSTANTS
    Deliveries <- MCDeliveries
    Transports <- MCTransports
    TransportOf <- MCTransportOf
    SnapshotTransports = {"Push"}
    FallbackDefault = {"email"}
    FallbackOnError = {"email", "chime"}
    Switchable = {"push", "Text"}
    MaxEnvelopes = 2
    MaxErrors = 1
    FaultyTemplates = TRUE
    NoDelivery = NoDelivery
INVARIANTS
    TypeOK
    FallbackAfterSilence
    
    Accounting
    QuietAtEnd
    DeferredAfterImage
PROPERTIES
    CalledAgainOnlyOnError
    EndsUnlessTransportHangs
    KeepsContract
