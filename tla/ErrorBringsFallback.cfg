\* A template that fails to evaluate, and one fallback on error.
SPECIFICATION Spec
CONSTANTS
    Deliveries <- MCDeliveries
    Transports <- MCTransports
    TransportOf <- MCTransportOf
    SnapshotTransports = {"Push"}
    FallbackDefault = {}
    FallbackOnError = {"email"}
    Switchable = {}
    MaxEnvelopes = 1
    MaxErrors = 1
    FaultyTemplates = TRUE
    NoDelivery = NoDelivery
INVARIANT
    ErrorBringsFallback
