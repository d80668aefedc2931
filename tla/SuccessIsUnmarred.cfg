\* No fallbacks and nothing to switch: selected deliveries of up to two envelopes.
SPECIFICATION Spec
CONSTANTS
    Deliveries <- MCDeliveries
    Transports <- MCTransports
    TransportOf <- MCTransportOf
    SnapshotTransports = {"Push"}
    FallbackDefault = {}
    FallbackOnError = {}
    Switchable = {}
    MaxEnvelopes = 2
    MaxErrors = 1
    FaultyTemplates = FALSE
    NoDelivery = NoDelivery
INVARIANT
    SuccessIsUnmarred
