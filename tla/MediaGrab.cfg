\* Two notifications that turn a camera two ways, while services fail and time out.
SPECIFICATION Spec
CONSTANTS
    Notifications <- MCNotifications
    Grabs <- MCGrabs
    NotificationOf <- MCNotificationOf
    PrefetchOf <- MCPrefetchOf
    Cameras <- MCCameras
    Feeds = {"feed", "sketch"}
    ImageEntities = {"sketch"}
    Requests <- MCRequests
    Configured <- MCCameras
    AlternativesOf <- MCAlternativesOf
    Presets <- MCPresets
    Home <- MCHome
    PresetOf <- MCPresetOf
    Faults = TRUE
    NoCamera = NoCamera
    NoPreset = NoPreset
    NoFile = NoFile
INVARIANTS
    TypeOK
    AwayIsAccountedFor
    PrefetchedIsShared
