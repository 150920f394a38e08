SPECIFICATION Spec
CONSTANTS
    CHANNELS_ARRAY <- MCChannels
    MaxEcatIds = 2
    Sources <- MCSources
    Types <- MCTypes
    Unspecified = "Unspecified"
    subscriptions <- MCSubscriptions
    SharedChannels = {}
    Capacity = 2
    MaxPush <- MCMaxPush
INVARIANT
    AggregatesConfiguredJoints
