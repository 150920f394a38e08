SPECIFICATION Spec
CONSTANTS
    CHANNELS_ARRAY <- MCChannels
    MaxEcatIds = 2
    Sources <- MCSources
    Types <- MCTypes
    Unspecified = "Unspecified"
    subscriptions <- MCSubscriptions
    SharedChannels <- MCShared
    Capacity = 2
    MaxPush <- MCMaxPush
INVARIANTS
    TypeOK
    ActiveIdsExact
    LatestWins
    SameCycleAgreement
    CompleteSnapshot
PROPERTIES
    NeverRepublished
    StableOrder
