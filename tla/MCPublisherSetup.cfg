SPECIFICATION Spec
CONSTANTS
    Ids <- MCIds
    Channels <- MCChannels
    Names <- MCNames
INVARIANTS
    EveryIdIsHeard
    EveryDeviceServed
    CyclesAreConvertible
CHECK_DEADLOCK FALSE
