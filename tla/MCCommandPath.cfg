SPECIFICATION Spec
CONSTANTS
    Target = {1, 2, 3}
    Command <- mc_commands
    device_types <- mc_device_types
    zenoh_topics <- mc_topics
    history_depth = 2
    TxCapacity = 2
    MaxCommands = 3
INVARIANTS
    TypeOK
    SetpointsAdvance
    NewestIsKept
    NoGaps
PROPERTIES
    NewestIsHandled
