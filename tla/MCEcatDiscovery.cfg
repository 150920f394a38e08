SPECIFICATION Spec
CONSTANTS
    Slave <- mc_slaves
    cycle <- mc_cycle
    channels <- mc_channels
    ecat_ids = {1, 2}
    NoIndex = NoIndex
    Capacity = 2
INVARIANTS
    CompleteIfConnected
PROPERTIES
    FirstObservationStands
    DiscoveryReturns
CHECK_DEADLOCK FALSE
