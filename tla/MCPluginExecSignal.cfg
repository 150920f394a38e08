SPECIFICATION Spec
CONSTANT
    MaxProcesses = 2
PROPERTY
    SignalStops
