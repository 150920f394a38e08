SPECIFICATION Spec
CONSTANT
    MaxProcesses = 3
INVARIANTS
    TypeOK
    NoWorkerOutlivesExec
    AtMostOneLateSpin
PROPERTIES
    StopCompletes
    FailedStartStops
    DestructorCompletes
    HealthFailureStops
