SPECIFICATION Spec
CONSTANTS
    Request = {1, 2, 3}
    Type <- MCType
    type <- Mctype
    NoRequest = 0
INVARIANTS
    AtMostOnce
    OneTransaction
PROPERTIES
    ResultsAreTruthful
    EveryCallReturns
