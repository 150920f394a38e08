SPECIFICATION DdsSpec
CONSTANTS
    Request = {1, 2, 3}
    Type <- MCType
    type <- Mctype
    NoRequest = 0
    Client = {"one", "other"}
    client <- Mcclient
    HistoryDepth = 1
INVARIANTS
    DdsTypeOK
    SuccessIsExecuted
    AloneIsMatched
PROPERTY
    NoRequestIsStuck
