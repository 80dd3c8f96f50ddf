SPECIFICATION FairSpec
CONSTANTS
    NumTx = 2
    PageSize = 2
    Requests = {r1, r2}
    Pollers = {p1}
    Workers = {w1, w2}
    None = None
    MaxRetries = 1
    MaxFaults = 1
    MaxReplays = 0
    Invalid <- MCInvalid
    Large <- MCAll
    Listed <- MCAll
PROPERTIES
    PostedIsStored
    PolledIsAssessed
