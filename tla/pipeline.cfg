SPECIFICATION Spec
CONSTANTS
    NumTx = 1
    PageSize = 1
    Requests = {r1, r2}
    Pollers = {p1}
    Workers = {w1, w2}
    None = None
    MaxRetries = 1
    MaxFaults = 2
    MaxReplays = 1
    Invalid <- MCNone
    Large <- MCAll
    Listed <- MCAll
SYMMETRY Symmetry
INVARIANTS
    TypeOK
    UniqueRow
    PolledTaskFindsRow
    PolledIsTracked
    OnceUnlessReplayed
    
    LargeHasReport
    
PROPERTY BookSpec
