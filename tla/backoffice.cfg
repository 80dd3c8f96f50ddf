SPECIFICATION OfficeSpec
CONSTANTS
    None = None
    Bad = Bad
    Moves <- MCMoves
    MinTransactions = 2
    FraudAlerts = {x1, x2}
    Pause = 3
    MaxMonths = 9
    MaxMoves = 3
    Conducts <- MCConducts
    Small = 4
    Dispersal = 3
    MaxLosses = 1
    Transactions <- MCTransactions
    Detectors = {u1, u2}
    MinRing = 2
    Hops = 2
    MaxRings = 3
    Names = {x1, x2}
    Syncs = {t1, t2, t3}
    MaxAge = 2
    MaxScreenings = 1
    Officers = {u1, u2}
    References = {x1, x2}
    MaxFilings = 4
    Clients <- MCClients
    Calls = {t1, t2, t3}
    Persons = {x1, x2}
    Files <- MCFiles
    Sample = 1
    BatchSize = 2
    MaxImports = 3
    a = a
    b = b
    c = c
    d = d
    e = e
    t1 = t1
    t2 = t2
    t3 = t3
    u1 = u1
    u2 = u2
    x1 = x1
    x2 = x2
SYMMETRY Symmetry
CHECK_DEADLOCK FALSE
INVARIANTS
    BackOfficeTypeOK
    LoanVerdictIsKept
    GuiltIsSeen
    
    ListHasNoGap
    FiledIsDated
    IdentityIsKept
    LabelsAreSound
 
