SPECIFICATION LedgerSpec
CONSTANTS
    MaxAmount = 5
    StructuringAmount = 4
    RapidCount = 2
    AgentRapidCount = 2
    AgentFloat = 9
    RoundAmount = 3
    Day = 3
    Hour = 1
    None = None
    Cases <- MCCases
    MaxNow = 1
    a = a
    d = d
    e = e
    i1 = i1
    i2 = i2
    s1 = s1
    s2 = s2
    s3 = s3
    s4 = s4
SYMMETRY Symmetry
CHECK_DEADLOCK FALSE
INVARIANT NewAddressIsFlagged
