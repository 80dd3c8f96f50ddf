SPECIFICATION FairSpec
CONSTANTS
    c1 = c1
    Clients = {c1, c2}
    Scores <- MCScores
    Amounts <- MCAmounts
    Calls = {}
    Batches = {b1, b2}
    BatchSize = 2
    Reviewers = {}
    MaxMoves = 3
    MaxFaults = 1
    None = None
PROPERTY ProfileCatchesUp
