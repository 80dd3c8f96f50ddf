SPECIFICATION Spec
CONSTANTS
    c1 = c1
    Clients = {c1}
    Scores <- MCScores
    Amounts <- MCAmounts
    Calls = {k1, k2}
    Batches = {b1}
    BatchSize = 2
    Reviewers = {u1}
    MaxMoves = 3
    MaxFaults = 1
    None = None
SYMMETRY Symmetry
INVARIANTS
    TypeOK
    
    AnsweredIsStored
