SPECIFICATION Spec
CONSTANTS
    Workers = {w1}
    Gens = {g1, g2, g3, g4, g5}
    MaxCrashes = 0
    MaxToggles = 0
    None = None
INVARIANT PromotedModelLoads
