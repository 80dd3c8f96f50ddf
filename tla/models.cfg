SPECIFICATION FairSpec
CONSTANTS
    Workers = {w1}
    Gens = {g1, g2, g3, g4, g5}
    MaxCrashes = 1
    MaxToggles = 1
    None = None
INVARIANTS
    TypeOK
    
    WidthErrorNeedsMix
    ServingIsVetted
PROPERTY DamageHeals
