SPECIFICATION Spec
CONSTANTS
    a1 = a1
    a2 = a2
    c1 = c1
    c2 = c2
    Alerts = {a1, a2}
    Cases = {c1, c2}
    Analysts = {u1, u2}
    None = None
    HighCount = 2
    MaxEdits = 1
    MaxFaults = 0
    Severe <- MCSevere
    High <- MCHigh
    Owned <- MCOwned
PROPERTY EscalationLeavesResolved
