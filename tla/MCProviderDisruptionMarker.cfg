SPECIFICATION Spec
CONSTANTS
    w1 = w1
    w2 = w2
    Worlds <- OneWorld
    Simulated = {w1}
    Disruptions = {"d1"}
    Effects = {"e1"}
    None = None
    MaxHash = 2
INVARIANT NoMarkersWithoutEffect
CHECK_DEADLOCK FALSE
