SPECIFICATION FairSpec
CONSTANTS
    w1 = w1
    w2 = w2
    Worlds <- OneWorld
    Simulated = {w1}
    Disruptions = {"d1"}
    Effects = {"e1"}
    None = None
    MaxHash = 3
PROPERTY SnapshotIsTakenOver
CHECK_DEADLOCK FALSE
