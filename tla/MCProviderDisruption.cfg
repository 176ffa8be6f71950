SPECIFICATION FairSpec
CONSTANTS
    w1 = w1
    w2 = w2
    Worlds <- TwoWorlds
    Simulated = {w2}
    Disruptions = {"d1"}
    Effects = {"e1", "e2"}
    None = None
    MaxHash = 2
INVARIANTS TypeOK RegisterIsTrue ClearedBeforeReplaced HealthIsHonest
PROPERTY ProviderArrives
CHECK_DEADLOCK FALSE
