SPECIFICATION FairSpec
CONSTANTS
    r1 = r1
    r2 = r2
    c1 = c1
    c2 = c2
    c3 = c3
    t1 = t1
    t2 = t2
    NoHead = NoHead
    Regions = {r1, r2}
    Commands = {c2, c3}
    Tasks = {t1}
    Jobs <- TwoRegionJobs
    At <- TwoAt
    Genesis <- TwoGenesis
    Window = 2
    Scheduler = t1
PROPERTIES RegionRecovers
CHECK_DEADLOCK FALSE
