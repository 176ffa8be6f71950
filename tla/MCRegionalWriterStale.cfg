SPECIFICATION Spec
CONSTANTS
    r1 = r1
    r2 = r2
    c1 = c1
    c2 = c2
    c3 = c3
    t1 = t1
    t2 = t2
    NoHead = NoHead
    Regions = {r1}
    Commands = {c1, c2, c3}
    Tasks = {t1, t2}
    Jobs <- OneRegionJobs
    At <- MCAt
    Genesis <- OneGenesis
    Window = 2
    Scheduler = t1
PROPERTY FeedNeverRegresses
CHECK_DEADLOCK FALSE
