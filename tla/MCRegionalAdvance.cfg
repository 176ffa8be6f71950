SPECIFICATION FairSpec
CONSTANTS
    r1 = r1
    r2 = r2
    Regions <- TwoRegions
    World <- OneWorld
    Genesis = 1
    Base <- Deployment
    Requests <- Order1
    NoRequest = NoRequest
    BatchLimit = 3
    Span = 2
    MaxTime = 5
INVARIANTS TypeOK OnTime NeverOutlivesEnd WindowNeverExceeded
PROPERTY CatchesUp
CHECK_DEADLOCK FALSE
