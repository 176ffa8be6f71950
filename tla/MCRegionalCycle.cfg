SPECIFICATION FairSpec
CONSTANT Interval = 2
INVARIANT TypeOK
INVARIANT MonitorFollowsCoordinator
INVARIANT FenceBehindCatchUp
INVARIANT HealthStallWasLogged
INVARIANT NoCycleAfterClose
PROPERTY NoFalseStall
PROPERTY HungCycleIsReported
