------------------------- MODULE RegionalCycleProofs -------------------------
(* Theorems about RegionalCycle, for every interval. *)
EXTENDS RegionalCycle, TLAPS

\* Every state of the coordinator, the monitor and the fence is well typed.
THEOREM CycleTypeCorrect == Spec => []TypeOK
<1> USE IntervalAssumption DEF Ages, Never, StallLimit
<1>1. Init => TypeOK
  <2> SUFFICES ASSUME Init PROVE TypeOK
    OBVIOUS
  <2>1. FlagsOK
    BY DEF Init, FlagsOK
  <2>2. TimesOK
    BY DEF Init, TimesOK
  <2> QED
    BY <2>1, <2>2 DEF Init, TypeOK
<1>2. TypeOK /\ [Next]_vars => TypeOK'
  <2> SUFFICES ASSUME TypeOK, [Next]_vars PROVE TypeOK'
    OBVIOUS
  <2> USE DEF TypeOK, vars, coordinator, monitor
  <2>1. FlagsOK'
    BY DEF FlagsOK, Next, StartCycle, SkipCycle, Beat, Progress, Complete, Fail, Hang,
       Watchdog, RegionsChange, Close, CloseReturns, Tick
  <2>2. TimesOK'
    BY DEF TimesOK, Next, StartCycle, SkipCycle, Aged, Beat, Progress, Complete, Fail, Hang,
       Watchdog, RegionsChange, Close, CloseReturns, Tick
  <2>3. /\ cycle' \in {"idle", "running", "hung"}
        /\ phase' \in {"listening", "closing", "closed"}
    BY DEF Next, StartCycle, SkipCycle, Beat, Progress, Complete, Fail, Hang,
       Watchdog, RegionsChange, Close, CloseReturns, Tick
  <2> QED
    BY <2>1, <2>2, <2>3
<1> QED
  BY <1>1, <1>2, PTL DEF Spec

\* CycleInv is inductive: the two flags of a cycle, the fence and the last success,
\* and the watchdog and the progress age stay tied together through every step.
LEMMA CycleInductive == Spec => []CycleInv
<1> USE IntervalAssumption DEF Never, StallLimit, Active
<1>1. Init => CycleInv
  BY DEF Init, CycleInv
<1>2. TypeOK /\ CycleInv /\ [Next]_vars => CycleInv'
  <2> SUFFICES ASSUME TypeOK, CycleInv, [Next]_vars PROVE CycleInv'
    OBVIOUS
  <2> USE DEF CycleInv, TypeOK, FlagsOK, TimesOK, Ages, vars, coordinator, monitor
  <2>1. CASE Beat
    BY <2>1 DEF Beat, StartCycle, SkipCycle
  <2>2. CASE Progress
    BY <2>2 DEF Progress
  <2>3. CASE Complete
    BY <2>3 DEF Complete
  <2>4. CASE Fail
    BY <2>4 DEF Fail
  <2>5. CASE Hang
    BY <2>5 DEF Hang
  <2>6. CASE Watchdog
    BY <2>6 DEF Watchdog
  <2>7. CASE RegionsChange
    BY <2>7 DEF RegionsChange
  <2>8. CASE Close
    BY <2>8 DEF Close
  <2>9. CASE CloseReturns
    BY <2>9 DEF CloseReturns
  <2>10. CASE Tick
    BY <2>10 DEF Tick, Aged
  <2>11. CASE UNCHANGED vars
    BY <2>11
  <2> QED
    BY <2>1, <2>2, <2>3, <2>4, <2>5, <2>6, <2>7, <2>8, <2>9, <2>10, <2>11 DEF Next
<1> QED
  BY <1>1, <1>2, CycleTypeCorrect, PTL DEF Spec

\* Business routes open only behind a completed catch-up cycle, and health calls the
\* scheduler current only then.
THEOREM FenceSafe == Spec => []FenceBehindCatchUp
<1>1. TypeOK /\ CycleInv => FenceBehindCatchUp
  BY DEF TypeOK, TimesOK, CycleInv, FenceBehindCatchUp, HealthCode
<1> QED
  BY <1>1, CycleTypeCorrect, CycleInductive, PTL

\* Health never reports a running cycle as stalled before the watchdog flagged it.
THEOREM StallLogSafe == Spec => []HealthStallWasLogged
<1>1. TypeOK /\ CycleInv => HealthStallWasLogged
  BY IntervalAssumption DEF TypeOK, TimesOK, Ages, StallLimit, CycleInv, HealthStallWasLogged
<1> QED
  BY <1>1, CycleTypeCorrect, CycleInductive, PTL

\* The coordinator's active cycle and the monitor's running flag never disagree.
THEOREM MonitorAgrees == Spec => []MonitorFollowsCoordinator
<1>1. CycleInv => MonitorFollowsCoordinator
  BY DEF CycleInv, MonitorFollowsCoordinator
<1> QED
  BY <1>1, CycleInductive, PTL

\* When close() of the coordinator has returned, no cycle is active, and none becomes so.
THEOREM ShutdownComplete == Spec => []NoCycleAfterClose
<1>1. CycleInv => NoCycleAfterClose
  BY DEF CycleInv, NoCycleAfterClose
<1> QED
  BY <1>1, CycleInductive, PTL

\* The watchdog flags no cycle that made progress within the stall limit: an unflagged
\* cycle whose delay has run out has the full limit as the age of its last progress.
THEOREM WatchdogHonest == Spec => NoFalseStall
<1> DEFINE Honest == (stalled' /\ ~stalled) => sinceProgress >= StallLimit
<1>1. TypeOK /\ CycleInv /\ [Next]_vars => [Honest]_vars
  <2> SUFFICES ASSUME TypeOK, CycleInv, Next, stalled', ~stalled
               PROVE  sinceProgress >= StallLimit
    BY DEF vars
  <2>1. Watchdog
    BY DEF Next, StartCycle, SkipCycle, Beat, Progress, Complete, Fail, Hang, RegionsChange,
       Close, CloseReturns, Tick, coordinator
  <2>2. Active /\ dog = 0 /\ dog + sinceProgress = StallLimit
    BY <2>1 DEF Watchdog, CycleInv
  <2>3. sinceProgress \in Nat
    BY IntervalAssumption DEF TypeOK, TimesOK, Ages, Never, StallLimit
  <2>4. StallLimit \in Nat
    BY IntervalAssumption DEF StallLimit
  <2> QED
    BY <2>2, <2>3, <2>4
<1>2. Spec => [][Next]_vars
  BY DEF Spec
<1> QED
  BY <1>1, <1>2, CycleTypeCorrect, CycleInductive, PTL DEF NoFalseStall

=============================================================================
