---------------------------- MODULE RegionalCycle ----------------------------
(***************************************************************************)
(* The platform beat of game-api: RegionalSimulationCycleCoordinator runs  *)
(* one advance of all realtime regions per interval, never two at a time,  *)
(* RegionalSimulationSchedulerMonitor keeps what /health reports, and      *)
(* server.ts keeps the startup fence closed until a first cycle completed. *)
(*                                                                         *)
(* Clock readings enter the code only through differences compared with    *)
(* the stall limit, so the model keeps ages (ticks since an instant),      *)
(* saturated one above the limit, and never an absolute time.              *)
(***************************************************************************)
EXTENDS Naturals

CONSTANT Interval       \* ticks between two beats of setInterval

ASSUME IntervalAssumption == Interval \in Nat \ {0}

VARIABLES
    cycle,          \* #active: "idle", "running", or "hung" (its promise never settles)
    dog,            \* ticks until the armed watchdog of the active cycle fires
    stalled,        \* ActiveCycle.stalled
    running,        \* the monitor's snapshot: running,
    sinceBoot,      \*   age of startedAtMs,
    sinceProgress,  \*   age of lastProgressAtMs,
    sinceSuccess,   \*   age of lastSuccessfulAtMs,
    failures,       \*   consecutiveFailures (saturated at 2)
    beat,           \* ticks until setInterval fires again
    fence,          \* regionalSimulationStartupReady
    missing,        \* an expected realtime region is not ready in the worker
    phase           \* server life: "listening", "closing" (onClose awaits), "closed"

coordinator == <<cycle, dog, stalled>>
monitor == <<running, sinceBoot, sinceProgress, sinceSuccess, failures>>
vars == <<cycle, dog, stalled, running, sinceBoot, sinceProgress, sinceSuccess, failures,
          beat, fence, missing, phase>>

\* stalledAfterMs of the health check and the delay of the watchdog.
StallLimit == 2 * Interval

\* Ages run from 0 to one above the limit; Never is an undefined instant.
Ages == 0 .. StallLimit + 1
Never == StallLimit + 2

Aged(age) == IF age \in 0 .. StallLimit THEN age + 1 ELSE age

FlagsOK ==
    stalled \in BOOLEAN /\ running \in BOOLEAN /\ fence \in BOOLEAN /\ missing \in BOOLEAN

TimesOK ==
    /\ dog \in 0 .. StallLimit
    /\ beat \in 0 .. Interval
    /\ failures \in 0 .. 2
    /\ sinceBoot \in Ages
    /\ sinceProgress \in Ages \cup {Never}
    /\ sinceSuccess \in Ages \cup {Never}

TypeOK ==
    /\ cycle \in {"idle", "running", "hung"}
    /\ phase \in {"listening", "closing", "closed"}
    /\ FlagsOK
    /\ TimesOK

Active == cycle # "idle"

Init ==
    /\ cycle = "idle"
    /\ dog = 0
    /\ stalled = FALSE
    /\ running = FALSE
    /\ sinceBoot = 0
    /\ sinceProgress = Never
    /\ sinceSuccess = Never
    /\ failures = 0
    /\ beat = 0
    /\ fence = FALSE
    /\ missing \in BOOLEAN
    /\ phase = "listening"

\* The code the health check answers with, in the order of its early returns.
HealthCode ==
    CASE missing -> "regions_missing"
      [] ~missing /\ running /\ sinceProgress = StallLimit + 1 -> "stalled"
      [] OTHER ->
           CASE failures >= 2 -> "stalled"
             [] failures = 1 -> "last_cycle_failed"
             [] failures = 0 /\ sinceSuccess = Never /\ running -> "catching_up"
             [] failures = 0 /\ sinceSuccess = Never /\ ~running ->
                  IF sinceBoot = StallLimit + 1 THEN "stalled" ELSE "starting"
             [] failures = 0 /\ sinceSuccess = StallLimit + 1 -> "stalled"
             [] OTHER -> "current"

HealthDown == HealthCode \in {"regions_missing", "stalled", "catching_up", "starting"}

-----------------------------------------------------------------------------
\* Faults a property must catch: a skipped beat opens the fence as well ...
SkipOpensFence == UNCHANGED <<coordinator, monitor>> /\ fence' = TRUE

\* ... a new cycle arms its watchdog with an interval too many ...
StartArmsLate ==
    /\ cycle' = "running"
    /\ stalled' = FALSE
    /\ dog' = 3 * Interval
    /\ running' = TRUE
    /\ sinceProgress' = 0
    /\ UNCHANGED <<sinceBoot, sinceSuccess, failures, fence>>

\* ... progress does not re-arm the watchdog ...
ProgressKeepsWatchdog ==
    /\ cycle = "running"
    /\ sinceProgress' = 0
    /\ missing' \in BOOLEAN
    /\ UNCHANGED <<coordinator, running, sinceBoot, sinceSuccess, failures, beat, fence, phase>>

\* ... progress re-arms it with a longer delay than health grants ...
ProgressArmsLate ==
    /\ cycle = "running"
    /\ sinceProgress' = 0
    /\ dog' = StallLimit + 1
    /\ missing' \in BOOLEAN
    /\ UNCHANGED <<cycle, stalled, running, sinceBoot, sinceSuccess, failures, beat, fence, phase>>

\* ... a failed cycle is not taken out of the monitor ...
FailKeepsRunning ==
    /\ cycle = "running"
    /\ cycle' = "idle"
    /\ dog' = 0
    /\ failures' = IF failures = 2 THEN 2 ELSE failures + 1
    /\ UNCHANGED <<stalled, running, sinceBoot, sinceProgress, sinceSuccess, beat, fence, missing, phase>>

\* ... a skipped beat counts as progress of the cycle it could not start ...
SkipReportsProgress ==
    /\ sinceProgress' = 0
    /\ UNCHANGED <<coordinator, running, sinceBoot, sinceSuccess, failures, fence>>

\* ... close() does not await the active cycle.
CloseReturnsAtOnce ==
    /\ phase = "closing"
    /\ phase' = "closed"
    /\ UNCHANGED <<coordinator, monitor, beat, fence, missing>>

-----------------------------------------------------------------------------
\* run(at) while no cycle is active: a new cycle, its watchdog and monitor.started.
StartCycle ==
    /\ cycle' = "running"
    /\ stalled' = FALSE
    /\ dog' = StallLimit
    /\ running' = TRUE
    /\ sinceProgress' = 0
    /\ UNCHANGED <<sinceBoot, sinceSuccess, failures, fence>>

\* run(at) while a cycle is active: it answers "skipped"; only metrics count it.
SkipCycle == UNCHANGED <<coordinator, monitor, fence>>

\* setInterval fires runRegionalAdvance; the first call follows listen at once.
Beat ==
    /\ phase = "listening"
    /\ beat = 0
    /\ beat' = Interval
    /\ IF Active THEN SkipCycle ELSE StartCycle
    /\ UNCHANGED <<missing, phase>>

\* reportProgress of the active cycle; the worker may have (un)readied regions.
Progress ==
    /\ cycle = "running"
    /\ sinceProgress' = 0
    /\ dog' = StallLimit
    /\ missing' \in BOOLEAN
    /\ UNCHANGED <<cycle, stalled, running, sinceBoot, sinceSuccess, failures, beat, fence, phase>>

\* The operation resolves: monitor.completed, the finally clause, then the fence.
Complete ==
    /\ cycle = "running"
    /\ cycle' = "idle"
    /\ dog' = 0
    /\ running' = FALSE
    /\ sinceSuccess' = 0
    /\ failures' = 0
    /\ fence' = TRUE
    /\ UNCHANGED <<stalled, sinceBoot, sinceProgress, beat, missing, phase>>

\* The operation rejects: monitor.failed, the finally clause; the fence stays.
Fail ==
    /\ cycle = "running"
    /\ cycle' = "idle"
    /\ dog' = 0
    /\ running' = FALSE
    /\ failures' = IF failures = 2 THEN 2 ELSE failures + 1
    /\ UNCHANGED <<stalled, sinceBoot, sinceProgress, sinceSuccess, beat, fence, missing, phase>>

\* The operation's promise never settles (a native call or a query that hangs).
Hang ==
    /\ cycle = "running"
    /\ cycle' = "hung"
    /\ UNCHANGED <<dog, stalled, monitor, beat, fence, missing, phase>>

\* The watchdog's callback, when its delay has run out.
Watchdog ==
    /\ Active
    /\ dog = 0
    /\ ~stalled
    /\ stalled' = TRUE
    /\ UNCHANGED <<cycle, dog, monitor, beat, fence, missing, phase>>

\* A command outside the cycle (an HTTP route) makes the worker lose or regain a region.
RegionsChange ==
    /\ phase # "closed"
    /\ missing' = ~missing
    /\ UNCHANGED <<coordinator, monitor, beat, fence, phase>>

\* onClose: the interval is cleared before the active cycle is awaited.
Close ==
    /\ phase = "listening"
    /\ phase' = "closing"
    /\ UNCHANGED <<coordinator, monitor, beat, fence, missing>>

\* close() of the coordinator returns once the active promise settled.
CloseReturns ==
    /\ phase = "closing"
    /\ ~Active
    /\ phase' = "closed"
    /\ UNCHANGED <<coordinator, monitor, beat, fence, missing>>

\* One tick of the clock. Due timers fire first, so no timer is later than a tick.
Tick ==
    /\ phase = "listening" => beat > 0
    /\ Active => (dog > 0 \/ stalled)
    /\ beat' = IF beat = 0 THEN 0 ELSE beat - 1
    /\ dog' = IF dog = 0 THEN 0 ELSE dog - 1
    /\ sinceBoot' = Aged(sinceBoot)
    /\ sinceProgress' = Aged(sinceProgress)
    /\ sinceSuccess' = Aged(sinceSuccess)
    /\ UNCHANGED <<cycle, stalled, running, failures, fence, missing, phase>>

Next ==
    \/ Beat \/ Progress \/ Complete \/ Fail \/ Hang
    \/ Watchdog \/ RegionsChange \/ Close \/ CloseReturns \/ Tick

Spec == Init /\ [][Next]_vars

\* Timers of the event loop fire and time passes; a cycle need not ever settle.
FairSpec == Spec /\ WF_vars(Beat) /\ WF_vars(Watchdog) /\ WF_vars(Tick)

-----------------------------------------------------------------------------
\* The inductive strengthening: an unflagged cycle's watchdog and the age of its
\* last progress always add up to the stall limit, and the fence is the monitor's
\* memory of a first success.
CycleInv ==
    /\ running <=> Active
    /\ fence <=> sinceSuccess # Never
    /\ Active => sinceProgress # Never
    /\ (Active /\ ~stalled) => dog + sinceProgress = StallLimit
    /\ phase = "closed" => ~Active

\* The coordinator and the monitor are two objects with a flag each. They never
\* disagree: a cycle the coordinator thinks active is one health counts as running.
MonitorFollowsCoordinator == running <=> Active

\* Business routes open only behind a completed catch-up: never by a skipped or
\* failed first cycle; and health calls the scheduler current only behind it too.
FenceBehindCatchUp ==
    /\ fence => sinceSuccess # Never
    /\ HealthCode = "current" => fence

\* The watchdog's log never lags behind public health: when health reports the
\* running cycle as stalled, the cycle was already flagged.
HealthStallWasLogged == (Active /\ sinceProgress = StallLimit + 1) => stalled

\* The watchdog flags a cycle only after a full stall limit without progress,
\* however long the cycle as a whole has been running.
NoFalseStall == [][(stalled' /\ ~stalled) => sinceProgress >= StallLimit]_vars

\* Shutdown leaves no cycle behind: when close() has returned, no cycle runs and none starts.
NoCycleAfterClose == phase = "closed" => ~Active

\* A cycle whose promise never settles ends in a permanently unhealthy scheduler
\* and a stall log, although every later beat is skipped silently.
HungCycleIsReported == [](cycle = "hung" => <>[](HealthDown /\ stalled))

=============================================================================
