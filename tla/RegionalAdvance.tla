---------------------------- MODULE RegionalAdvance ----------------------------
(***************************************************************************)
(* The 1:1 beat of the regional simulations of a process:                   *)
(* advanceRegionalSimulations with the catalog of scheduled commands, whose *)
(* manual disruptions are accepted by ManualDisruptionCommandCatalog while  *)
(* the beats go on.                                                        *)
(*                                                                         *)
(* A beat brings one region after the other to the platform's time. On the  *)
(* way lie boundaries: the times of scheduled commands and the absolute     *)
(* checkpoints. A boundary is indivisible; boundaries are gathered into     *)
(* batches bounded in length and simulated time, and the worker commits a   *)
(* batch as a whole or not at all. A region that fails is left behind until *)
(* the next beat, which starts from the persisted head.                     *)
(*                                                                         *)
(* Base is what the deployment and the catalog of daily restrictions yield  *)
(* for the whole run, in hindsight. The catalog is refreshed in each beat,  *)
(* but a policy may only be published for a time in the future              *)
(* (disruption-policy-admin.ts), and a beat only asks for times up to its   *)
(* target: what it asks for it finds already published.                     *)
(*                                                                         *)
(* The worker is RegionalWriter seen from outside: it applies a command at  *)
(* most once and refuses a commit behind the latest region of the world.    *)
(***************************************************************************)
EXTENDS Naturals, Sequences, FiniteSets

CONSTANTS
    Regions,        \* the registered regions, in the order of their ids
    World,          \* the world of each region
    Genesis,        \* the simulation time all regions start at
    Base,           \* scheduled commands of the deployment and the daily restrictions:
                    \* [region, kind, key, at]
    Requests,       \* manual disruptions that may be ordered: [key, start, end, regions]
    NoRequest,
    BatchLimit,     \* REGIONAL_SIMULATION_BATCH_COMMAND_LIMIT
    Span,           \* REGIONAL_SIMULATION_BATCH_SPAN_MS
    MaxTime         \* bound on the platform's time

RegionSet == {Regions[i] : i \in DOMAIN Regions}

ASSUME AdvanceAssumption ==
    /\ Regions \in Seq(RegionSet)
    /\ \A i, k \in DOMAIN Regions : Regions[i] = Regions[k] => i = k
    /\ Genesis \in Nat /\ MaxTime \in Nat /\ Genesis <= MaxTime
    /\ BatchLimit \in Nat \ {0} /\ Span \in Nat \ {0}
    /\ \A b \in Base : /\ b.region \in RegionSet /\ b.kind \in {"queue", "dispatch"}
                       /\ b.at \in Nat /\ b.at >= Genesis
                       /\ IsFiniteSet({x \in Base : x.at = b.at})
    /\ \A a, b \in Base : a.region = b.region /\ a.kind = b.kind /\ a.key = b.key => a.at = b.at
    /\ \A q \in Requests : q.regions \subseteq RegionSet /\ q.start \in Nat /\ q.end \in Nat
    /\ \A q \in Requests : \A r, s \in q.regions : World[r] = World[s]
    /\ NoRequest \notin Requests

VARIABLES
    clock,          \* the platform's time in world milliseconds
    \* PostgreSQL.
    now,            \* simulation time of each region's head
    done,           \* commands that took effect in a region: [kind, key, at], at its time then
    plans,          \* disruption.manual-scheduled events: [key, start, end, regions, request]
    \* The catalog.
    loaded,         \* the plans of the last refresh
    request,        \* the order schedule() is working on
    start,          \* the effective start it has computed
    heads,          \* the heads it has read
    \* The beat.
    pc,             \* "idle", "region", "enqueue", "flush"
    target,         \* the beat's platform time
    turn,           \* index of the region in turn
    current,        \* currentNowMs
    cursor,         \* cursorMs: boundaries up to here are enqueued
    pending,        \* pendingBatch: boundaries [at, advance, queue, rest]
    calm            \* regions that do not fail any more (observes the fault model only)

database == <<now, done, plans>>
order == <<request, start, heads>>
locals == <<target, turn, current, cursor, pending>>
vars == <<clock, now, done, plans, loaded, request, start, heads,
          pc, target, turn, current, cursor, pending, calm>>

Peers(r) == {s \in RegionSet : World[s] = World[r]}

Largest(S) == CHOOSE m \in S : \A n \in S : n <= m
Least(S) == CHOOSE m \in S : \A n \in S : m <= n

Region == Regions[turn]

Init ==
    /\ clock = Genesis
    /\ now = [r \in RegionSet |-> Genesis]
    /\ done = [r \in RegionSet |-> {}]
    /\ plans = {}
    /\ loaded = {}
    /\ request = NoRequest /\ start = 0 /\ heads = now
    /\ pc = "idle"
    /\ target = 0 /\ turn = 1 /\ current = 0 /\ cursor = 0 /\ pending = <<>>
    /\ calm = {}

Tick ==
    /\ clock < MaxTime
    /\ clock' = clock + 1
    /\ UNCHANGED <<database, loaded, order, pc, locals, calm>>

-----------------------------------------------------------------------------
(* The manual disruption catalog. *)

\* exclusive(): neither a beat nor another order is in progress.
Exclusive == pc = "idle" /\ request = NoRequest

\* The effective start of an order placed at time t: never before its own start, t or a head.
StartOf(q, t) == Largest({q.start, t} \cup {now[r] : r \in q.regions})

\* Mutant: an order is taken while a beat runs.
OrderOvertakes(q, t) ==
    /\ request = NoRequest
    /\ \A p \in plans : p.key # q.key
    /\ q.end > StartOf(q, t)
    /\ request' = q
    /\ start' = StartOf(q, t)
    /\ heads' = now
    /\ UNCHANGED <<clock, database, loaded, pc, locals, calm>>

\* schedule() up to its transaction, for an order that may have waited for its turn since t.
\* An order whose key has a plan is answered from it or
\* refused, and one that has run out is refused, both without an effect.
Order(q, t) ==
    /\ Exclusive
    /\ \A p \in plans : p.key # q.key
    /\ q.end > StartOf(q, t)
    /\ request' = q
    /\ start' = StartOf(q, t)
    /\ heads' = now
    /\ UNCHANGED <<clock, database, loaded, pc, locals, calm>>

CloseOrder == request' = NoRequest /\ start' = 0 /\ heads' = now

\* The transaction: the heads are still the ones that were read.
SavePlan ==
    /\ request # NoRequest
    /\ \A r \in request.regions : heads[r] = now[r]
    /\ plans' = plans \cup {[key |-> request.key, start |-> start, end |-> request.end,
                              regions |-> request.regions]}
    /\ CloseOrder
    /\ UNCHANGED <<clock, now, done, loaded, pc, locals, calm>>

\* The preview, a query or the transaction throws.
OrderFails ==
    /\ request # NoRequest
    /\ CloseOrder
    /\ UNCHANGED <<clock, database, loaded, pc, locals, calm>>

-----------------------------------------------------------------------------
(* Scheduled commands. *)

\* The commands a set of plans and the deployment's base schedule for a region.
Scheduled(r, ps) ==
    {[kind |-> "activate", key |-> p.key, at |-> p.start] : p \in {x \in ps : r \in x.regions}}
      \cup {[kind |-> "clear", key |-> p.key, at |-> p.end] : p \in {x \in ps : r \in x.regions}}
      \cup {[kind |-> b.kind, key |-> b.key, at |-> b.at] : b \in {x \in Base : x.region = r}}

Due(r, ms) == {c \in Scheduled(r, loaded) : c.at = ms}

\* Mutant: what is scheduled for the target itself is left to the next beat.
BoundaryExclusive(r, ms) ==
    [at      |-> ms,
     advance |-> TRUE,
     queue   |-> {c \in Due(r, ms) : c.kind = "queue"},
     rest    |-> {c \in Due(r, ms) : c.kind # "queue" /\ ms < target}]

\* Movement continuations go before the advance, everything else behind it.
Boundary(r, ms) ==
    [at      |-> ms,
     advance |-> TRUE,
     queue   |-> {c \in Due(r, ms) : c.kind = "queue"},
     rest    |-> {c \in Due(r, ms) : c.kind # "queue"}]

\* at(): what is scheduled for the very time of the head.
Standing(r) == [at |-> now[r], advance |-> FALSE, queue |-> {}, rest |-> Due(r, now[r])]

Size(b) == Cardinality(b.queue) + Cardinality(b.rest) + IF b.advance THEN 1 ELSE 0

\* The number of commands in the batch.
BatchSize ==
    LET sum[i \in 0 .. Len(pending)] == IF i = 0 THEN 0 ELSE sum[i - 1] + Size(pending[i])
    IN  sum[Len(pending)]

\* Mutant: no absolute checkpoints, only scheduled times and the target.
BoundaryTimesWithoutCheckpoints(r) ==
    {ms \in cursor + 1 .. target : ms = target \/ Due(r, ms) # {}}

\* The boundaries that are left: scheduled times, absolute checkpoints, the target.
BoundaryTimes(r) ==
    {ms \in cursor + 1 .. target : ms = target \/ ms % Span = 0 \/ Due(r, ms) # {}}

-----------------------------------------------------------------------------
(* The worker. *)

\* The commands of the batch, each with the simulation time it takes effect at: in front
\* of an advance the time of the boundary before.
Effects ==
    UNION {{[kind |-> c.kind, key |-> c.key,
             at |-> IF i = 1 THEN now[Region] ELSE pending[i - 1].at] : c \in pending[i].queue}
             \cup {[kind |-> c.kind, key |-> c.key, at |-> pending[i].at] : c \in pending[i].rest}
           : i \in DOMAIN pending}

Fresh(e) == \A d \in done[Region] : d.kind # e.kind \/ d.key # e.key

Reached ==
    IF pending[Len(pending)].advance THEN pending[Len(pending)].at ELSE now[Region]

\* Every command is a replay.
NothingNew == Reached = now[Region] /\ \A e \in Effects : ~Fresh(e)

\* A commit may not lie before the latest region of the world.
WorkerAccepts == NothingNew \/ \A r \in Peers(Region) : Reached >= now[r]

\* applyBatch: every command that has not taken effect yet does so now.
CommitBatch ==
    /\ WorkerAccepts
    /\ now' = [now EXCEPT ![Region] = Reached]
    /\ done' = [done EXCEPT ![Region] = @ \cup {e \in Effects : Fresh(e)}]

-----------------------------------------------------------------------------
(* advanceRegionalSimulations. *)

\* A beat: refresh() reads the plans that have not ended before the slowest region.
StartCycle ==
    /\ Exclusive
    /\ loaded' = {p \in plans : \E r \in p.regions : \E s \in Peers(r) : p.end >= now[s]}
    /\ target' = clock
    /\ turn' = 1
    /\ pc' = "region"
    /\ UNCHANGED <<clock, database, order, current, cursor, pending, calm>>

\* The region is done, or given up until the next beat.
NextRegion ==
    /\ turn' = turn + 1
    /\ pc' = "region"
    /\ current' = 0 /\ cursor' = 0 /\ pending' = <<>>
    /\ UNCHANGED target

\* The ready or recovered region starts from its persisted time; what is scheduled for
\* that very time comes first, as a batch of its own.
BeginRegion ==
    /\ pc = "region"
    /\ turn <= Len(Regions)
    /\ IF target < now[Region] \/ Size(Standing(Region)) > BatchLimit
       THEN NextRegion
       ELSE /\ current' = now[Region] /\ cursor' = now[Region]
            /\ IF Size(Standing(Region)) = 0
               THEN pc' = "enqueue" /\ UNCHANGED pending
               ELSE pc' = "flush" /\ pending' = <<Standing(Region)>>
            /\ UNCHANGED <<target, turn>>
    /\ UNCHANGED <<clock, database, loaded, order, calm>>

\* Mutant: only the span closes a batch, not its length.
EnqueueOverfull ==
    LET b == Boundary(Region, Least(BoundaryTimes(Region))) IN
    /\ pc = "enqueue"
    /\ cursor < target
    /\ \/ /\ pending # <<>>
          /\ b.at - current > Span
          /\ pc' = "flush"
          /\ UNCHANGED locals
       \/ /\ Size(b) <= BatchLimit
          /\ b.at - current <= Span
          /\ pending' = Append(pending, b)
          /\ cursor' = b.at
          /\ UNCHANGED <<pc, target, turn, current>>
       \/ /\ Size(b) > BatchLimit
          /\ NextRegion
    /\ UNCHANGED <<clock, database, loaded, order, calm>>

\* enqueueBoundary for the next boundary: the batch before it goes out first when the two
\* do not fit together; a boundary that fits no batch gives the region up.
Enqueue ==
    LET b == Boundary(Region, Least(BoundaryTimes(Region))) IN
    /\ pc = "enqueue"
    /\ cursor < target
    /\ \/ /\ pending # <<>>
          /\ BatchSize + Size(b) > BatchLimit \/ b.at - current > Span
          /\ Size(b) <= BatchLimit
          /\ pc' = "flush"
          /\ UNCHANGED locals
       \/ /\ pending # <<>> => BatchSize + Size(b) <= BatchLimit
          /\ Size(b) <= BatchLimit
          /\ b.at - current <= Span
          /\ pending' = Append(pending, b)
          /\ cursor' = b.at
          /\ pc' = IF BatchSize + Size(b) >= BatchLimit THEN "flush" ELSE "enqueue"
          /\ UNCHANGED <<target, turn, current>>
       \/ /\ Size(b) > BatchLimit \/ (pending = <<>> /\ b.at - current > Span)
          /\ NextRegion
    /\ UNCHANGED <<clock, database, loaded, order, calm>>

\* The last batch of the region.
FlushRest ==
    /\ pc = "enqueue"
    /\ cursor = target
    /\ pending # <<>>
    /\ pc' = "flush"
    /\ UNCHANGED <<clock, database, loaded, order, locals, calm>>

CompleteRegion ==
    /\ pc = "enqueue"
    /\ cursor = target
    /\ pending = <<>>
    /\ NextRegion
    /\ UNCHANGED <<clock, database, loaded, order, calm>>

\* The batch is committed and the region has reached exactly the expected time.
Flush ==
    /\ pc = "flush"
    /\ CommitBatch
    /\ current' = Reached
    /\ pending' = <<>>
    /\ pc' = "enqueue"
    /\ UNCHANGED <<clock, plans, loaded, order, target, turn, cursor, calm>>

\* The worker refuses the batch behind the world's time.
FlushRefused ==
    /\ pc = "flush"
    /\ ~WorkerAccepts
    /\ NextRegion
    /\ UNCHANGED <<clock, database, loaded, order, calm>>

EndCycle ==
    /\ pc = "region"
    /\ turn > Len(Regions)
    /\ pc' = "idle"
    /\ target' = 0 /\ turn' = 1
    /\ UNCHANGED <<clock, database, loaded, order, current, cursor, pending, calm>>

-----------------------------------------------------------------------------
(* Faults. *)

\* Mutant: the error of a region ends the beat.
RegionFailsForAll ==
    /\ pc \in {"region", "flush"}
    /\ turn <= Len(Regions)
    /\ Region \notin calm
    /\ pc' = "idle"
    /\ target' = 0 /\ turn' = 1 /\ current' = 0 /\ cursor' = 0 /\ pending' = <<>>
    /\ UNCHANGED <<clock, database, loaded, order, calm>>

\* The region cannot be recovered, or its batch fails before the commit.
RegionFails ==
    /\ pc \in {"region", "flush"}
    /\ turn <= Len(Regions)
    /\ Region \notin calm
    /\ NextRegion
    /\ UNCHANGED <<clock, database, loaded, order, calm>>

\* The batch is committed, but its fan-out throws.
FlushThrowsLate ==
    /\ pc = "flush"
    /\ Region \notin calm
    /\ CommitBatch
    /\ NextRegion
    /\ UNCHANGED <<clock, plans, loaded, order, calm>>

\* The process dies and starts again.
Crash ==
    /\ calm = {}
    /\ pc' = "idle"
    /\ request' = NoRequest /\ start' = 0 /\ heads' = now
    /\ loaded' = {}
    /\ target' = 0 /\ turn' = 1 /\ current' = 0 /\ cursor' = 0 /\ pending' = <<>>
    /\ UNCHANGED <<clock, database, calm>>

\* From here on nothing goes wrong with the process and with region r.
CalmDown(r) ==
    /\ calm' = calm \cup {r}
    /\ UNCHANGED <<clock, database, loaded, order, pc, locals>>

-----------------------------------------------------------------------------
Beat ==
    \/ StartCycle \/ BeginRegion \/ Enqueue \/ FlushRest \/ CompleteRegion
    \/ Flush \/ FlushRefused \/ EndCycle

Ordering == SavePlan \/ OrderFails \/ \E q \in Requests, t \in Genesis .. clock : Order(q, t)

Faults == RegionFails \/ FlushThrowsLate \/ Crash \/ \E r \in RegionSet : CalmDown(r)

Next == Beat \/ Ordering \/ Tick \/ Faults

Spec == Init /\ [][Next]_vars

\* Fairness: the time passes, an order in progress ends, the interval fires again and
\* again, and the awaits of a beat settle.
FairSpec == Spec /\ WF_vars(Tick) /\ WF_vars(SavePlan \/ OrderFails) /\ SF_vars(Beat)

-----------------------------------------------------------------------------
(* Properties. *)

\* Every variable has its type, and the beat keeps within its own limits: what is pending
\* lies behind the head, in order, within one batch and one span.
TypeOK ==
    /\ clock \in Genesis .. MaxTime
    /\ now \in [RegionSet -> Genesis .. MaxTime]
    /\ \A p \in plans : p.start < p.end /\ p.regions \subseteq RegionSet
    /\ loaded \subseteq plans
    /\ request \in Requests \cup {NoRequest}
    /\ pc \in {"idle", "region", "enqueue", "flush"}
    /\ pc = "flush" => pending # <<>>
    /\ pc \in {"enqueue", "flush"} =>
         /\ current = now[Region]
         /\ \A i \in DOMAIN pending : pending[i].at >= current /\ pending[i].at <= cursor
         /\ \A i \in DOMAIN pending : pending[i].at - current <= Span
         /\ \A i \in 1 .. Len(pending) - 1 : pending[i].at < pending[i + 1].at
         /\ BatchSize <= BatchLimit

\* Every scheduled command takes effect exactly once and exactly at its time (a movement
\* continuation before the simulation gets there), and no region passes a scheduled time
\* without it: whatever beats fail before or after their commits, wherever the batches
\* are cut, whenever the process restarts, and although manual disruptions are ordered
\* while the beats go on.
OnTime ==
    \A r \in RegionSet : \A c \in Scheduled(r, plans) :
        LET taken == {d \in done[r] : d.kind = c.kind /\ d.key = c.key}
        IN  /\ c.at < now[r] => taken # {}
            /\ Cardinality(taken) <= 1
            /\ \A d \in taken : IF c.kind = "queue" /\ c.at > Genesis THEN d.at < c.at
                                                                      ELSE d.at = c.at

\* A manual disruption never outlives its end: a region that stands at the end or behind it
\* has already cleared it. Nobody ever reads a head at the end with the disruption active.
NeverOutlivesEnd ==
    \A r \in RegionSet : \A p \in plans :
        r \in p.regions /\ now[r] >= p.end =>
            \E d \in done[r] : d.kind = "clear" /\ d.key = p.key

\* The checkpoints keep every boundary within the span: the error for a boundary beyond
\* the window is unreachable.
WindowNeverExceeded ==
    pc = "enqueue" /\ cursor < target /\ pending = <<>> =>
        Least(BoundaryTimes(Region)) - current <= Span

\* The two ways a region can be left behind for good. A region of the same world is ahead
\* of it, so that the worker may refuse its commits; or the commands that are due
\* together at a time before it, with the advance, exceed the limit of a batch: the limit
\* is checked per order, not for the sum of the orders.
Overtaken(r) == \E s \in Peers(r) : now[s] > now[r]

Overfull(r) ==
    \E c \in Scheduled(r, plans) :
        /\ c.at >= now[r]
        /\ Cardinality({d \in Scheduled(r, plans) : d.at = c.at}) >= BatchLimit

LeftBehind(r) == Overtaken(r) \/ Overfull(r)

\* A region that has stopped failing catches up with the platform's time, however often
\* the regions before it fail, unless it is left behind.
CatchesUp == \A r \in RegionSet : [](r \in calm => <>(now[r] = clock \/ LeftBehind(r)))
=============================================================================
