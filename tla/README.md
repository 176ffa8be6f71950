# Zugfolge: a TLA+ verification project

Zugfolge simulates railway companies on a shared network. A deterministic Rust core computes what
happens in a region; the TypeScript process *game-api* persists the result in PostgreSQL, advances
every region once per interval, streams the operational picture to browsers, takes realistic disruptions
from a provider, and works off the commands of an Odoo back office. This directory holds
TLA+ models of the concurrent and fault-tolerant parts of that system, TLC configurations for small
instances, and TLAPS proofs for instances of any size. Paths below are relative to the repository.

- [Inventory](#inventory)
- [Modules](#modules)
- [Runs and bounds](#runs-and-bounds)
- [Fairness](#fairness)
- [Proofs](#proofs)
- [Where code and comments disagree](#where-code-and-comments-disagree)
- [Not modelled](#not-modelled)
- [Plan](#plan)

## Inventory

| Component | State it keeps | Operations | Hard behaviour |
| --- | --- | --- | --- |
| Cycle coordinator, scheduler monitor, startup fence (`apps/game-api/src/regional-simulation-cycle.ts`, `regional-simulation-monitor.ts`, `server.ts`) | the active cycle and its watchdog; running flag, last progress, last success, consecutive failures; the fence | run (start or skip), progress, complete, fail, watchdog, close, health check | overlapping beats, timers against progress, a promise that never settles, shutdown |
| Regional worker (`regional-simulation-worker.ts`) with the receipt ledger (`packages/db/drizzle/0033…sql`) | rows and durable receipts in PostgreSQL; process-local readiness, published hashes, initialization bindings, released worlds | apply, applyBatch, initialize, restore, recover, releaseWorld | heads read without a transaction, compare-and-set, retries past a bounded window, crash between commit and fan-out, overlapping rebuilds |
| Live map feed and registry (`packages/livemap/src/stream.ts`) | per world: stream id, sequence, public state, ring buffer, listeners; markers | initializeRegion, publish, setOperationMarker, markUnavailable, releaseWorld, snapshot, subscribeAfter | feeds that expire, new streams that count from one, a ring buffer that no longer reaches back |
| SSE route (`apps/game-api/src/app.ts`) | per connection: queue, back-pressure flag | enqueue, flush, reset and close, cleanup | slow consumers, broken connections |
| Browser connection (`apps/livemap/src/protocol.ts`) | last state, synchronization promise, stream, buffered deltas, retry timer | connect, re-snapshot, accept, buffer, drain, close | snapshot and stream in any order, losses during a synchronization, microtask order |
| Regional scheduler (`regional-simulation-scheduler.ts`) with the catalog of manual disruptions (`manual-disruption-catalog.ts`, `manual-disruption-admin.ts`) | registrations; accepted plans; per beat: target, cursor, pending batch | advanceRegionalSimulations; schedule, refresh, at, dueBoundaries | boundaries and batch limits, orders placed between beats, one failing region, order of regions |
| Demand progress and passenger projections | progress rows | settle behind a head | repeats after a failure |
| Provider consumer and cycle (`provider-disruption-consumer.ts`, `disruption-provider-scheduler.ts`) | register of applied disruptions, last safe snapshot, last failure; monitor | fetch, reconcile, clear, activate, replace the register, persist success or failure | several commits before one confirmation, an input that moves on meanwhile |
| Commerce bridge (`packages/commerce/src/store.ts`, `bridge.ts`, `demand-data-worker.ts`, the commerce cycle of `server.ts`, `odoo-admin-handlers.ts`, `packages/alpha/src/world-end.ts`) | receipts, command queue with claims and leases, admin requests, outbox; the world's life cycle | receive, claim, prepare, handle, settle, seal, reject, release, renew, dispatch | leases against slow workers, crashes between effect and settlement, the fence of an archived world |
| World participation (`odoo-world-participation.ts` and the Odoo add-on's `account_move.py`, `participation.py`) | Odoo: record per customer and world, jobs; Game: participation, access | pay, reverse, dispatch, provision, refund, apply the result | two systems without a common transaction, jobs built from a record that moved on |
| Conductor sessions, fare control, police | per-operator control state, holds | session and case commands, police hold | writes the same regions from a transaction of its own |
| Planning authority, scheduler, worker | plan revisions, worker queue | submit, compute, adopt | late results against newer revisions |
| Economy | ledger, settlements | post, settle | retries |
| Cooperation, mailbox, identity, privacy, operators, player context | rows | transactional row operations | idempotent delivery |
| World start and end, deployment bundles, infrastructure packages | bundle and world rows | bootstrap, activate, archive | interrupted activation |
| Rust crates (sim, conflict, planner, fleet, demand, rules, conductor, …) | one state per region | deterministic reducers | track reservations, bounded arithmetic |
| Frontends, tools, audits, CI | – | – | – |

How they interact. `server.ts` calls the cycle coordinator; a cycle calls the scheduler, which calls
`recover` and `applyBatch` of the worker. HTTP routes and the disruption consumer call `apply` of the
same worker, concurrently. The worker calls the native runtime, commits, and publishes on the feed.
The SSE route subscribes browsers to the feed; each browser reads snapshots from one route and deltas
from the other. The police call builds a second worker with an empty registry on its own transaction,
so that heads move without this process' feed. Odoo posts signed commands, which a second interval works
off; their handlers order manual disruptions from the scheduler's catalog, deploy and close worlds,
change participations; the same interval returns the results to Odoo.

What makes them correct, in one sentence each:

- *Cycle*: never two cycles; the fence opens only behind a completed catch-up; a stall is reported if
  and only if nothing progressed for the limit.
- *Worker*: a command id takes effect exactly once, whatever is retried; clients see committed states
  only; a region that fell out of service returns; a released world stays gone.
- *Scheduler*: every scheduled command takes effect once and at its time, wherever batches are cut; only two
  named conditions keep a region behind.
- *Provider consumer*: the register says what the simulation has; success is reported only behind a complete
  cycle; the provider's disruptions arrive.
- *Commerce bridge*: one outcome per command, told once, and true; a sealed world has its receipt; what was
  acknowledged is settled and reported.
- *Participation*: never more participants than places; what Odoo has begun is answered, or shows as a failed job.
- *Live map*: what a browser shows is what the feed had at the browser's cursor; a display that counts
  as live is connected and complete; a frozen one thaws.

The hazards the properties are aimed at are listed, line by line, in `PROJECT.json`.

## Modules

| Module | Models | Used by |
| --- | --- | --- |
| `RegionalCycle` | coordinator, monitor, health check, fence, shutdown | `RegionalCycleProofs`, `MCRegionalCycle` |
| `RegionalWriter` | worker, rows, ledger and trigger, the world's registry entry as far as the worker sees it | `RegionalWriterProofs`, `MCRegionalWriter` |
| `CommandLog` | what the writer promises: one growing log per region and a view of prefixes | `RegionalWriter` (`INSTANCE`), `RegionalWriterRefinement` |
| `RegionalAdvance` | scheduler, catalog of scheduled commands and manual disruptions; client of the writer's contract | `RegionalAdvanceProofs`, `MCRegionalAdvance` |
| `ProviderDisruption` | provider cycle, consumer, monitor; client of the writer's contract | `ProviderDisruptionProofs`, `MCProviderDisruption` |
| `OdooCommands` | receiver, queue, workers, handlers as far as they can be interrupted, outbox, fence | `OdooCommandsProofs`, `MCOdooCommands` |
| `WorldParticipation` | Odoo's record and jobs, the Game's handler, with the queue of `OdooCommands` reduced to one worker | `WorldParticipationProofs`, `MCWorldParticipation` |
| `LivemapFeed` | feed, registry entry, SSE transport of one connection | `LivemapConnection` |
| `LivemapConnection` | browser connection, composed with `LivemapFeed` | `LivemapConnectionProofs`, `MCLivemapConnection` |

**RegionalCycle.** Clock readings enter the code only as differences that are compared with the stall
limit (two intervals), so the model keeps *ages*, saturated one above the limit. `cycle` is the
coordinator's `#active`; `"hung"` is an active cycle whose promise never settles. `dog` is the armed
watchdog. `running`, `sinceProgress`, `sinceSuccess` and `failures` are the monitor's snapshot,
`HealthCode` the health check with its early returns. `Beat` is the interval callback (start or
skip); `Complete` and `Fail` include the `finally` clause and, for `Complete`, the fence. `Tick`
passes time only when no timer is due.

**RegionalWriter.** A *head* stands for the stored simulation state: its revision (which equals the
publisher's and the commit's sequence), its time, and per command the revision at which it took effect.
A *task* is a call of the worker, suspended at one await at a time (`pc`); each action is one turn of
the event loop or one transaction:

| `pc` | Code the task is suspended in | Actions |
| --- | --- | --- |
| `row` | `#loadRegionRow` | `LoadRow` |
| `receipts` | `#loadDurableCommandReceipts`, then the native call | `LoadReceipts` |
| `commit` | the short transaction | `CommitConflict`, `CommitReplay`, `CommitWrite` |
| `fanout` | behind the transaction | `FanoutReleased`, `FanoutConfirm`, `FanoutDelta`, `FanoutRebuild`, `FanoutFails` |
| `rebuildRead`, `rebuildInit`, `rebuildOps` | `#rebuildWorldFeed` | `RebuildRead`, `RebuildInit`, `RebuildDone` |
| `recovered` | `recover` behind its rebuild | `RecoverDone` |
| `restoreRead`, `restoreInit`, `restoreOps` | `restore` | `RestoreRead`, `RestoreInit`, `RestoreDone` |
| `initTx`, `initFanout` | `initialize` | `InitializeTx`, `InitializeFanout` |

`apply` and `applyBatch` share these steps: a call is a sequence of commands. `Captured` and
`LedgerAccepts` are the database trigger that copies the head's bounded receipt window into the
ledger and refuses a write that does not agree with it. `NativeHead` is the contract of the native
batch call. `ForeignCommit` is the police call. `DatabaseFails` is an await on the database that throws, at any of these points: a call
passes the error on, a rebuild or restore runs into its catch, and a transaction that is rejected may have committed, its
answer being lost. `Crash` loses everything but the tables. A deployment
binding that does not match, and a payload that differs for the same command id, are refused before any
state changes and are left out: a command id stands for one payload.

**CommandLog.** Regions come into being, logs grow by commands that are not in them yet, times never run
behind any region of the world, and the view changes to prefixes of the logs. Calls, revisions, receipts,
retries and rebuilds do not exist at this level. The refinement mapping (end of `RegionalWriter`) reads the
log off the head: `History` lists, for each revision, the command that took effect at it; the view is the history of the
frames on the feed. `ImplementsCommandLog` is the abstract specification as a property.

**RegionalAdvance.** One beat is `StartCycle` (which includes `refresh` of the catalog), then per region
`BeginRegion`, `Enqueue` and `Flush` until the target, then `EndCycle`. A *boundary* is a time with what is
due at it: movement continuations (`queue`) before the advance, everything else behind it; it is
indivisible. `BoundaryTimes` are scheduled times, absolute checkpoints and the target. `Enqueue` is
`enqueueBoundary` with its three outcomes: the pending batch goes out first, the boundary joins it, or the
region is given up. The worker is the contract `RegionalWriter` has been proved to keep: a command takes
effect at most once (`Fresh`), a commit behind the latest region of the world is refused (`WorkerAccepts`).
`Order` is `schedule()` of the catalog up to its transaction; its `t` is the time at which the request came
in, since it may have waited for its turn. `RegionFails`, `FlushThrowsLate` and `Crash` are the faults; `calm` records which
regions have stopped failing and exists for the liveness property only. `Base` is the schedule of the deployment together
with the daily restrictions (`daily-restriction-catalog.ts`), and a constant, although that catalog is refreshed in each beat: a
policy is only published for a time in the future (`disruption-policy-admin.ts:49`), ids contain its version, earlier days keep the policy they
had, and a beat asks for times up to its target only. `Base` is thus the schedule in hindsight. What this leaves out is a
publication that takes so long from its reading of the clock to its commit that a region passes the effective time in between.

**ProviderDisruption.** A *disruption* is the key of a registration, a *hash* the content of a snapshot. `pc`
is the await the cycle is suspended at; `clears` and `activates` are what is left of the consumer's two
loops. `Apply`, `Replay` and `Refused` are the outcomes of a worker call whose id is new, known with the same
payload, or known with another one; ids are built as in the code (a clear from the registered hash, an
activation from the new one). `AwaitFails`, `ApplyThrowsLate`, `PersistFailureFails` and `Crash` interrupt every step.
The input is free: `Publish` may bring another snapshot and `Trains` another set of matched disruptions for a world at any time,
also between a cycle that failed and its repetition, and a disruption may come back under the same snapshot. In the code
it normally does differ: the snapshot's hash covers its revision, its times and a rolling horizon. Two history variables say what
this does: `sent` has the commands a world was sent since its register was last written, `astray` the worlds in which a
repetition no longer asks for such a command (`LosesTrack`), or a call was answered from the receipt of a reconciliation that is
over (`Replay` of a command that is not in `sent`).

**OdooCommands.** A worker's record is the local state of one call of `processNextOdooCommand`; every other variable
is in PostgreSQL. `Claim` takes the oldest row that is pending or whose lease has run out, `Prepare`
persists the admin request, `BeginHandler` and `Heartbeat` renew the lease, and `Settle`, `Seal`, `Reject`
and the two releases each check the claim inside their transaction. `PrepareFails` and `BeginHandlerFails` are database errors in
front of the handler. An attempt that fails before it has read its request does not know it (`bound`): the catch then
neither recognizes a half-built world nor updates the request, and the row is rejected; `blind` is a history variable with the
commands this happened to. A handler is reduced to the points
between which it can be interrupted: its own commit, and for a deployment the creation of the world as
provisioning and its activation. `Fenced` is the database trigger that refuses every write to a row of the archived
world. A request that is accepted or completed is one state, because nothing in the queue tells them apart.
Historical demand data whose payload is damaged, which is rejected without a result, is left out.

**WorldParticipation.** A payment key is a customer, the number of the payment and the action. Jobs carry only
customer and action: `_dispatch` builds the command when the job runs, from the record as it is then.
`JobFails` is a request or an answer that is lost: the error is none that queue_job retries, and the job joins the `failed`
ones, as it does when the Game refuses it (`RunJobRefused`, a second delivery under a known event id). `Requeue` is an operator who
has a failed job run again. `ReversePayment` may happen any number of times, as the credit note's hooks do. `Overtaking` says whether queue_job may run a job before
an older one. `Deliver` has the guard of `apply_game_result`. `grants` is a history variable. The action
`cancel` has no caller in the add-on and is left out.

**LivemapFeed.** `entry` is the registry's entry of the world, `stream`/`sequence`/`history` the feed.
The public state is reduced to the commit of the operational frame and one public-operation marker.
`Enqueue` and `Drain` are the transport's queue with the socket's back-pressure; `Invalidate` sends
reset and ends the response. `log` is a history variable: what the feed held after each sequence of
each stream. World time is left out (the feed's clock is part of `RegionalWriter`).

**LivemapConnection.** `sync` is the await at which the synchronization promise is suspended, including
the two microtasks in which it settles; `buffering`, `pending`, `pendingReset`, `overflow` and `again`
are the fields of the class. `frozen` is what the page shows: `onFreeze` since the last change.
`EagerReads` says whether the body stream may hand out another chunk between two microtasks.

Each module also defines a few faulty variants of its actions, marked as such and used by no
specification; replacing the action they are named after violates a property.

## Runs and bounds

| Run | Configuration | Result | Distinct states |
| --- | --- | --- | --- |
| `cycle` | `MCRegionalCycle.cfg` | holds | 4,898 |
| `writer` | `MCRegionalWriter.cfg` | holds | 126,968 |
| `livemap_connection` | `MCLivemapConnection.cfg` | holds | 2.7 million |
| `livemap_thaws` | `MCLivemapConnectionThaws.cfg` | holds | 75,983 |
| `advance` | `MCRegionalAdvance.cfg` | holds | 53,756 |
| `provider` | `MCProviderDisruption.cfg` | holds | 192,780 |
| `provider_stuck` | `MCProviderDisruptionStuck.cfg` | violated, see below | – |
| `commands` | `MCOdooCommands.cfg` | holds | 277,204 |
| `commands_world` | `MCOdooCommandsWorld.cfg` | holds | 2.7 million |
| `commands_closing` | `MCOdooCommandsClosing.cfg` | violated, see below | – |
| `participation` | `MCWorldParticipation.cfg` | holds | 82,790 |
| `participation_refund` | `MCWorldParticipationRefund.cfg` | violated, see below | – |

The other configurations each hold one counterexample that is described under
[Where code and comments disagree](#where-code-and-comments-disagree); each is run by hand with its MC module.

**cycle.** `Interval = 2`: the stall limit is four ticks, so beats fall before, at and after it. Ages and
failures saturate where the code stops telling them apart; time itself is unbounded. Deadlock is
checked. The coordinator and the monitor agree (`MonitorFollowsCoordinator`), the fence opens only behind
a catch-up (`FenceBehindCatchUp`), the log precedes health (`HealthStallWasLogged`), progress keeps the
watchdog quiet (`NoFalseStall`), shutdown leaves no cycle (`NoCycleAfterClose`), and a hung cycle is
reported for ever (`HungCycleIsReported`).

**writer.** One region, two tasks, three commands: `c1` advances within the second of
the genesis, `c2` into the next one, `c3` has no time. Jobs are `<<c1>>`, `<<c3>>` and the batch
`<<c3, c2>>`; `Window = 2` is shorter than the three commands, so a retry outlives its receipt. No
counter needs a bound: each command takes effect at most once, which is the property itself, and a
fault that applies one twice shows before the state space grows. Two tasks suffice for every race of a
call with another call, a rebuild, a restore or a foreign commit; crash, expiry, release and an error of the database may come at
every step. A released world ends, so deadlock is not checked. Safety, the refinement and `RegionRecovers` are
checked together; with two regions the refinement is proved, and `RegionRecovers` does not hold (2 below).

**livemap_connection.** Ring buffer, queue and pending buffer of length 1, two streams, three deltas per
stream, two commits: each limit is exceeded by the next delta, a cursor may belong to the older stream
and still be a valid number of the newer one, and a snapshot may lie before, at and beyond every
buffered delta. `MaxStreams` and `MaxSequence` are bounds of the model only; actions that lose a feed leave
room for the one that brings it back, so that the bound does not look like a stuck server. The liveness
runs use two deltas per stream.

**advance.** Two regions of one world, `Span = 2`, `BatchLimit = 3`, times 1 to 5: there are boundaries at the
genesis, at checkpoints, between them and at the target; the second region has a time at which the
deployment alone fills a batch, and the order of a disruption of both regions starts before it or, when it is
placed late, exactly at it and overfills it. The platform's clock stops at `MaxTime`, and an order is only placed
once, so the system may come to rest and deadlock is not checked. `OnTime`: once, at its time, never passed over. `NeverOutlivesEnd`:
nobody reads a head at the end of a disruption with the disruption still active. `WindowNeverExceeded`: the
error for a boundary beyond the span is unreachable. `CatchesUp`: a region that has stopped failing reaches the
platform's time however often the others fail, unless a region of its world is ahead of it or a time
before it is overfull; these two are the only reasons.

**provider.** Two worlds, the first without and the second with a simulation, one disruption with two effects, two
snapshots: an effect may appear, change and vanish, trains may leave and come back at any moment, and the loop may have passed
the other world or not when the cycle fails. `MaxHash` bounds the model only; one simulated world alone was also checked with three
snapshots (1.4 million states). The provider may have nothing new, so deadlock is not checked.
`RegisterIsTrue` compares register and simulation between two reconciliations, however many cycles died half way and whatever the
input did meanwhile, in every world that did not go astray: the two ways of going astray are the only ones in which the
register becomes untrue, and 4 below shows that they happen. `ClearedBeforeReplaced` says that no activation meets the
registered effect, without exception; `HealthIsHonest` ties the monitor to the rows; `ProviderArrives` is the purpose of the
whole, up to a call that is refused again and again. `provider_stuck` needs three snapshots and shows such a call.

**commands, commands_world.** `commands` has two workers, a deployment and a participation in the world it
creates: leases run out and the database may fail at every step, both workers may handle one command, and each may die. The commands
settle once, so the state space is finite by itself; deadlock is checked. `commands_world` takes one world from its
deployment to its close, with demand data, an entitlement and a historical row of another world that has been in
the queue from the start; the close is received after the demand data, whose row a dead worker may hold
beyond the seal (with free order: 5.6 million states, the same verdict). One worker suffices for what it asks, the interruption of a command and its
retry; with two, a paused worker may go on deploying a world whose command another one has rejected
(`odoo-admin-handlers.ts:297` in the hazards), so that `PartialWorldIsRetried` is claimed for one. It and the part of `ToldOnce`
that ties a row to its admin request except the commands in `blind`, for which they are false (11 below).
The liveness properties are claimed for a world that nobody closes; 5 and 8 below show why.

**participation.** Two customers and one place, one payment each, jobs in any order, reversals at any time and as often as one likes,
and one fault (a crash before or behind the commit, a lost request, a lost answer, a technical error): the place may be taken,
refunded and wanted again by a retry. One customer with two payments and two faults was also checked (405,271 states). With one payment per customer a payment key
never changes while it is in use; 6 below shows what happens with two. `EveryRequestIsAnswered` has two parts: a command that has
reached the Game is answered, also if the job behind it failed over a lost answer; and whatever else Odoo waits for stands as a
failed job of that customer in queue_job. Without the second part it is false (12 below). A world without payments is at rest, so
deadlock is not checked.

**What is shown about the live map.** The browser's state is the feed's state at the same cursor
(`ViewIsAuthoritative`, compared with the history variable `log`), a live display without anything in
transit is the feed's snapshot (`LiveViewMissesNothing`), within a stream it never goes back
(`ViewNeverGoesBack`), and it thaws (`DisplayThaws`).

## Fairness

- *Cycle*: weak fairness for the interval, the watchdog and the clock, because the event loop fires due
  timers. None for the cycle's operation: it may hang.
- *Writer*: weak fairness for the steps of a call in progress, because the database and the event loop
  answer or fail. Strong fairness for `Recover`: the scheduler's beat returns once per interval and asks for
  every registered region that is not ready, as often as the scheduler task is free. Nothing else is fair:
  calls, restores, expiry and foreign commits need not happen. `RegionRecovers` assumes that crashes and errors of the database stop.
- *Scheduler*: weak fairness for the clock and for an order in progress, which is saved or fails. Strong
  fairness for the beat: the interval fires again and again, and orders, which exclude it, are finite calls. Faults need not stop;
  `CatchesUp` speaks of the regions for which they have.
- *Provider*: weak fairness for the cycle, because the interval fires and every await settles. `ProviderArrives` and
  `SnapshotIsTakenOver` assume that faults and changes of the input stop at some point.
- *Commerce*: weak fairness for each worker (its interval fires every five seconds, a cycle runs to its end), for
  the expiry of an unattended lease, and for `CalmDown`: from some point on nothing fails and Odoo answers. Heartbeats
  keep the lease of a command that is being worked on only from then on.
- *Participation*: weak fairness for queue_job, which runs each job once with whatever success (nobody has to requeue a failed
  one), the worker, the expiry of leases, and for each delivery whose
  result Odoo can accept. The number of faults is bounded, so nothing else has to stop.
- *Live map*: weak fairness for the server's answers, the delivery of what was written, the browser's
  turns and timers, the draining of the socket, and the writer's re-initialization of a lost feed, which is what
  `RegionRecovers` provides for one region. `DisplayThaws` assumes that losses (broken connections, lost
  answers, expiry, restarts, invalidations) stop at some point.

## Proofs

TLAPS proves the following for every value of the constants that satisfies the named assumption of the
module; the runs check the same formulas on small instances. Each inductive invariant was model-checked on the
instance of its run before it was proved.

| Module | Theorems | Invariant |
| --- | --- | --- |
| `RegionalCycleProofs` | every safety property of the run `cycle` | `CycleInv` |
| `RegionalWriterProofs` | `TypeOK`, `ExactlyOnce`, `TriggerNeverRaises`, `FeedShowsCommitted`, `ReleasedWorldGone`, `DeltaContinuesFrame` | `WriterInv` |
| `RegionalWriterRefinement` | `ImplementsCommandLog` | `WriterInv`, `NothingWithoutCommand` |
| `RegionalAdvanceProofs` | `TypeOK`, `OnTime`, `NeverOutlivesEnd`, `WindowNeverExceeded` | `AdvanceInv`, `SizeInv` |
| `ProviderDisruptionProofs` | `TypeOK`, `HealthIsHonest`, `RegisterIsTrue`, `ClearedBeforeReplaced` | `TypeInv`, `HealthInv`, `RegisterInv`, `ClearedInv` |
| `OdooCommandsProofs` | `TypeOK`, `ToldOnce`, `AcceptedMeansApplied`, `SealedWithReceipt`; with one worker `PartialWorldIsRetried` | `QueueInv`, `PartialInv` |
| `WorldParticipationProofs` | `TypeOK`, `CapacityRespected` | `ParticipationInv` |
| `LivemapConnectionProofs` | `TypeOK`, `ViewIsAuthoritative`, `LiveViewMissesNothing`, `ViewNeverGoesBack` | `ConnectionInv` |

**RegionalCycleProofs.** For every interval, type correctness and every other safety property of the
run: `MonitorFollowsCoordinator`, `FenceBehindCatchUp`, `HealthStallWasLogged`, `NoFalseStall` and
`NoCycleAfterClose`. The safety properties are not inductive: that health's stall was logged follows
from an invariant tying two timers together. `CycleInv` says that while a cycle is not flagged, the
remaining delay of the watchdog and the age of the last progress add up to the stall limit, that the
monitor's flag is the coordinator's, and that the fence is open exactly if there was a success.
The only assumption is that the interval is a positive number.

**RegionalWriterProofs.** For any set of regions, any finite set of commands, any set of tasks and jobs, any times and
any window, from `WriterAssumption`: a batch names a command at most once and is not longer than the window (in the code at
most 256 commands and 4,096 receipts). The argument:

1. `NativeStep`: a native call extends a *sound* history (each effective command at a revision of its own,
   as many as there are revisions) to a sound history of which the old one is a prefix, and everything it
   applied is in the window. It rests on `RankFacts`: the fresh commands of a batch have different ranks.
2. `CaptureExact`: if the ledger is the history of the head, then after the trigger it is the history of the
   written head, and the trigger has nothing to refuse, even for commands long out of the window.
3. `WriterInv`: the ledger equals the history of the head; every frame on the feed and everything a suspended
   call has read or committed (base, result, rows) is an *ancestor* of the head; a result that waits for its
   commit is a native step from its base. It is needed because a call computes on a head that others replace
   meanwhile: `Ancestor` is transitive, which carries the suspended calls over other calls' commits.
4. The step lemmas (`DatabaseStep`, `TypeStep`, `CallsStep`, `FeedStep`) show one part of `WriterInv` each,
   action by action; `WriterInductive` combines them, and `RevisionsUsed` derives from soundness that the
   revisions in use are exactly 1 to the head's.
5. `DeltasContinue` is an action property. `FanoutEnds` finds out which turn may end a fan-out with a new frame: the
   one that publishes a result of the revision after the frame's. Both are ancestors of one head, and two
   ancestors of one head are ordered by their revisions (`AncestorsOrdered`).
6. `ReleaseIsFinal` needs no history, only that every step behind an await looks at the release again.

**RegionalWriterRefinement** proves `WriterImplementsLog`: the writer's specification implies `ImplementsCommandLog`, under the same
assumption. The initial states map to initial states. For the steps, `HistoryFacts` turns a sound head into
a sequence without repetitions whose length is the revision, and `AncestorHistory` turns the ancestor
relation of `WriterInv` into the prefix relation on such sequences. A commit extends one log because its result is
a native step from a base that is still the head; every other action leaves the logs alone, and the feed changes only to
frames that `WriterInv` knows to be ancestors of the heads. The proof needs one more invariant than the
safety theorems: a result that waits for its commit with the revision of its base is that base
(`NothingWithoutCommand`), so that no commit changes the time without a command.

**RegionalAdvanceProofs.** For any regions and worlds, any deployment and orders, any batch limit and span. Of the
deployment `AdvanceAssumption` demands that nothing is scheduled before the genesis, that finitely many
commands share a time, and that a command id has one time: the ids built in `world-deployment-runtime.ts` contain
the deployment, the region and the departure. The argument:

1. `OnTime` is not inductive: it says nothing about the commands of the batch in hand. `DoneInv` adds that every
   effect belongs to a scheduled command, and that what is due at the very time of a head has taken effect as well
   (`Overdue`), except for a disruption that was ordered for exactly that time.
2. `BatchInv`: the batch in hand is either what stands at the head (`StandingBatch`) or it leads on from it
   (`LeadingBatch`): its boundaries rise, hold exactly what is due at their times, and no scheduled time up to the cursor lies
   between them. The last part is kept by `Enqueue` because it takes the least boundary (`NextBoundary`).
3. `LoadedInv`: a plan the refresh has left out is over in all its regions, so that the batch, which is built from the loaded
   plans, misses nothing that is persisted (`LoadedCovers`). `OrderInv`: while an order is in progress no beat runs and no head passes
   its start, so that a new plan brings nothing that should have happened already (`SavePlanStep`).
4. A commit (`CommitDone`): each fresh effect is punctual, no command is in a batch twice, and everything scheduled up
   to where the batch ends has taken effect (`CommitCovers`).
5. `WindowHolds` rests on `NextCheckpoint`: a multiple of the span lies within any span. `AdvanceTypeCorrect` contains
   the limit of a batch; `Sum` and the lemmas about `Sums` show that the recursive `BatchSize` grows by the
   size of what is appended. They use the well-foundedness of the numbers instead of an induction scheme.

**ProviderDisruptionProofs.** For any worlds, disruptions, effects and number of snapshots, and for an input that changes at
any time. `RegisterInv` is the argument for the repetition of a cycle that died half way, in a world that did not go astray: the
simulation is the register plus the commands in `sent`, which are clears of registered effects and, behind them, activations
(`InStep`); and while a cycle works on the world everything in `sent` is still asked for, and everything asked for is in `sent` or
still to be called (`OnCourse`). Going astray is exactly what breaks the second part. `ClearedInv` carries `ClearedBeforeReplaced`
through worlds that did go astray: snapshots are taken over in the order of their publication (`Dated`), the clear of a
registered effect for a later snapshot has removed it for good (`Removed`), and a pending activation has its clear behind it
(`ClearsMade`).

**OdooCommandsProofs.** For any commands of any kinds, any number of workers and any arrival order. `QueueInv` ties
the rows of a command together (`Rows`) and says what a worker knows at each step of its attempt (`Attempt`), which
holds although its claim may be lost and the database may fail at every step: a settling transaction checks the claim again, and what it writes comes
from an attempt whose handler has taken effect; a handler only runs in an attempt that knows its request (`bound`), so that only an
attempt which failed before can reject a row without it. `PartialWorldRetried` has the hypothesis that there is one worker; with two
it is false (see the run `commands_world`). `PartialInv` then says that the worker holds the claim of what it works on.

**WorldParticipationProofs.** For any finite set of customers, any capacity, number of payments and faults, and jobs in any
order that may fail and be requeued. That the handler counts the active participations inside its transaction makes `CapacityRespected`
inductive together with the types; the rest of `ParticipationInv` is what the types need: jobs belong to a record that is
bound to a payment, and the worker has the result of the one command it works on (`WorkInv`).

**LivemapConnectionProofs.** For any lengths of the ring buffer, the route's queue and the client's pending buffer, any commits
and any number of streams and deltas. `FeedAssumption` and `ConnectionAssumption` demand that the lengths are positive and that
"no state" is not a state. The argument:

1. Everything that is a delta somewhere (`history`, `queue`, `wire`, `pending`) is one the feed has emitted (`TrueDelta`): the
   log at its sequence is the log before it with its changes. Everything that is a state somewhere (`view`, `reply`) is one of
   the log (`TrueViews`). The log only grows (`TrueMonotone`), so steps of the feed cannot make either untrue.
2. `AppliedTrue`: a true delta that `applyDelta` accepts takes a state of the log to the next one. `DrainFacts` carries that
   through `#drainPending`. This gives `ViewIsAuthoritative`.
3. `LiveViewMissesNothing` needs to know where the deltas in between are. `ChainInv` says of a client that reads the stream it
   has requested behind its state (`Follows`, which begins when the route serves the request, before the client hears of it):
   as long as the transport is attached, what is pending and what is on its way (`Flight`) are the next deltas in order
   and end at the end of the log; once it is not, the last event written is the end of the response. A step of the feed
   keeps the flight and adds what the log gets, or ends the transport (`FeedLeavesClient`); a replay starts the chain
   because the ring buffer is a suffix of the log and `deltasAfter` returns exactly what is behind the cursor
   (`DeltasAfterFacts`); `Resume` applies what is pending and keeps the chain only if nothing was lost.
4. `ViewNeverGoesBack` needs `ReplyInv`: a snapshot that waits to be taken over is not older than the client's state.
   It holds because a client that waits for a snapshot buffers and does not apply.

The filter of `deltasAfter` and the loop of `#drainPending` are recursive functions. The lemmas about them (`DrainedExists`,
`FilteredExists`, `UpTo`) again use the well-foundedness of the numbers.

Only model-checked: all liveness (`HungCycleIsReported`, `RegionRecovers`, `DisplayThaws`, `CatchesUp`,
`ProviderArrives`, `EventuallySettled`, `ResultsArrive`, `EveryRequestIsAnswered`), which is out of the
prover's reach.

## Where code and comments disagree

Three of these are runs. The others are kept as configurations beside them; they are named in parentheses.

*The single writer and the live map*

1. **Overlapping rebuilds** (`MCRegionalWriterStale.cfg`, `regional-simulation-worker.ts:650`). A rebuild reads the rows,
   awaits, and publishes. If a second rebuild starts and ends in between, with a foreign commit between the two
   reads, the first one puts the older frame onto the feed that is already open again. The comment at line 1303
   promises the *final* persisted head. The next commit of the region notices the unknown base and rebuilds.
2. **Recovery of several regions** (`MCRegionalWriterTwo.cfg`, `packages/livemap/src/stream.ts:882`). A locked feed
   keeps its clock; a rebuild publishes every row from the earliest on, and the feed refuses a time before its
   clock. As long as two regions of a world are in different seconds no recovery succeeds, and each attempt
   refreshes the entry so that it does not expire. Current deployments bind one region per world; worker and
   initialization route accept several.
3. **A loss in the last microtask** (`MCLivemapConnectionStuck.cfg`, `apps/livemap/src/protocol.ts:1375`). A gap or reset
   read between the end of a synchronization and its `finally` clause relies on a promise that has done its work; the
   display stays frozen. It needs a second chunk waiting in the response body. With one chunk per task
   (`livemap_thaws`) the property holds.

*Provider disruptions* (`provider-disruption-consumer.ts`)

4. **A clear that is repeated under another snapshot** (run `provider_stuck`, line 334). The id of a clear is made of the
   old snapshot's hash, its payload of the new one's. If a cycle dies behind the clear and the provider publishes
   again, the repetition is the same id with another payload: a conflict in every later cycle, for all worlds of the loop.
   Two relatives, the two ways of going astray: when the restriction itself is gone before the repetition, nobody clears what the dead cycle
   activated (`NoPhantoms`, `MCProviderDisruptionPhantom.cfg`, line 352), and when a train comes back to a disruption
   under the same snapshot, its activation is taken for a replay and the register names a disruption the simulation does not
   have (`NoMarkersWithoutEffect`, `MCProviderDisruptionMarker.cfg`, line 348). `docs/stoerungen.md:534` excludes both: "weder Phantomstörungen
   noch wirkungslose Kartenmarker".

*The commerce bridge*

5. **A close that waits for the outbox** (run `commands_closing`, `server.ts:1025`). No world is archived while a
   projection of it is undelivered; the close is released and its error ends the cycle, the next cycle claims it
   first again, and the outbox is only served behind a drained queue.
6. **A refund under the next payment's key** (run `participation_refund`, `participation.py:120`). A refund job that runs
   after the customer's next payment carries that payment's key; the refund of the second payment is then refused as
   a repetition with another content, and the access stays.
7. **An effect reported as rejected** (`MCOdooCommandsApplied.cfg`, `store.ts:1070`). That a handler has completed is a
   local variable. If an attempt dies behind its effect and the handler of the retry fails before it recognizes it,
   the command is rejected, which the comment at line 989 excludes.
8. **A row that cannot be claimed** (`MCOdooCommandsFenced.cfg`, `store.ts:560`). A command of a world that is
   archived before its turn makes the claiming UPDATE raise, in every cycle; everything behind it waits, also an
   entitlement, which names no world.
9. **A payment that grants twice** (`MCWorldParticipationOnce.cfg`, `odoo-world-participation.ts:41`). A repetition is
   recognized by the last key of the participation only. A provisioning that died behind its commit and is
   repeated after the refund finds the refund's key and provisions again; ADR 0030 says "at most once".
10. **A result that no longer fits** (`MCWorldParticipationStuck.cfg`, `participation.py:134`). The result of a
   provisioning that was reversed meanwhile is refused at every delivery and keeps its place in the outbox.
11. **A rejection that does not know its request** (`MCOdooCommandsBlind.cfg`, `store.ts:713`). If the database fails at the first read
   of an attempt, the catch has no request id. On the retry of a deployment it then does not ask whether a partial world
   exists (line 1009) and rejects the row (line 1175): a provisioning world stays behind a rejected deployment, and an
   admin request stays approved or dispatched beside its rejected command.
12. **A request that nobody repeats** (`MCWorldParticipationWaits.cfg`, `services.py:131`). A job whose request is lost has failed; only an operator brings
   it back (`docs/odoo-betrieb.md:359`). And a refund that was rejected, because it overtook the provisioning, is begun again when the credit note's
   hook runs once more (`account_move.py:217`), under its old event id, which the Game refuses: the record stays `refund_pending`.

Stated as exceptions of `CatchesUp` rather than as runs: nothing bounds the number of orders that share a boundary
(`regional-simulation-scheduler.ts:335`), and a region more than a span behind another one of its world is refused at
every commit. Observed while reading, without a model: `releaseWorld` of the registry does not reset the subscribers of the
entry it removes.

## Not modelled

- The simulated railway, demand, fares and dialogue: deterministic, sequential reducers in Rust. The models
  use their contract with the writer (receipts, revision, time).
- Wire formats, hashes and signatures: `stateHash` is taken to be injective; a malformed event or row, which the
  code refuses, is left out. So is a chunk that was read from the old stream just before it was aborted.
- Several worlds competing for registry entries, several connections of one feed (they share no state but the
  feed), metrics, logs.
- Frontends, import tools, audits, tiles, art, CI: no shared state that several actors change. They make up
  most of the repository's lines (the germany import, the tile and evidence tools and the operations
  contracts alone are larger than the game server), so the models cover a small share of all lines, though most of the
  concurrent core of game-api.
- Demand progress, conductor, planning, economy, cooperation, mailbox, identity, infrastructure packages: one
  transaction per operation, or pure functions; `PROJECT.json` gives the reason for each.
- Of the commerce bridge: reconciliation snapshots, capability projections, invitations, the reduction of
  entitlement revisions. Of the catalog: the native preview and the validation of targets, whose failure is
  `OrderFails`. Of a deployment: everything but the points at which it can be interrupted. Of the participation: a paid hook
  that fires again for an invoice whose successor has been paid meanwhile.

## Plan

In this order; each item says what would be added.

1. **Planning worker**: late results never replace newer revisions.
2. **Economy outbox and settlement**: postings exactly once under retries.
3. **Infrastructure packages**: staged activation against interruption.
4. **Track reservations** of `zugfolge-conflict`: conflict detection against a reference definition.
