---------------------------- MODULE RegionalWriter ----------------------------
(***************************************************************************)
(* The persistent regional single writer of one world:                     *)
(* RegionalSimulationWorker of game-api between the PostgreSQL tables       *)
(* regional_simulation_states / regional_simulation_command_receipts and    *)
(* the in-process live map feed.                                           *)
(*                                                                         *)
(* Calls of the worker (the scheduler's batches, HTTP routes, the           *)
(* disruption consumer) are tasks that interleave at every await. A task    *)
(* reads the persisted head without a transaction, lets the native runtime  *)
(* compute on it, commits by compare-and-set under the row locks, and only  *)
(* then publishes. The database outlives a crash, everything else does not; *)
(* every await on it may fail, a commit also after it took effect.          *)
(*                                                                         *)
(* A head stands for the stored simulation state. What the worker and the  *)
(* feed tell apart of it is its revision (= publisher sequence = commit     *)
(* sequence), the simulation time, and the history: the revision at which  *)
(* each command took effect, 0 for never. stateHash is injective in it.    *)
(***************************************************************************)
EXTENDS Naturals, FiniteSets, Sequences

CONSTANTS
    Regions,        \* regions of the world
    Commands,       \* command ids, each with one payload
    Jobs,           \* calls of apply / applyBatch: [region, cmds]
    Tasks,          \* concurrent calls in this process
    Scheduler,      \* the task of the scheduler's beat, which alone asks for recovery
    At,             \* At[c]: the advance-to time of command c in ms, 0 if it has none
    Genesis,        \* Genesis[r]: the simulation time a region is initialized with
    Window,         \* OPERATIONAL_COMMAND_RECEIPT_LIMIT: receipts kept in a head
    NoHead          \* no row, no frame, no published hash

Heads == [rev: Nat, applied: [Commands -> Nat], now: Nat]

ASSUME WriterAssumption ==
    /\ IsFiniteSet(Commands)
    /\ At \in [Commands -> Nat]
    /\ Genesis \in [Regions -> Nat]
    /\ Jobs # {}
    /\ Jobs \subseteq [region: Regions, cmds: Seq(Commands)]
    /\ \A j \in Jobs : \A i, k \in DOMAIN j.cmds : j.cmds[i] = j.cmds[k] => i = k
    /\ Scheduler \in Tasks
    /\ Window \in Nat
    /\ \A j \in Jobs : Len(j.cmds) \in 1 .. Window
    /\ NoHead \notin Heads

VARIABLES
    \* PostgreSQL.
    head,           \* regional_simulation_states, per region
    ledger,         \* regional_simulation_command_receipts: applied_revision, 0 if absent
    \* The worker's process-local maps.
    ready,          \* keys of #readyRegions
    published,      \* #publishedStateHashes (the head the hash stands for)
    expected,       \* keys of #expectedInitializationHashes
    released,       \* the world is in #releasedWorldIds
    \* The world's entry of the LivemapRegistry.
    feed,           \* "absent", "locked" (not initialized), "live"
    shown,          \* per region the operational frame the feed holds
    feedAt,         \* #at of the feed, in world seconds
    \* The running calls.
    pc,             \* the await a task is suspended at, "idle" if it does not run
    job,            \* the call's work
    base,           \* the head it read first
    result,         \* the native result
    rows            \* the rows a rebuild or restore read

database == <<head, ledger>>
worker == <<ready, published, expected, released>>
livemap == <<feed, shown, feedAt>>
calls == <<job, base, result, rows>>
vars == <<head, ledger, ready, published, expected, released, feed, shown, feedAt,
          pc, job, base, result, rows>>

Stages == {"idle", "row", "receipts", "commit", "fanout",
           "rebuildRead", "rebuildInit", "rebuildOps", "recovered",
           "restoreRead", "restoreInit", "restoreOps", "initTx", "initFanout"}

NoJob == CHOOSE j \in Jobs : TRUE
NoHeads == [r \in Regions |-> NoHead]
NoReceipts == [c \in Commands |-> 0]

\* Every variable has its type, and a call that has passed a read holds what it read:
\* neither the compare-and-set nor the fan-out ever works on a value that is not there.
TypeOK ==
    /\ head \in [Regions -> Heads \cup {NoHead}]
    /\ ledger \in [Regions -> [Commands -> Nat]]
    /\ ready \subseteq Regions
    /\ published \in [Regions -> Heads \cup {NoHead}]
    /\ expected \subseteq Regions
    /\ released \in BOOLEAN
    /\ feed \in {"absent", "locked", "live"}
    /\ shown \in [Regions -> Heads \cup {NoHead}]
    /\ feedAt \in Nat
    /\ pc \in [Tasks -> Stages]
    /\ job \in [Tasks -> [region: Regions, cmds: Seq(Commands)]]
    /\ base \in [Tasks -> Heads \cup {NoHead}]
    /\ result \in [Tasks -> Heads \cup {NoHead}]
    /\ rows \in [Tasks -> [Regions -> Heads \cup {NoHead}]]
    /\ \A t \in Tasks :
         /\ pc[t] \in {"receipts", "commit"} => base[t] \in Heads
         /\ pc[t] \in {"commit", "fanout", "initTx", "initFanout"} => result[t] \in Heads

Init ==
    /\ head = NoHeads
    /\ ledger = [r \in Regions |-> NoReceipts]
    /\ ready = {}
    /\ published = NoHeads
    /\ expected = {}
    /\ released = FALSE
    /\ feed = "absent"
    /\ shown = NoHeads
    /\ feedAt = 0
    /\ pc = [t \in Tasks |-> "idle"]
    /\ job = [t \in Tasks |-> NoJob]
    /\ base = [t \in Tasks |-> NoHead]
    /\ result = [t \in Tasks |-> NoHead]
    /\ rows = [t \in Tasks |-> NoHeads]

-----------------------------------------------------------------------------
(* Heads, receipts and the native runtime. *)

Persisted == {r \in Regions : head[r] # NoHead}

\* max(nowMs) over the persisted regions; a commit may not lie before it.
NotBeforeWorld(ms) == \A r \in Persisted : ms >= head[r].now

GenesisHead(r) == [rev |-> 0, applied |-> NoReceipts, now |-> Genesis[r]]

\* The bounded receipt window a head carries: its newest Window receipts.
InWindow(h, c) == h.applied[c] > 0 /\ h.applied[c] + Window > h.rev

\* Math.floor(atMs / 1000) of the live map projection.
Second(ms) == ms \div 1000

Members(cmds) == {cmds[i] : i \in DOMAIN cmds}

PositionIn(cmds, c) == CHOOSE i \in DOMAIN cmds : cmds[i] = c

\* The native runtime refuses an advance-to behind the simulation time, and with it the batch.
NativeAccepts(h, cmds, fresh) ==
    \A c \in fresh : At[c] > 0 =>
        /\ At[c] >= h.now
        /\ \A d \in fresh : PositionIn(cmds, d) < PositionIn(cmds, c) => At[d] <= At[c]

\* The simulation time the native runtime reaches: the latest advance-to.
Latest(h, fresh) ==
    {n \in {h.now} \cup {At[c] : c \in fresh} : h.now <= n /\ \A c \in fresh : At[c] <= n}

\* The rank of c among the fresh commands of a batch.
Rank(cmds, fresh, c) == Cardinality({d \in fresh : PositionIn(cmds, d) <= PositionIn(cmds, c)})

\* The head the native runtime computes: every fresh command takes effect in the order
\* of the batch, one revision each, and the simulation time becomes n.
NativeHead(h, cmds, fresh, n) ==
    [rev     |-> h.rev + Cardinality(fresh),
     applied |-> [c \in Commands |->
                    IF c \in fresh THEN h.rev + Rank(cmds, fresh, c) ELSE h.applied[c]],
     now     |-> n]

\* zugfolge_capture_operational_command_receipts: the receipts of the written head's
\* window join the ledger (ON CONFLICT DO NOTHING) ...
Captured(r, h) ==
    [c \in Commands |-> IF ledger[r][c] = 0 /\ InWindow(h, c) THEN h.applied[c] ELSE ledger[r][c]]

\* ... and the write is refused unless they agree with it and it is complete.
LedgerAccepts(r, h) ==
    /\ \A c \in Commands : InWindow(h, c) => Captured(r, h)[c] = h.applied[c]
    /\ Cardinality({c \in Commands : Captured(r, h)[c] # 0}) = h.rev

-----------------------------------------------------------------------------
(* Steps shared by the calls. *)

Region(t) == job[t].region

Suspend(t, stage) == pc' = [pc EXCEPT ![t] = stage]

\* The call returns or throws; its locals are gone.
Return(t) ==
    /\ Suspend(t, "idle")
    /\ job' = [job EXCEPT ![t] = NoJob]
    /\ base' = [base EXCEPT ![t] = NoHead]
    /\ result' = [result EXCEPT ![t] = NoHead]
    /\ rows' = [rows EXCEPT ![t] = NoHeads]

MarkReady(r, h) ==
    /\ ready' = ready \cup {r}
    /\ published' = [published EXCEPT ![r] = h]

ClearWorldReady == ready' = {} /\ published' = NoHeads

DropFeed == feed' = "absent" /\ shown' = NoHeads /\ feedAt' = 0

\* markUnavailable locks the feed and resets its transports; its frames stay behind.
MarkUnavailable ==
    /\ feed' = IF feed = "live" THEN "locked" ELSE feed
    /\ UNCHANGED <<shown, feedAt>>

\* Mutant: a released world is only locked, like any other.
LockReleasedWorld == MarkUnavailable

MarkLivemapUnavailable == IF released THEN DropFeed ELSE MarkUnavailable

\* A call that fails after its commit: only this region loses its readiness.
FailRegion(t) ==
    /\ ready' = ready \ {Region(t)}
    /\ MarkLivemapUnavailable
    /\ Return(t)
    /\ UNCHANGED <<head, ledger, published, expected, released>>

\* A failed rebuild takes the whole world out of service.
FailWorld(t) ==
    /\ ClearWorldReady
    /\ MarkLivemapUnavailable
    /\ Return(t)
    /\ UNCHANGED <<head, ledger, expected, released>>

\* The synchronous start of #rebuildWorldFeed in a world that is not released.
BeginRebuild(t) ==
    /\ ClearWorldReady
    /\ MarkUnavailable
    /\ Suspend(t, "rebuildRead")

-----------------------------------------------------------------------------
(* apply and applyBatch. *)

\* The call is made while its region is ready.
Call(t, j) ==
    /\ pc[t] = "idle"
    /\ j.region \in ready
    /\ job' = [job EXCEPT ![t] = j]
    /\ Suspend(t, "row")
    /\ UNCHANGED <<database, worker, livemap, base, result, rows>>

\* #loadRegionRow; a released world has lost its initialization binding and fails here.
LoadRow(t) ==
    /\ pc[t] = "row"
    /\ IF Region(t) \in expected /\ head[Region(t)] # NoHead
       THEN /\ base' = [base EXCEPT ![t] = head[Region(t)]]
            /\ Suspend(t, "receipts")
            /\ UNCHANGED <<job, result, rows>>
       ELSE Return(t)
    /\ UNCHANGED <<database, worker, livemap>>

\* Mutant: only the bounded window of the head decides what is a replay.
LoadWindowOnly(t) ==
    LET fresh == {c \in Members(job[t].cmds) : ~InWindow(base[t], c)}
    IN  /\ pc[t] = "receipts"
        /\ IF NativeAccepts(base[t], job[t].cmds, fresh)
           THEN /\ \E n \in Latest(base[t], fresh) :
                     result' = [result EXCEPT ![t] = NativeHead(base[t], job[t].cmds, fresh, n)]
                /\ Suspend(t, "commit")
                /\ UNCHANGED <<job, base, rows>>
           ELSE Return(t)
        /\ UNCHANGED <<database, worker, livemap>>

\* Mutant: a call whose commands are all replays keeps no result.
ReplayWithoutResult(t) ==
    LET fresh == {c \in Members(job[t].cmds) : ledger[Region(t)][c] = 0}
    IN  /\ pc[t] = "receipts"
        /\ IF fresh # {}
           THEN \E n \in Latest(base[t], fresh) :
                    result' = [result EXCEPT ![t] = NativeHead(base[t], job[t].cmds, fresh, n)]
           ELSE UNCHANGED result
        /\ Suspend(t, "commit")
        /\ UNCHANGED <<database, worker, livemap, job, base, rows>>

\* #loadDurableCommandReceipts, a second read after the row: a receipt newer than the
\* row read is a conflict, a known receipt a replay; the rest goes to the native runtime.
LoadReceipts(t) ==
    LET receipts == ledger[Region(t)]
        fresh == {c \in Members(job[t].cmds) : receipts[c] = 0 /\ ~InWindow(base[t], c)}
    IN  /\ pc[t] = "receipts"
        /\ IF /\ \A c \in Members(job[t].cmds) : receipts[c] <= base[t].rev
              /\ NativeAccepts(base[t], job[t].cmds, fresh)
           THEN /\ \E n \in Latest(base[t], fresh) :
                     result' = [result EXCEPT ![t] = NativeHead(base[t], job[t].cmds, fresh, n)]
                /\ Suspend(t, "commit")
                /\ UNCHANGED <<job, base, rows>>
           ELSE Return(t)
        /\ UNCHANGED <<database, worker, livemap>>

\* The binding is still there and the locked row is the one the call started from.
Unchanged(t) == Region(t) \in expected /\ head[Region(t)] = base[t]

\* Every command was a replay.
Replayed(t) == result[t] = base[t]

\* Mutant: a lost compare-and-set does not stop the call, its result is published.
ConflictStillPublishes(t) ==
    /\ pc[t] = "commit"
    /\ ~Unchanged(t)
    /\ Suspend(t, "fanout")
    /\ UNCHANGED <<database, worker, livemap, calls>>

\* The short transaction finds the head changed, the result behind the world's time, or
\* the trigger raises: nothing is written and the call throws.
CommitConflict(t) ==
    /\ pc[t] = "commit"
    /\ ~Unchanged(t) \/ ~Replayed(t)
    /\ Unchanged(t) /\ NotBeforeWorld(result[t].now) => ~LedgerAccepts(Region(t), result[t])
    /\ Return(t)
    /\ UNCHANGED <<database, worker, livemap>>

\* The transaction only confirms the head.
CommitReplay(t) ==
    /\ pc[t] = "commit"
    /\ Unchanged(t)
    /\ Replayed(t)
    /\ Suspend(t, "fanout")
    /\ UNCHANGED <<database, worker, livemap, calls>>

\* Mutant: the head is written without the compare-and-set, past the trigger's checks.
BlindWrite(t) ==
    /\ pc[t] = "commit"
    /\ ~Replayed(t)
    /\ NotBeforeWorld(result[t].now)
    /\ head' = [head EXCEPT ![Region(t)] = result[t]]
    /\ ledger' = [ledger EXCEPT ![Region(t)] = Captured(Region(t), result[t])]
    /\ Suspend(t, "fanout")
    /\ UNCHANGED <<worker, livemap, calls>>

\* The compare-and-set writes the head and, by the trigger, the ledger.
CommitWrite(t) ==
    /\ pc[t] = "commit"
    /\ Unchanged(t)
    /\ ~Replayed(t)
    /\ NotBeforeWorld(result[t].now)
    /\ LedgerAccepts(Region(t), result[t])
    /\ head' = [head EXCEPT ![Region(t)] = result[t]]
    /\ ledger' = [ledger EXCEPT ![Region(t)] = Captured(Region(t), result[t])]
    /\ Suspend(t, "fanout")
    /\ UNCHANGED <<worker, livemap, calls>>

-----------------------------------------------------------------------------
(* The fan-out after the commit, one synchronous turn. *)

\* A delta may go out only on top of the base this process published; a batch of
\* several commits never goes out as a delta.
DeltaAllowed(t) ==
    /\ result[t].rev = base[t].rev + 1
    /\ published[Region(t)] = base[t]

\* Mutant: only the time is checked, not the commit sequence.
FrameFitsTime(r, h) ==
    /\ shown[r] # NoHead => h.now >= shown[r].now
    /\ Second(h.now) >= feedAt

\* publishOperationalRegionSnapshot and the feed's publish: gap-free and not backwards.
FrameFits(r, h) ==
    /\ shown[r] # NoHead => h.rev = shown[r].rev + 1 /\ h.now >= shown[r].now
    /\ Second(h.now) >= feedAt

FanoutReleased(t) ==
    /\ pc[t] = "fanout"
    /\ released
    /\ Return(t)
    /\ UNCHANGED <<database, worker, livemap>>

\* Nothing new to publish, and the feed already shows this head.
FanoutConfirm(t) ==
    /\ pc[t] = "fanout"
    /\ ~released
    /\ Replayed(t)
    /\ published[Region(t)] = result[t]
    /\ MarkReady(Region(t), result[t])
    /\ Return(t)
    /\ UNCHANGED <<database, expected, released, livemap>>

FanoutDelta(t) ==
    /\ pc[t] = "fanout"
    /\ ~released
    /\ ~Replayed(t)
    /\ DeltaAllowed(t)
    /\ feed = "live"
    /\ FrameFits(Region(t), result[t])
    /\ shown' = [shown EXCEPT ![Region(t)] = result[t]]
    /\ feedAt' = Second(result[t].now)
    /\ MarkReady(Region(t), result[t])
    /\ Return(t)
    /\ UNCHANGED <<database, expected, released, feed>>

\* The feed does not show the base, lost its entry, or several commits are due.
FanoutRebuild(t) ==
    /\ pc[t] = "fanout"
    /\ ~released
    /\ IF Replayed(t) THEN published[Region(t)] # result[t]
                      ELSE ~DeltaAllowed(t) \/ feed # "live"
    /\ BeginRebuild(t)
    /\ UNCHANGED <<database, expected, released, calls>>

\* The publication throws: a frame that does not fit, a projection that fails.
FanoutFails(t) ==
    /\ pc[t] = "fanout"
    /\ ~released
    /\ ~Replayed(t)
    /\ DeltaAllowed(t)
    /\ FailRegion(t)

-----------------------------------------------------------------------------
(* #rebuildWorldFeed, restore, initialize, recover. *)

RebuildRead(t) ==
    /\ pc[t] = "rebuildRead"
    /\ rows' = [rows EXCEPT ![t] = head]
    /\ Suspend(t, "rebuildInit")
    /\ UNCHANGED <<database, worker, livemap, job, base, result>>

RowsOf(t) == {r \in Regions : rows[t][r] # NoHead}

\* initializeRegion publishes the rows in the order of their times; the first may not
\* lie before the feed's time, the others follow.
RowsFit(t) == \A r \in RowsOf(t) : Second(rows[t][r].now) >= feedAt

\* All rows are bound and fit: the frames of every region go out in one turn.
RebuildInit(t) ==
    /\ pc[t] = "rebuildInit"
    /\ IF RowsOf(t) # {} /\ RowsOf(t) \subseteq expected /\ RowsFit(t)
       THEN /\ shown' = [r \in Regions |-> IF r \in RowsOf(t) THEN rows[t][r] ELSE shown[r]]
            /\ \E last \in RowsOf(t) :
                 /\ \A r \in RowsOf(t) : rows[t][r].now <= rows[t][last].now
                 /\ feedAt' = Second(rows[t][last].now)
            /\ feed' = "live"
            /\ Suspend(t, "rebuildOps")
            /\ UNCHANGED <<database, worker, calls>>
       ELSE FailWorld(t)

\* The call was made by recover, not by apply or applyBatch.
Recovering(t) == job[t].cmds = <<>>

\* #replayOperations has been awaited: every restored region becomes ready.
RebuildDone(t) ==
    /\ pc[t] = "rebuildOps"
    /\ IF released
       THEN FailWorld(t)
       ELSE /\ ready' = ready \cup RowsOf(t)
            /\ published' = [r \in Regions |-> IF r \in RowsOf(t) THEN rows[t][r] ELSE published[r]]
            /\ IF Recovering(t)
               THEN Suspend(t, "recovered") /\ UNCHANGED calls
               ELSE Return(t)
            /\ UNCHANGED <<database, expected, released, livemap>>

\* recover goes on after its rebuild: the region it was called for has to be ready still.
RecoverDone(t) ==
    /\ pc[t] = "recovered"
    /\ IF Region(t) \in ready
       THEN Return(t) /\ UNCHANGED <<database, worker, livemap>>
       ELSE FailWorld(t)

\* A region is driven by the scheduler and reached by routes after its bootstrap.
Registered(r) ==
    /\ head[r] # NoHead
    /\ \A u \in Tasks : Region(u) = r =>
         pc[u] \notin {"initTx", "initFanout", "restoreRead", "restoreInit", "restoreOps"}

\* Mutant: recovery does not register the initialization binding.
RecoverUnbound(t, r) ==
    /\ t = Scheduler
    /\ pc[t] = "idle"
    /\ Registered(r)
    /\ r \notin ready
    /\ ~released
    /\ BeginRebuild(t)
    /\ job' = [job EXCEPT ![t] = [region |-> r, cmds |-> <<>>]]
    /\ UNCHANGED <<database, expected, released, base, result, rows>>

\* recover: the scheduler meets a registered region that is not ready. The binding is
\* registered before the world is known to be released.
Recover(t, r) ==
    /\ t = Scheduler
    /\ pc[t] = "idle"
    /\ Registered(r)
    /\ r \notin ready
    /\ expected' = expected \cup {r}
    /\ IF released
       THEN UNCHANGED <<ready, published, livemap, pc, job>>
       ELSE BeginRebuild(t) /\ job' = [job EXCEPT ![t] = [region |-> r, cmds |-> <<>>]]
    /\ UNCHANGED <<database, released, base, result, rows>>

\* restore at startup: one region, its own row.
Restore(t, r) ==
    /\ pc[t] = "idle"
    /\ ~released
    /\ Registered(r)
    /\ r \notin expected
    /\ expected' = expected \cup {r}
    /\ job' = [job EXCEPT ![t] = [region |-> r, cmds |-> <<>>]]
    /\ Suspend(t, "restoreRead")
    /\ UNCHANGED <<database, ready, published, released, livemap, base, result, rows>>

RestoreRead(t) ==
    /\ pc[t] = "restoreRead"
    /\ rows' = [rows EXCEPT ![t] = [NoHeads EXCEPT ![Region(t)] = head[Region(t)]]]
    /\ Suspend(t, "restoreInit")
    /\ UNCHANGED <<database, worker, livemap, job, base, result>>

RestoreInit(t) ==
    LET row == rows[t][Region(t)] IN
    /\ pc[t] = "restoreInit"
    /\ IF ~released /\ Second(row.now) >= feedAt
       THEN /\ shown' = [shown EXCEPT ![Region(t)] = row]
            /\ feedAt' = Second(row.now)
            /\ feed' = "live"
            /\ Suspend(t, "restoreOps")
            /\ UNCHANGED <<database, worker, calls>>
       ELSE FailRegion(t)

RestoreDone(t) ==
    /\ pc[t] = "restoreOps"
    /\ IF released
       THEN FailRegion(t)
       ELSE /\ MarkReady(Region(t), rows[t][Region(t)])
            /\ Return(t)
            /\ UNCHANGED <<database, expected, released, livemap>>

\* initialize: the native runtime initializes before the transaction opens.
Initialize(t, r) ==
    /\ pc[t] = "idle"
    /\ ~released
    /\ head[r] = NoHead
    /\ job' = [job EXCEPT ![t] = [region |-> r, cmds |-> <<>>]]
    /\ result' = [result EXCEPT ![t] = GenesisHead(r)]
    /\ Suspend(t, "initTx")
    /\ UNCHANGED <<database, worker, livemap, base, rows>>

\* Mutant: the row is written without asking whether there is one.
InitializeOverwrites(t) ==
    /\ pc[t] = "initTx"
    /\ IF NotBeforeWorld(result[t].now)
       THEN /\ head' = [head EXCEPT ![Region(t)] = result[t]]
            /\ Suspend(t, "initFanout")
            /\ UNCHANGED <<ledger, calls>>
       ELSE Return(t) /\ UNCHANGED database
    /\ UNCHANGED <<worker, livemap>>

InitializeTx(t) ==
    /\ pc[t] = "initTx"
    /\ IF head[Region(t)] = NoHead /\ NotBeforeWorld(result[t].now)
       THEN /\ head' = [head EXCEPT ![Region(t)] = result[t]]
            /\ Suspend(t, "initFanout")
            /\ UNCHANGED <<ledger, calls>>
       ELSE Return(t) /\ UNCHANGED database
    /\ UNCHANGED <<worker, livemap>>

InitializeFanout(t) ==
    LET r == Region(t) IN
    /\ pc[t] = "initFanout"
    /\ expected' = expected \cup {r}
    /\ IF ~released /\ Second(result[t].now) >= feedAt
       THEN /\ shown' = [shown EXCEPT ![r] = result[t]]
            /\ feedAt' = Second(result[t].now)
            /\ feed' = "live"
            /\ MarkReady(r, result[t])
       ELSE /\ ready' = ready \ {r}
            /\ MarkLivemapUnavailable
            /\ UNCHANGED published
    /\ Return(t)
    /\ UNCHANGED <<database, released>>

-----------------------------------------------------------------------------
(* The surroundings. *)

\* A writer of the same world with a feed of its own (the conductor's police call runs
\* a worker on its own transaction, for a command without a time): the head moves, this
\* process' feed does not.
ForeignCommit(j) ==
    LET r == j.region
        fresh == Members(j.cmds)
    IN  /\ Len(j.cmds) = 1
        /\ Registered(r)
        /\ \A c \in fresh : At[c] = 0
        /\ \A c \in fresh : ledger[r][c] = 0 /\ ~InWindow(head[r], c)
        /\ NativeAccepts(head[r], j.cmds, fresh)
        /\ \E n \in Latest(head[r], fresh) :
             LET next == NativeHead(head[r], j.cmds, fresh, n) IN
             /\ NotBeforeWorld(n)
             /\ LedgerAccepts(r, next)
             /\ head' = [head EXCEPT ![r] = next]
             /\ ledger' = [ledger EXCEPT ![r] = Captured(r, next)]
        /\ UNCHANGED <<worker, livemap, pc, calls>>

\* The registry prunes an idle feed without subscribers.
Expire ==
    /\ feed # "absent"
    /\ DropFeed
    /\ UNCHANGED <<database, worker, pc, calls>>

\* releaseWorld of an archived world.
Release ==
    /\ ~released
    /\ released' = TRUE
    /\ ClearWorldReady
    /\ expected' = {}
    /\ DropFeed
    /\ UNCHANGED <<database, pc, calls>>

\* An await on the database throws. apply, applyBatch and initialize pass the error on;
\* the rejected transaction may have committed, only its answer is lost ("fanout",
\* "initFanout"). A rebuild and restore run into their catch.
DatabaseFails(t) ==
    \/ /\ pc[t] \in {"row", "receipts", "commit", "fanout", "initTx", "initFanout"}
       /\ Return(t)
       /\ UNCHANGED <<database, worker, livemap>>
    \/ pc[t] \in {"rebuildRead", "rebuildOps"} /\ FailWorld(t)
    \/ pc[t] \in {"restoreRead", "restoreOps"} /\ FailRegion(t)

\* The process dies and starts again: only the database is left.
Crash ==
    /\ ~released
    /\ ready' = {}
    /\ published' = NoHeads
    /\ expected' = {}
    /\ DropFeed
    /\ pc' = [t \in Tasks |-> "idle"]
    /\ job' = [t \in Tasks |-> NoJob]
    /\ base' = [t \in Tasks |-> NoHead]
    /\ result' = [t \in Tasks |-> NoHead]
    /\ rows' = [t \in Tasks |-> NoHeads]
    /\ UNCHANGED <<database, released>>

Step(t) ==
    \/ LoadRow(t) \/ LoadReceipts(t)
    \/ CommitConflict(t) \/ CommitReplay(t) \/ CommitWrite(t)
    \/ FanoutReleased(t) \/ FanoutConfirm(t) \/ FanoutDelta(t) \/ FanoutRebuild(t) \/ FanoutFails(t)
    \/ RebuildRead(t) \/ RebuildInit(t) \/ RebuildDone(t) \/ RecoverDone(t)
    \/ RestoreRead(t) \/ RestoreInit(t) \/ RestoreDone(t)
    \/ InitializeTx(t) \/ InitializeFanout(t)

\* Everything that happens while the process lives and the database answers.
Work ==
    \/ \E t \in Tasks : Step(t)
    \/ \E t \in Tasks, j \in Jobs : Call(t, j)
    \/ \E t \in Tasks, r \in Regions : Recover(t, r) \/ Restore(t, r) \/ Initialize(t, r)
    \/ \E j \in Jobs : ForeignCommit(j)
    \/ Expire \/ Release

Next == Work \/ Crash \/ \E t \in Tasks : DatabaseFails(t)

Spec == Init /\ [][Next]_vars

\* Fairness: calls in progress run on (the event loop turns, the database answers or fails), and
\* the scheduler's beat asks for a region that is not ready again and again.
FairSpec ==
    /\ Spec
    /\ \A t \in Tasks : WF_vars(Step(t))
    /\ \A r \in Regions : SF_vars(\E t \in Tasks : Recover(t, r))

-----------------------------------------------------------------------------
(* Properties. *)

\* g is a state that head h went through.
Ancestor(g, h) ==
    /\ g.rev <= h.rev
    /\ \A c \in Commands : g.applied[c] = IF h.applied[c] <= g.rev THEN h.applied[c] ELSE 0

\* Every command takes effect at most once, at a revision of its own, with no revision
\* without a command, and the durable receipts say exactly that: whatever calls race,
\* whatever is retried after a crash or a lost answer, and however long ago the command
\* left the bounded receipt window of the head.
ExactlyOnce ==
    \A r \in Persisted :
        LET applied == head[r].applied
            effective == {c \in Commands : applied[c] # 0}
        IN  /\ ledger[r] = applied
            /\ \A c, d \in effective : applied[c] = applied[d] => c = d
            /\ {applied[c] : c \in effective} = 1 .. head[r].rev

\* The receipt trigger is the last line of defence and never has to raise: the second
\* read of the durable receipts and the compare-and-set have already sorted out every
\* retry and every race.
TriggerNeverRaises ==
    \A t \in Tasks :
        pc[t] = "commit" /\ Unchanged(t) /\ ~Replayed(t) /\ NotBeforeWorld(result[t].now)
        => LedgerAccepts(Region(t), result[t])

\* The live map shows, per region, a state the database really went through; the result
\* of a call that lost the race for the head is never seen by a client.
FeedShowsCommitted ==
    \A r \in Regions : shown[r] # NoHead =>
        /\ head[r] # NoHead
        /\ Ancestor(shown[r], head[r])

\* A delta a call publishes continues the frame the feed shows, by exactly its own
\* commit: when the base it was computed on has been replaced under it, by another
\* call's rebuild or by a foreign writer, the delta does not go out.
DeltaContinuesFrame ==
    [][\A t \in Tasks :
         (/\ pc[t] = "fanout" /\ pc'[t] = "idle"
          /\ shown[Region(t)] # NoHead
          /\ shown'[Region(t)] \notin {NoHead, shown[Region(t)]})
         => /\ shown'[Region(t)].rev = shown[Region(t)].rev + 1
            /\ Ancestor(shown[Region(t)], shown'[Region(t)])]_vars

\* A released world serves nothing and accepts nothing: no region is ready, and a feed
\* that a rebuild in flight creates again is gone when that rebuild ends.
ReleasedWorldGone ==
    released =>
        /\ ready = {}
        /\ feed # "absent" => \E t \in Tasks : pc[t] = "rebuildOps"

\* A persisted region that fell out of service is ready again some time later, however
\* its fan-out was lost, provided the process does not keep crashing and the database
\* does not keep failing.
RegionRecovers ==
    <>[][Work]_vars =>
        \A r \in Regions :
            (head[r] # NoHead /\ r \notin ready) ~> (r \in ready \/ released)

\* While the feed stays open for its clients it never falls back to an older commit.
FeedNeverRegresses ==
    [][\A r \in Regions :
         feed = "live" /\ feed' = "live" /\ shown[r] # NoHead /\ shown'[r] # NoHead
         => shown[r].rev <= shown'[r].rev]_vars
-----------------------------------------------------------------------------
(* The abstract specification this module implements. *)

\* The commands that led to head h, in the order in which they took effect.
History(h) == [i \in 1 .. h.rev |-> CHOOSE c \in Commands : h.applied[c] = i]

Log == INSTANCE CommandLog WITH
    world <- Persisted,
    log   <- [r \in Regions |-> IF head[r] = NoHead THEN <<>> ELSE History(head[r])],
    time  <- [r \in Regions |-> IF head[r] = NoHead THEN 0 ELSE head[r].now],
    view  <- [r \in Regions |-> IF shown[r] = NoHead THEN <<>> ELSE History(shown[r])]

\* The writer, with all its races, retries, lost fan-outs, foreign commits and crashes,
\* behaves like one growing log per region: no step rewrites, reorders or repeats what
\* took effect, no commit runs behind the world's time, and the live map only shows
\* prefixes.
ImplementsCommandLog == Log!Spec
=============================================================================
