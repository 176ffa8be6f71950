--------------------------- MODULE LivemapConnection ---------------------------
(***************************************************************************)
(* LivemapConnection of apps/livemap, the browser's snapshot and SSE client, *)
(* composed with the server side of LivemapFeed.                            *)
(*                                                                         *)
(* The client loads a snapshot, opens a stream behind its cursor, and shows  *)
(* a state only when both fit together; every loss freezes the display and   *)
(* starts exactly one synchronization. Its steps are the turns between two   *)
(* awaits: the promise of a synchronization settles (then, finally) in       *)
(* microtasks of its own, after the synchronization has done its work.       *)
(***************************************************************************)
EXTENDS LivemapFeed

CONSTANTS
    MaxPending,     \* maximumPendingDeltas
    EagerReads,     \* TRUE: the body stream may hold several chunks and hands out the next
                    \* one between two microtasks; FALSE: one chunk per task
    NoView          \* no state yet, no answer yet

Contents == [Items -> Nat]
Views == [stream: 1 .. MaxStreams, seq: 1 .. MaxSequence, content: Contents]
Deltas == [stream: 1 .. MaxStreams, seq: 1 .. MaxSequence,
           changed: [{"commit"} -> Nat] \cup [{"mark"} -> Nat] \cup Contents]
Failed == [failed |-> TRUE]     \* an answer that is lost or not a success
Phases == {"none", "snapshot", "handshake", "resume", "settle", "failed"}

ASSUME ConnectionAssumption ==
    /\ MaxPending \in Nat \ {0}
    /\ EagerReads \in BOOLEAN
    /\ NoView \notin Views \cup {Failed}

VARIABLES
    view,           \* #state
    frozen,         \* nothing is shown as live: onFreeze since the last changed()
    sync,           \* the await #synchronization is suspended at, "none" if there is none
    reply,          \* the answer of the request in flight
    connected,      \* #streamController of a stream that is being consumed
    buffering,      \* #bufferIncoming
    pending,        \* #pendingDeltas
    pendingReset,   \* #pendingReset
    overflow,       \* #pendingOverflow
    again,          \* #resnapshotAfterCurrent
    timer,          \* #retryTimer is set
    closed          \* #closed

client == <<view, frozen, sync, reply, connected, buffering, pending, pendingReset,
            overflow, again, timer, closed>>
vars == <<entry, stream, sequence, content, history, marks, released, log,
          subscribed, queue, waiting, wire,
          view, frozen, sync, reply, connected, buffering, pending, pendingReset,
          overflow, again, timer, closed>>

\* connect() of the page's one connection.
Init ==
    /\ FeedInit
    /\ view = NoView
    /\ frozen = TRUE
    /\ sync = "snapshot"
    /\ reply = NoView
    /\ connected = FALSE
    /\ buffering = TRUE
    /\ pending = <<>>
    /\ pendingReset = FALSE
    /\ overflow = FALSE
    /\ again = FALSE
    /\ timer = FALSE
    /\ closed = FALSE

-----------------------------------------------------------------------------
(* The server's answers. *)

\* Mutant: the answer comes from a cache and is a delta behind.
ServeCachedSnapshot ==
    /\ sync = "snapshot"
    /\ reply = NoView
    /\ reply' = IF entry # "live" THEN Failed
                ELSE IF sequence = 1 THEN Snapshot
                ELSE [stream |-> stream, seq |-> sequence - 1, content |-> log[stream][sequence - 1]]
    /\ UNCHANGED <<feed, transport, view, frozen, sync, connected, buffering, pending,
                   pendingReset, overflow, again, timer, closed>>

\* The snapshot route: the feed as it is in this turn, 503 if the world is not initialized.
ServeSnapshot ==
    /\ sync = "snapshot"
    /\ reply = NoView
    /\ reply' = IF entry = "live" THEN Snapshot ELSE Failed
    /\ UNCHANGED <<feed, transport, view, frozen, sync, connected, buffering, pending,
                   pendingReset, overflow, again, timer, closed>>

\* The events route, behind the cursor of the client's Last-Event-ID.
ServeStream ==
    /\ sync = "handshake"
    /\ reply = NoView
    /\ IF entry = "live"
       THEN Subscribe(view) /\ reply' = view
       ELSE reply' = Failed /\ UNCHANGED transport
    /\ UNCHANGED <<feed, view, frozen, sync, connected, buffering, pending, pendingReset,
                   overflow, again, timer, closed>>

\* A request or its answer is lost; a transport opened for it is cleaned up.
LoseReply ==
    /\ sync \in {"snapshot", "handshake"}
    /\ reply # Failed
    /\ reply' = Failed
    /\ IF sync = "handshake"
       THEN subscribed' = 0 /\ queue' = <<>> /\ waiting' = FALSE /\ wire' = <<>>
       ELSE UNCHANGED transport
    /\ UNCHANGED <<feed, view, frozen, sync, connected, buffering, pending, pendingReset,
                   overflow, again, timer, closed>>

-----------------------------------------------------------------------------
(* Applying deltas. *)

\* Mutant: the stream of the delta is not looked at.
AppliesAcrossStreams(v, d) ==
    /\ v # NoView
    /\ d.seq = v.seq + 1
    /\ "commit" \in DOMAIN d.changed /\ v.content.commit # 0 =>
         d.changed.commit = v.content.commit + 1

\* applyDelta accepts the next delta of the stream whose frame is the next commit.
Applies(v, d) ==
    /\ v # NoView
    /\ d.stream = v.stream
    /\ d.seq = v.seq + 1
    /\ "commit" \in DOMAIN d.changed /\ v.content.commit # 0 =>
         d.changed.commit = v.content.commit + 1

Applied(v, d) == [stream |-> v.stream, seq |-> d.seq, content |-> Changed(v.content, d.changed)]

\* The states #drainPending goes through from v, NoView from the first delta that does
\* not fit; a delta the state already holds is skipped.
DrainStates(v) ==
    LET states[i \in 0 .. Len(pending)] ==
          IF i = 0 THEN v
          ELSE LET before == states[i - 1]
                   d == pending[i]
               IN  IF before # NoView /\ d.stream = before.stream /\ d.seq <= before.seq
                   THEN before
                   ELSE IF Applies(before, d) THEN Applied(before, d) ELSE NoView
    IN  states

\* #drainPending: the state reached, and whether another snapshot is needed.
DrainPending(v) ==
    LET states == DrainStates(v)
        reached == CHOOSE i \in DOMAIN states :
                     /\ states[i] # NoView
                     /\ i = Len(pending) \/ states[i + 1] = NoView
    IN  IF pendingReset \/ overflow
        THEN [state |-> v, resnapshot |-> TRUE]
        ELSE [state |-> states[reached], resnapshot |-> reached < Len(pending)]

\* #buffer.
Buffer(d) ==
    IF overflow THEN UNCHANGED <<pending, overflow>>
    ELSE IF Len(pending) >= MaxPending
         THEN pending' = <<>> /\ overflow' = TRUE
         ELSE pending' = Append(pending, d) /\ UNCHANGED overflow

-----------------------------------------------------------------------------
(* Synchronization. *)

\* #requestResnapshot and #resynchronize: a synchronization that is still there, even one
\* that has done its work and only has to settle, is not started again.
RequestResnapshot ==
    /\ frozen' = TRUE
    /\ buffering' = TRUE
    /\ timer' = FALSE
    /\ IF sync = "none"
       THEN sync' = "snapshot" /\ reply' = NoView
       ELSE UNCHANGED <<sync, reply>>

\* The stream may be read: between microtasks only if it holds another chunk.
Readable ==
    /\ connected
    /\ wire # <<>>
    /\ sync \in {"resume", "settle", "failed"} => EagerReads

\* A delta that is buffered, applied, or starts a synchronization.
DeliverDelta ==
    LET d == Head(wire).delta IN
    /\ Readable
    /\ Head(wire).kind = "delta"
    /\ wire' = Tail(wire)
    /\ IF buffering
       THEN Buffer(d) /\ UNCHANGED <<view, frozen, buffering, timer, sync, reply>>
       ELSE IF Applies(view, d)
       THEN /\ view' = Applied(view, d)
            /\ frozen' = FALSE
            /\ UNCHANGED <<pending, overflow, buffering, timer, sync, reply>>
       ELSE Buffer(d) /\ RequestResnapshot /\ UNCHANGED view
    /\ UNCHANGED <<feed, subscribed, queue, waiting, connected, pendingReset, again, closed>>

DeliverReset ==
    /\ Readable
    /\ Head(wire) = Reset
    /\ wire' = Tail(wire)
    /\ IF buffering
       THEN pendingReset' = TRUE /\ UNCHANGED <<frozen, buffering, timer, sync, reply>>
       ELSE RequestResnapshot /\ UNCHANGED pendingReset
    /\ UNCHANGED <<feed, subscribed, queue, waiting, view, connected, pending, overflow,
                   again, closed>>

\* Mutant: the display stays as it is when the stream ends.
FinishUnfrozen ==
    /\ Readable
    /\ Head(wire) = End
    /\ wire' = <<>>
    /\ connected' = FALSE
    /\ IF buffering \/ sync # "none"
       THEN again' = TRUE /\ UNCHANGED timer
       ELSE timer' = TRUE /\ UNCHANGED again
    /\ UNCHANGED <<feed, subscribed, queue, waiting, view, frozen, sync, reply, buffering,
                   pending, pendingReset, overflow, closed>>

\* #streamFinished.
StreamFinished ==
    /\ Readable
    /\ Head(wire) = End
    /\ wire' = <<>>
    /\ connected' = FALSE
    /\ frozen' = TRUE
    /\ IF buffering \/ sync # "none"
       THEN again' = TRUE /\ UNCHANGED timer
       ELSE timer' = TRUE /\ UNCHANGED again
    /\ UNCHANGED <<feed, subscribed, queue, waiting, view, sync, reply, buffering, pending,
                   pendingReset, overflow, closed>>

\* The snapshot arrives: what is pending is applied to it; then the old stream is aborted
\* and a new one requested behind the state reached.
SnapshotArrives ==
    LET drain == DrainPending(reply) IN
    /\ sync = "snapshot"
    /\ reply \notin {NoView, Failed}
    /\ view' = drain.state
    /\ pending' = <<>> /\ pendingReset' = FALSE /\ overflow' = FALSE
    /\ reply' = NoView
    /\ IF drain.resnapshot
       THEN /\ again' = TRUE
            /\ sync' = "settle"
            /\ UNCHANGED <<transport, connected>>
       ELSE /\ sync' = "handshake"
            /\ connected' = FALSE
            /\ subscribed' = 0 /\ queue' = <<>> /\ waiting' = FALSE /\ wire' = <<>>
            /\ UNCHANGED again
    /\ UNCHANGED <<feed, frozen, buffering, timer, closed>>

\* The stream's response arrives and is consumed from now on.
StreamOpens ==
    /\ sync = "handshake"
    /\ reply \notin {NoView, Failed}
    /\ reply' = NoView
    /\ connected' = TRUE
    /\ sync' = "resume"
    /\ UNCHANGED <<feed, transport, view, frozen, buffering, pending, pendingReset,
                   overflow, again, timer, closed>>

\* The request of the snapshot or of the stream fails.
RequestFails ==
    /\ sync \in {"snapshot", "handshake"}
    /\ reply = Failed
    /\ reply' = NoView
    /\ sync' = "failed"
    /\ UNCHANGED <<feed, transport, view, frozen, connected, buffering, pending,
                   pendingReset, overflow, again, timer, closed>>

\* The continuation behind the handshake: the state is shown when snapshot and stream fit.
Resume ==
    LET drain == DrainPending(view) IN
    /\ sync = "resume"
    /\ sync' = "settle"
    /\ IF again \/ ~connected
       THEN UNCHANGED <<view, pending, pendingReset, overflow, again, buffering, frozen>>
       ELSE /\ view' = drain.state
            /\ pending' = <<>> /\ pendingReset' = FALSE /\ overflow' = FALSE
            /\ IF drain.resnapshot
               THEN again' = TRUE /\ UNCHANGED <<buffering, frozen>>
               ELSE buffering' = FALSE /\ frozen' = FALSE /\ UNCHANGED again
    /\ UNCHANGED <<feed, transport, reply, connected, timer, closed>>

\* finally of a completed synchronization, with the synchronization that was asked for
\* meanwhile.
Settle ==
    /\ sync = "settle"
    /\ again' = FALSE
    /\ IF again
       THEN sync' = "snapshot" /\ frozen' = TRUE /\ buffering' = TRUE /\ timer' = FALSE
       ELSE sync' = "none" /\ UNCHANGED <<frozen, buffering, timer>>
    /\ UNCHANGED <<feed, transport, view, reply, connected, pending, pendingReset, overflow,
                   closed>>

\* Mutant: a failed synchronization is not tried again.
SettleWithoutRetry ==
    /\ sync = "failed"
    /\ sync' = "none"
    /\ again' = FALSE
    /\ frozen' = TRUE
    /\ UNCHANGED <<feed, transport, view, reply, connected, buffering, pending,
                   pendingReset, overflow, timer, closed>>

\* finally and #handleRecoveryFailure of a failed one: the retry is scheduled.
SettleFailed ==
    /\ sync = "failed"
    /\ sync' = "none"
    /\ again' = FALSE
    /\ frozen' = TRUE
    /\ timer' = TRUE
    /\ UNCHANGED <<feed, transport, view, reply, connected, buffering, pending,
                   pendingReset, overflow, closed>>

\* The retry timer of #scheduleRecovery fires.
TimerFires ==
    /\ timer
    /\ RequestResnapshot
    /\ UNCHANGED <<feed, transport, view, connected, pending, pendingReset, overflow, again,
                   closed>>

\* close() when the page is left.
Close ==
    /\ ~closed
    /\ closed' = TRUE
    /\ frozen' = TRUE
    /\ buffering' = FALSE /\ pending' = <<>> /\ pendingReset' = FALSE /\ overflow' = FALSE
    /\ again' = FALSE /\ timer' = FALSE
    /\ sync' = "none" /\ reply' = NoView
    /\ connected' = FALSE
    /\ subscribed' = 0 /\ queue' = <<>> /\ waiting' = FALSE /\ wire' = <<>>
    /\ UNCHANGED <<feed, view>>

Deliver == DeliverDelta \/ DeliverReset \/ StreamFinished

Serve == ServeSnapshot \/ ServeStream

ClientTurn ==
    \/ SnapshotArrives \/ StreamOpens \/ RequestFails
    \/ Resume \/ Settle \/ SettleFailed \/ TimerFires

Work ==
    \/ FeedWork /\ UNCHANGED client
    \/ Serve \/ Deliver \/ ClientTurn \/ Close

Loss ==
    \/ FeedLoss /\ UNCHANGED client
    \/ LoseReply

Next == Work \/ Loss

Spec == Init /\ [][Next]_vars

\* Fairness: the server answers, the browser runs its tasks, reads its stream and fires its
\* timers, and the writer initializes the feed again after it was lost.
FairSpec ==
    /\ Spec
    /\ WF_vars(Serve)
    /\ WF_vars(Deliver)
    /\ WF_vars(ClientTurn)
    /\ WF_vars(Drain /\ UNCHANGED client)
    /\ WF_vars(entry # "live" /\ (\E c \in Commits : InitializeRegion(c)) /\ UNCHANGED client)

-----------------------------------------------------------------------------
(* Properties. *)

\* Every variable has its type; a synchronization past its snapshot has a state, and only a
\* consumed stream has something to read.
TypeOK ==
    /\ entry \in {"absent", "locked", "live"}
    /\ stream \in 0 .. MaxStreams /\ sequence \in 0 .. MaxSequence
    /\ content \in Contents
    /\ Len(history) <= HistoryLimit /\ \A i \in DOMAIN history : history[i] \in Deltas
    /\ marks \in 0 .. 1 /\ released \in BOOLEAN
    /\ subscribed \in 0 .. MaxStreams
    /\ waiting \in BOOLEAN /\ Len(queue) <= QueueLimit
    /\ queue # <<>> => waiting
    /\ view \in Views \cup {NoView}
    /\ frozen \in BOOLEAN /\ sync \in Phases
    /\ reply \in Views \cup {NoView, Failed}
    /\ connected \in BOOLEAN /\ buffering \in BOOLEAN
    /\ Len(pending) <= MaxPending /\ \A i \in DOMAIN pending : pending[i] \in Deltas
    /\ pendingReset \in BOOLEAN /\ overflow \in BOOLEAN /\ again \in BOOLEAN
    /\ timer \in BOOLEAN /\ closed \in BOOLEAN
    /\ sync \in {"handshake", "resume"} => view # NoView
    /\ ~frozen => view # NoView /\ connected

\* The client's state is the state the feed had at the client's cursor: snapshot, replay,
\* live fan-out and buffered deltas fit together without a gap, across reconnects, ring
\* buffer overruns and new streams.
ViewIsAuthoritative ==
    view # NoView =>
        /\ view.seq \in DOMAIN log[view.stream]
        /\ view.content = log[view.stream][view.seq]

\* A display that counts as live is not cut off: with nothing in transit the client shows
\* exactly what its feed holds, or its connection is about to tell it otherwise.
LiveViewMissesNothing ==
    ~frozen /\ wire = <<>> /\ queue = <<>> /\ ~buffering =>
        /\ subscribed # 0
        /\ entry # "absent" /\ subscribed = stream => view = Snapshot

\* Within a stream the display never goes back: not when a snapshot overtakes deltas, nor
\* when it is overtaken by them.
ViewNeverGoesBack ==
    [][view # NoView /\ view'.stream = view.stream => view'.seq >= view.seq]_vars

\* From some point on the network and the feed cause no more losses.
Calm == <>[][Work]_vars

\* A frozen display is live again some time after the losses stop, unless the page is left
\* or the world is gone.
DisplayThaws == Calm => (frozen ~> (~frozen \/ closed \/ released))
=============================================================================
