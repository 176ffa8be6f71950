----------------------------- MODULE LivemapFeed -----------------------------
(***************************************************************************)
(* The server side of one world's live map: LivemapFeed and the world's     *)
(* entry of the LivemapRegistry (packages/livemap), and the SSE transport    *)
(* of the route /worlds/:worldId/livemap/events of game-api for one          *)
(* browser connection.                                                     *)
(*                                                                         *)
(* Every operation is one synchronous turn of the Node process. The feed    *)
(* is process-local: a restart, an expiry or an eviction begins a new        *)
(* stream. Of the public state two items stand for all: the commit of the    *)
(* operational region frame and a public-operation marker. World time is     *)
(* left out here: publish refuses a falling time (see RegionalWriter).       *)
(***************************************************************************)
EXTENDS Naturals, Sequences

CONSTANTS
    HistoryLimit,   \* historyLimit of the ring buffer
    QueueLimit,     \* maximumQueueLength of the route
    Commits,        \* commits the writer's heads have
    MaxStreams,     \* bound: streams (generations) of the feed
    MaxSequence     \* bound: deltas per stream

ASSUME FeedAssumption ==
    /\ HistoryLimit \in Nat \ {0}
    /\ QueueLimit \in Nat \ {0}
    /\ Commits \subseteq Nat \ {0}
    /\ MaxStreams \in Nat
    /\ MaxSequence \in Nat \ {0}

VARIABLES
    entry,          \* the registry entry: "absent", "locked" (not initialized), "live"
    stream,         \* #streamId of the newest feed, 0 before the first
    sequence,       \* #sequence
    content,        \* the public state the feed holds
    history,        \* #history
    marks,          \* the registry's marker, which outlives the entry
    released,       \* releaseWorld was called
    log,            \* per stream, the content after each sequence (history variable)
    subscribed,     \* the stream of the feed the transport listens to, 0 if none
    queue,          \* the route's queue
    waiting,        \* waitingForDrain
    wire            \* what was written and the client has not read

feed == <<entry, stream, sequence, content, history, marks, released, log>>
transport == <<subscribed, queue, waiting, wire>>

Items == {"commit", "mark"}
Nothing == [commit |-> 0, mark |-> 0]

\* A delta's changed items replace those of the content.
Changed(c, changed) == [i \in Items |-> IF i \in DOMAIN changed THEN changed[i] ELSE c[i]]

Reset == [kind |-> "reset"]
End == [kind |-> "end"]
DeltaEvent(d) == [kind |-> "delta", delta |-> d]

FeedInit ==
    /\ entry = "absent" /\ stream = 0 /\ sequence = 0
    /\ content = Nothing /\ history = <<>> /\ marks = 0 /\ released = FALSE
    /\ log = [s \in 1 .. MaxStreams |-> <<>>]
    /\ subscribed = 0 /\ queue = <<>> /\ waiting = FALSE /\ wire = <<>>

-----------------------------------------------------------------------------
(* The transport. *)

\* cleanup and end of the response after `sent` was written; what is queued is lost.
EndTransport(sent) ==
    /\ subscribed' = 0
    /\ queue' = <<>>
    /\ waiting' = FALSE
    /\ wire' = wire \o sent \o <<End>>

\* enqueue of several payloads in one turn: they are written until the socket asks to
\* wait, the rest is queued, and a full queue ends the transport.
Enqueue(from, payloads) ==
    IF waiting
    THEN IF Len(queue) + Len(payloads) <= QueueLimit
         THEN /\ queue' = queue \o payloads
              /\ subscribed' = from
              /\ UNCHANGED <<waiting, wire>>
         ELSE EndTransport(<<>>)
    ELSE \E k \in 0 .. Len(payloads), full \in BOOLEAN :
            LET rest == SubSeq(payloads, k + 1, Len(payloads)) IN
            /\ rest # <<>> => full /\ k > 0
            /\ IF Len(rest) <= QueueLimit
               THEN /\ wire' = wire \o SubSeq(payloads, 1, k)
                    /\ queue' = rest
                    /\ waiting' = full
                    /\ subscribed' = from
               ELSE EndTransport(SubSeq(payloads, 1, k))

\* The socket drains: flush writes queued payloads until it asks to wait again.
Drain ==
    /\ waiting
    /\ \E k \in 0 .. Len(queue), full \in BOOLEAN :
         /\ k < Len(queue) => full /\ k > 0
         /\ k = 0 => ~full
         /\ wire' = wire \o SubSeq(queue, 1, k)
         /\ queue' = SubSeq(queue, k + 1, Len(queue))
         /\ waiting' = full
    /\ UNCHANGED <<feed, subscribed>>

\* The greeting or heartbeats pile up behind a socket that does not drain until the queue
\* is full.
Stall ==
    /\ waiting
    /\ subscribed # 0
    /\ EndTransport(<<>>)
    /\ UNCHANGED feed

\* The connection breaks: a suffix of what was written is lost, the route cleans up.
Break ==
    /\ subscribed # 0 \/ wire # <<>>
    /\ subscribed' = 0
    /\ queue' = <<>>
    /\ waiting' = FALSE
    /\ \E k \in 0 .. Len(wire) :
         /\ \A i \in 1 .. k : wire[i] # End
         /\ wire' = SubSeq(wire, 1, k) \o <<End>>
    /\ UNCHANGED feed

\* invalidate: the listener is gone before its reset runs, which ends the response.
Invalidate ==
    IF subscribed = stream /\ subscribed # 0
    THEN EndTransport(<<Reset>>)
    ELSE UNCHANGED transport

-----------------------------------------------------------------------------
(* Publishing. *)

\* #emit on stream s, which is at sequence n with history past and content c.
Emit(s, n, past, c, changed) ==
    LET delta == [stream |-> s, seq |-> n + 1, changed |-> changed]
        all == Append(past, delta)
    IN  /\ stream' = s
        /\ sequence' = n + 1
        /\ content' = Changed(c, changed)
        /\ history' = IF Len(all) > HistoryLimit THEN Tail(all) ELSE all
        /\ log' = [log EXCEPT ![s] = Append(@, Changed(c, changed))]
        /\ IF subscribed = s THEN Enqueue(s, <<DeltaEvent(delta)>>) ELSE UNCHANGED transport

\* initializeRegion from a persisted head of commit c: on a new feed if there is none,
\* else on top of what the feed holds. Its trains carry the registry's marker.
InitializeRegion(c) ==
    LET changed == [commit |-> c, mark |-> marks] IN
    /\ ~released
    /\ entry' = "live"
    /\ IF entry = "absent"
       THEN stream < MaxStreams /\ Emit(stream + 1, 0, <<>>, Nothing, changed)
       ELSE sequence < MaxSequence /\ Emit(stream, sequence, history, content, changed)
    /\ UNCHANGED <<marks, released>>

\* publishOperationalRegionSnapshot: the next commit, on an initialized feed only.
PublishFrame ==
    /\ entry = "live"
    /\ sequence < MaxSequence
    /\ content.commit + 1 \in Commits
    /\ Emit(stream, sequence, history, content, [commit |-> content.commit + 1])
    /\ UNCHANGED <<entry, marks, released>>

\* setOperationMarker: recorded in the registry; a feed is created for it, locked, and
\* a feed with trains publishes the change.
SetMarker ==
    /\ ~released
    /\ sequence + 1 < MaxSequence
    /\ marks' = 1 - marks
    /\ \/ /\ entry = "absent"
          /\ stream < MaxStreams
          /\ entry' = "locked"
          /\ stream' = stream + 1
          /\ sequence' = 0
          /\ history' = <<>>
          /\ content' = Nothing
          /\ UNCHANGED <<log, transport>>
       \/ /\ entry # "absent"
          /\ content.commit # 0
          /\ Emit(stream, sequence, history, content, [mark |-> 1 - marks])
          /\ UNCHANGED entry
       \/ /\ entry # "absent"
          /\ content.commit = 0
          /\ UNCHANGED <<entry, stream, sequence, history, content, log, transport>>
    /\ UNCHANGED released

\* markUnavailable before a rebuild or after a failed fan-out (the bound leaves room for
\* the frame that initializes the feed again).
MarkUnavailable ==
    /\ entry # "absent"
    /\ sequence < MaxSequence
    /\ entry' = "locked"
    /\ Invalidate
    /\ UNCHANGED <<stream, sequence, content, history, marks, released, log>>

\* An idle entry without subscribers is pruned, or evicted for another world (the bound
\* leaves room for the next stream).
ExpireEntry ==
    /\ entry # "absent"
    /\ subscribed # stream
    /\ stream < MaxStreams
    /\ entry' = "absent"
    /\ UNCHANGED <<stream, sequence, content, history, marks, released, log, transport>>

\* releaseWorld: the entry goes; a transport stays with the feed that is no longer there.
ReleaseWorld ==
    /\ ~released
    /\ released' = TRUE
    /\ entry' = "absent"
    /\ marks' = 0
    /\ UNCHANGED <<stream, sequence, content, history, log, transport>>

\* The process dies: registry and transports are gone (with the same bound).
Restart ==
    /\ stream < MaxStreams
    /\ entry' = "absent"
    /\ marks' = 0
    /\ IF subscribed # 0 THEN EndTransport(<<>>) ELSE UNCHANGED transport
    /\ UNCHANGED <<stream, sequence, content, history, released, log>>

-----------------------------------------------------------------------------
(* Reading. *)

\* snapshot(), behind initializedWorld of the snapshot route.
Snapshot == [stream |-> stream, seq |-> sequence, content |-> content]

\* The ring buffer reaches back to the delta after n.
Covers(n) == history # <<>> /\ n + 1 >= Head(history).seq

\* The filter over the ring buffer.
DeltasAfter(n) ==
    LET later[i \in 0 .. Len(history)] ==
          IF i = 0 THEN <<>>
          ELSE IF history[i].seq > n THEN Append(later[i - 1], history[i]) ELSE later[i - 1]
    IN  later[Len(history)]

\* Mutant: only the sequence of the cursor is looked at.
ResumesSequence(cursor) ==
    /\ cursor.seq <= sequence
    /\ cursor.seq = sequence \/ Covers(cursor.seq)

\* subscribeAfter resumes a cursor of this stream the ring buffer covers.
Resumes(cursor) ==
    /\ cursor.stream = stream
    /\ cursor.seq <= sequence
    /\ cursor.seq = sequence \/ Covers(cursor.seq)

\* The events route of an initialized world, on a fresh response.
Subscribe(cursor) ==
    LET replay == DeltasAfter(cursor.seq) IN
    IF Resumes(cursor)
    THEN Enqueue(stream, [i \in 1 .. Len(replay) |-> DeltaEvent(replay[i])])
    ELSE EndTransport(<<Reset>>)

\* What the writer, the marker routes and the socket do ...
FeedWork ==
    \/ \E c \in Commits : InitializeRegion(c)
    \/ PublishFrame \/ SetMarker \/ ReleaseWorld \/ Drain

\* ... and what takes a feed or a transport away.
FeedLoss == MarkUnavailable \/ ExpireEntry \/ Restart \/ Stall \/ Break
=============================================================================
