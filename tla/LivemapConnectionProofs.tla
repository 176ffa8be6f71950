------------------------ MODULE LivemapConnectionProofs ------------------------
(***************************************************************************)
(* Proofs about LivemapConnection and LivemapFeed, for any lengths of the   *)
(* ring buffer, the queue and the pending buffer, any commits and any       *)
(* number of streams and deltas.                                            *)
(***************************************************************************)
EXTENDS LivemapConnection, SequenceTheorems, WellFoundedInduction, NaturalsInduction, TLAPS

-----------------------------------------------------------------------------
(* The inductive invariant. *)

\* What stream s held before its n-th delta.
HeldBefore(s, n) == IF n = 1 THEN Nothing ELSE log[s][n - 1]

\* A delta the feed has emitted, wherever it is now.
TrueDelta(d) ==
    /\ d.seq <= Len(log[d.stream])
    /\ log[d.stream][d.seq] = Changed(HeldBefore(d.stream, d.seq), d.changed)

TrueDeltas == {d \in Deltas : TrueDelta(d)}
TrueEvents == {e \in [kind: {"delta"}, delta: Deltas] : TrueDelta(e.delta)}
Sent == TrueEvents \cup {Reset, End}

\* A state the feed has been in.
TrueViews == {v \in Views : v.seq <= Len(log[v.stream]) /\ v.content = log[v.stream][v.seq]}

\* The feed is at the end of the log of its stream, and later streams are empty.
FeedInv ==
    /\ entry \in {"absent", "locked", "live"}
    /\ stream \in 0 .. MaxStreams /\ sequence \in 0 .. MaxSequence
    /\ marks \in 0 .. 1 /\ released \in BOOLEAN
    /\ log \in [1 .. MaxStreams -> Seq(Contents)]
    /\ \A s \in 1 .. MaxStreams : s > stream => log[s] = <<>>
    /\ stream = 0 => entry = "absent" /\ sequence = 0
    /\ stream # 0 => sequence = Len(log[stream])
    /\ content = IF sequence = 0 THEN Nothing ELSE log[stream][sequence]
    /\ entry = "live" => sequence # 0

\* The deltas q follow each other in stream s up to the n-th.
Runs(q, s, n) == \A i \in DOMAIN q : q[i].stream = s /\ q[i].seq = n - Len(q) + i

\* The ring buffer is a suffix of what the stream has emitted.
HistoryInv ==
    /\ history \in Seq(TrueDeltas)
    /\ Len(history) <= HistoryLimit /\ Len(history) <= sequence
    /\ Runs(history, stream, sequence)

\* A transport that is attached has written nothing but deltas; one that is not has no queue.
TransportInv ==
    /\ wire \in Seq(Sent) /\ queue \in Seq(TrueEvents)
    /\ waiting \in BOOLEAN
    /\ subscribed \in 0 .. stream
    /\ Len(queue) <= QueueLimit
    /\ queue # <<>> => waiting
    /\ subscribed = 0 => queue = <<>> /\ ~waiting
    /\ subscribed # 0 => wire \in Seq(TrueEvents)

\* The client's fields, and what they mean for each other at each await.
ClientTypes ==
    /\ view \in TrueViews \cup {NoView}
    /\ reply \in TrueViews \cup {NoView, Failed}
    /\ pending \in Seq(TrueDeltas) /\ Len(pending) <= MaxPending
    /\ frozen \in BOOLEAN /\ sync \in Phases
    /\ connected \in BOOLEAN /\ buffering \in BOOLEAN
    /\ pendingReset \in BOOLEAN /\ overflow \in BOOLEAN /\ again \in BOOLEAN
    /\ timer \in BOOLEAN /\ closed \in BOOLEAN

ClientPhases ==
    /\ sync \in {"handshake", "resume"} => view # NoView
    /\ sync \in {"snapshot", "handshake", "resume"} => buffering /\ frozen
    /\ sync \notin {"snapshot", "handshake"} => reply = NoView
    /\ sync = "handshake" => pending = <<>> /\ ~overflow /\ ~connected
    /\ sync = "handshake" /\ reply = NoView => wire = <<>> /\ subscribed = 0
    /\ ~buffering => pending = <<>> /\ ~overflow
    /\ ~frozen => view # NoView /\ connected

\* A snapshot that waits to be taken over is not older than what the client has.
ReplyInv ==
    sync = "snapshot" /\ reply \notin {NoView, Failed} /\ view # NoView
      /\ reply.stream = view.stream => reply.seq >= view.seq

\* The client reads the stream it has requested behind its state, and has not lost a delta.
Follows ==
    /\ view # NoView /\ ~overflow
    /\ \/ sync = "handshake" /\ reply \notin {NoView, Failed}
       \/ connected /\ (sync = "resume" \/ ~buffering)

\* What is on its way.
Flight == wire \o queue

\* What such a client has buffered and what is on its way lead without a gap from its state
\* to the end of the log, or to the end of the response.
ChainInv ==
    Follows =>
        /\ subscribed = 0 => wire # <<>> /\ wire[Len(wire)] = End
        /\ subscribed # 0 =>
             /\ view.stream = subscribed
             /\ \A i \in DOMAIN pending : /\ pending[i].stream = subscribed
                                          /\ pending[i].seq = view.seq + i
             /\ \A i \in DOMAIN Flight : /\ Flight[i].delta.stream = subscribed
                                         /\ Flight[i].delta.seq = view.seq + Len(pending) + i
             /\ view.seq + Len(pending) + Len(Flight) = Len(log[subscribed])

ConnectionInv ==
    FeedInv /\ HistoryInv /\ TransportInv /\ ClientTypes /\ ClientPhases /\ ReplyInv /\ ChainInv

-----------------------------------------------------------------------------
(* Recursive functions. *)

\* Every nonempty set of natural numbers has a least element.
LEMMA LeastNumber ==
    ASSUME NEW S \in SUBSET Nat, S # {}
    PROVE  \E m \in S : \A n \in S : m <= n
  <1> DEFINE R == OpToRel(<, Nat)
  <1>1. IsWellFoundedOn(R, Nat)
    BY NatLessThanWellFounded
  <1>2. \A m, n \in Nat : m < n => <<m, n>> \in R
    BY DEF OpToRel
  <1> HIDE DEF R
  <1>3. PICK m \in S : \A n \in S : ~ (<<n, m>> \in R)
    BY <1>1, WFMin
  <1>4. \A n \in S : ~ (n < m)
    BY <1>2, <1>3, Zenon
  <1>5. \A n \in S : m <= n
    BY <1>4, SMT
  <1> QED BY <1>5

\* If a set of numbers has 0 and the successors of its members up to n, it has them all.
LEMMA UpTo ==
    ASSUME NEW n \in Nat, NEW G, 0 \in G, \A k \in 1 .. n : k - 1 \in G => k \in G
    PROVE  \A k \in 0 .. n : k \in G
  <1> DEFINE Bad == {k \in 0 .. n : k \notin G}
  <1>1. ASSUME Bad # {} PROVE FALSE
    <2>1. Bad \in SUBSET Nat
      OBVIOUS
    <2>2. PICK k \in Bad : \A j \in Bad : k <= j
      BY <1>1, <2>1, LeastNumber
    <2>3. k \in 1 .. n
      BY <2>2
    <2>4. k - 1 \in 0 .. n /\ ~(k <= k - 1)
      BY <2>3
    <2>5. k - 1 \in G
      BY <2>2, <2>4
    <2> QED BY <2>2, <2>3, <2>5
  <1> QED BY <1>1

\* One round of #drainPending.
DrainStep(b, d) ==
    IF b # NoView /\ d.stream = b.stream /\ d.seq <= b.seq
    THEN b
    ELSE IF Applies(b, d) THEN Applied(b, d) ELSE NoView

\* f is the sequence of states of #drainPending from v through the n deltas p.
Drained(f, v, p, n) == f = [i \in 0 .. n |-> IF i = 0 THEN v ELSE DrainStep(f[i - 1], p[i])]

\* There is a function with the recursion of DrainStates.
LEMMA DrainedExists ==
    ASSUME NEW n \in Nat, NEW v, NEW p
    PROVE  \E f : Drained(f, v, p, n)
  <1> DEFINE G == {k \in 0 .. n : \E f : Drained(f, v, p, k)}
  <1>1. 0 \in G
    <2>1. Drained([i \in 0 .. 0 |-> v], v, p, 0)
      BY DEF Drained
    <2> QED BY <2>1
  <1>2. ASSUME NEW k \in 1 .. n, k - 1 \in G PROVE k \in G
    <2>1. PICK f : Drained(f, v, p, k - 1)
      BY <1>2
    <2> DEFINE g == [i \in 0 .. k |-> IF i = k THEN DrainStep(f[k - 1], p[k]) ELSE f[i]]
    <2>2. ASSUME NEW i \in 0 .. k
          PROVE  g[i] = IF i = 0 THEN v ELSE DrainStep(g[i - 1], p[i])
      <3>1. CASE i = k
        <4>1. i - 1 \in 0 .. k /\ i - 1 # k /\ i # 0
          BY <3>1
        <4> QED BY <3>1, <4>1
      <3>2. CASE i # k
        <4>1. i \in 0 .. k - 1 /\ (i # 0 => i - 1 \in 0 .. k /\ i - 1 # k)
          BY <3>2
        <4>2. f[i] = IF i = 0 THEN v ELSE DrainStep(f[i - 1], p[i])
          BY <2>1, <4>1 DEF Drained
        <4> QED BY <3>2, <4>1, <4>2
      <3> QED BY <3>1, <3>2
    <2>3. g = [i \in 0 .. k |-> IF i = 0 THEN v ELSE DrainStep(g[i - 1], p[i])]
      BY <2>2
    <2>4. Drained(g, v, p, k)
      BY <2>3 DEF Drained
    <2> QED BY <2>4
  <1> HIDE DEF G
  <1>3. n \in G
    BY <1>1, <1>2, UpTo
  <1> QED BY <1>3 DEF G

\* DrainStates has the recursion it is written with.
LEMMA DrainStatesRecursive ==
    ASSUME NEW S, pending \in Seq(S), NEW v
    PROVE  Drained(DrainStates(v), v, pending, Len(pending))
  <1> DEFINE n == Len(pending)
  <1>1. DrainStates(v) = CHOOSE f : Drained(f, v, pending, n)
    BY DEF DrainStates, Drained, DrainStep
  <1>2. n \in Nat
    OBVIOUS
  <1> HIDE DEF n
  <1> QED BY <1>1, <1>2, DrainedExists DEF n

\* The filter of deltasAfter.
Filtered(f, h, n, len) ==
    f = [i \in 0 .. len |-> IF i = 0 THEN <<>>
                            ELSE IF h[i].seq > n THEN Append(f[i - 1], h[i]) ELSE f[i - 1]]

\* There is a function with the recursion of DeltasAfter.
LEMMA FilteredExists ==
    ASSUME NEW len \in Nat, NEW h, NEW n
    PROVE  \E f : Filtered(f, h, n, len)
  <1> DEFINE G == {k \in 0 .. len : \E f : Filtered(f, h, n, k)}
             Round(q, i) == IF h[i].seq > n THEN Append(q, h[i]) ELSE q
  <1>0. \A f, k : Filtered(f, h, n, k) <=>
            f = [i \in 0 .. k |-> IF i = 0 THEN <<>> ELSE Round(f[i - 1], i)]
    BY DEF Filtered
  <1> HIDE DEF Round
  <1>1. 0 \in G
    <2>1. [i \in 0 .. 0 |-> <<>>] =
            [i \in 0 .. 0 |-> IF i = 0 THEN <<>> ELSE Round([x \in 0 .. 0 |-> <<>>][i - 1], i)]
      OBVIOUS
    <2>2. Filtered([i \in 0 .. 0 |-> <<>>], h, n, 0)
      BY <1>0, <2>1
    <2> QED BY <2>2
  <1>2. ASSUME NEW k \in 1 .. len, k - 1 \in G PROVE k \in G
    <2>1. PICK f : f = [i \in 0 .. k - 1 |-> IF i = 0 THEN <<>> ELSE Round(f[i - 1], i)]
      BY <1>0, <1>2
    <2> DEFINE g == [i \in 0 .. k |-> IF i = k THEN Round(f[k - 1], k) ELSE f[i]]
    <2>2. ASSUME NEW i \in 0 .. k
          PROVE  g[i] = IF i = 0 THEN <<>> ELSE Round(g[i - 1], i)
      <3>1. CASE i = k
        <4>1. i - 1 \in 0 .. k /\ i - 1 # k /\ i # 0
          BY <3>1
        <4> QED BY <3>1, <4>1
      <3>2. CASE i # k
        <4>1. i \in 0 .. k - 1 /\ (i # 0 => i - 1 \in 0 .. k /\ i - 1 # k)
          BY <3>2
        <4>2. f[i] = IF i = 0 THEN <<>> ELSE Round(f[i - 1], i)
          BY <2>1, <4>1
        <4> QED BY <3>2, <4>1, <4>2
      <3> QED BY <3>1, <3>2
    <2>3. g = [i \in 0 .. k |-> IF i = 0 THEN <<>> ELSE Round(g[i - 1], i)]
      BY <2>2
    <2>4. Filtered(g, h, n, k)
      BY <1>0, <2>3
    <2> QED BY <2>4
  <1> HIDE DEF G
  <1>3. len \in G
    BY <1>1, <1>2, UpTo
  <1> QED BY <1>3 DEF G

\* What deltasAfter returns for a cursor the ring buffer covers: the deltas behind the cursor,
\* all of them and in order.
LEMMA DeltasAfterFacts ==
    ASSUME FeedInv, HistoryInv, NEW n \in Nat, n <= sequence, n = sequence \/ Covers(n)
    PROVE  /\ DeltasAfter(n) \in Seq(TrueDeltas)
           /\ Len(DeltasAfter(n)) = sequence - n
           /\ \A i \in 1 .. sequence - n : /\ DeltasAfter(n)[i].stream = stream
                                           /\ DeltasAfter(n)[i].seq = n + i
  <1> DEFINE L == Len(history)
             f == CHOOSE g : Filtered(g, history, n, L)
             m == L - (sequence - n)
  <1>1. L \in Nat /\ sequence \in Nat /\ history \in Seq(TrueDeltas) /\ DOMAIN history = 1 .. L
        /\ \A i \in 1 .. L : /\ history[i] \in TrueDeltas /\ history[i].stream = stream
                             /\ history[i].seq = sequence - L + i
    BY DEF FeedInv, HistoryInv, Runs
  <1>2. Filtered(f, history, n, L)
    <2> HIDE DEF L
    <2> QED BY <1>1, FilteredExists
  <1>3. DeltasAfter(n) = f[L]
    BY DEF DeltasAfter, Filtered
  <1>4. m \in 0 .. L
    <2>1. CASE n = sequence
      BY <1>1, <2>1
    <2>2. CASE Covers(n)
      <3>1. history # <<>> /\ Head(history) = history[1] /\ L >= 1
        BY <1>1, <2>2 DEF Covers
      <3>2. n + 1 >= sequence - L + 1
        BY <1>1, <2>2, <3>1 DEF Covers
      <3> QED BY <1>1, <3>2
    <2> QED BY <2>1, <2>2
  <1> HIDE DEF f, L
  <1>5. m \in Nat /\ m = L - (sequence - n)
    BY <1>1, <1>4
  <1> HIDE DEF m
  <1> DEFINE Good(i) == /\ f[i] \in Seq(TrueDeltas)
                        /\ Len(f[i]) = IF i <= m THEN 0 ELSE i - m
                        /\ \A k \in 1 .. Len(f[i]) : f[i][k].stream = stream /\ f[i][k].seq = n + k
             G == {i \in 0 .. L : Good(i)}
             Round(i) == IF i = 0 THEN <<>>
                         ELSE IF history[i].seq > n THEN Append(f[i - 1], history[i]) ELSE f[i - 1]
  <1>6. 0 \in G
    <2>1. f[0] = <<>>
      BY <1>1, <1>2 DEF Filtered
    <2>2. Good(0)
      BY <1>5, <2>1
    <2> HIDE DEF Good
    <2> QED BY <1>1, <2>2
  <1>7. ASSUME NEW i \in 1 .. L, i - 1 \in G PROVE i \in G
    <2>1. i \in 0 .. L /\ i - 1 \in 0 .. L /\ i # 0
      BY <1>1
    <2>2. f[i] = IF history[i].seq > n THEN Append(f[i - 1], history[i]) ELSE f[i - 1]
      <3>1. \A j \in 0 .. L : f[j] = Round(j)
        BY <1>2 DEF Filtered
      <3>2. f[i] = Round(i)
        BY <2>1, <3>1, Zenon
      <3> QED BY <2>1, <3>2
    <2>3. Good(i - 1)
      BY <1>7
    <2>4. (history[i].seq > n) <=> (i > m)
      BY <1>1, <1>5
    <2>5. CASE ~(i > m)
      <3>1. f[i] = f[i - 1]
        BY <2>2, <2>4, <2>5
      <3>2. Good(i)
        BY <1>5, <2>3, <2>5, <3>1
      <3> HIDE DEF Good
      <3> QED BY <2>1, <3>2
    <2>6. CASE i > m
      <3> DEFINE q == f[i - 1]
                 d == history[i]
      <3>1. f[i] = Append(q, d) /\ q \in Seq(TrueDeltas) /\ d \in TrueDeltas
        BY <1>1, <2>2, <2>3, <2>4, <2>6
      <3>2. Len(q) = i - 1 - m
        BY <1>5, <2>3, <2>6
      <3>3. d.stream = stream /\ d.seq = n + (i - m)
        BY <1>1, <1>5
      <3>4. \A k \in 1 .. Len(q) : q[k].stream = stream /\ q[k].seq = n + k
        BY <2>3
      <3> HIDE DEF q, d
      <3>5. f[i] \in Seq(TrueDeltas) /\ Len(f[i]) = i - m
        BY <1>5, <3>1, <3>2, AppendProperties
      <3>6. ASSUME NEW k \in 1 .. Len(f[i]) PROVE f[i][k].stream = stream /\ f[i][k].seq = n + k
        <4>1. CASE k = i - m
          <5>1. f[i][k] = d
            BY <1>5, <3>1, <3>2, <4>1, AppendProperties
          <5> QED BY <3>3, <4>1, <5>1
        <4>2. CASE k # i - m
          <5>1. k \in 1 .. Len(q)
            BY <1>5, <3>2, <3>5, <4>2
          <5>2. f[i][k] = q[k]
            BY <3>1, <5>1, AppendProperties
          <5> QED BY <3>4, <5>1, <5>2
        <4> QED BY <4>1, <4>2
      <3>7. Good(i)
        BY <1>5, <2>6, <3>5, <3>6
      <3> HIDE DEF Good
      <3> QED BY <2>1, <3>7
    <2> QED BY <2>5, <2>6
  <1> HIDE DEF G
  <1>8. L \in G
    <2>1. \A i \in 1 .. L : i - 1 \in G => i \in G
      BY <1>7
    <2>2. L \in 0 .. L
      BY <1>1
    <2>3. \A k \in 0 .. L : k \in G
      BY <1>1, <1>6, <2>1, UpTo, Zenon
    <2> QED BY <2>2, <2>3
  <1>9. Good(L)
    BY <1>8 DEF G
  <1>10. Len(f[L]) = sequence - n
    BY <1>1, <1>5, <1>9
  <1> QED BY <1>3, <1>9, <1>10


-----------------------------------------------------------------------------
(* Applying deltas. *)

\* A delta of the feed, applied to the state the feed had before it, gives the one it had then.
LEMMA AppliedTrue ==
    ASSUME FeedInv, NEW v \in TrueViews, NEW d \in TrueDeltas, Applies(v, d)
    PROVE  /\ Applied(v, d) \in TrueViews
           /\ Applied(v, d).stream = v.stream /\ Applied(v, d).seq = v.seq + 1
  <1>1. v \in Views /\ v.seq <= Len(log[v.stream]) /\ v.content = log[v.stream][v.seq]
    BY DEF TrueViews
  <1>2. d \in Deltas /\ d.seq <= Len(log[d.stream])
        /\ log[d.stream][d.seq] = Changed(HeldBefore(d.stream, d.seq), d.changed)
    BY DEF TrueDeltas, TrueDelta
  <1>3. d.stream = v.stream /\ d.seq = v.seq + 1
    BY DEF Applies
  <1>4. v.seq \in Nat /\ v.seq >= 1 /\ d.seq \in 1 .. MaxSequence /\ v.stream \in 1 .. MaxStreams
    BY <1>1, <1>2, FeedAssumption DEF Views, Deltas
  <1>5. HeldBefore(d.stream, d.seq) = v.content
    BY <1>1, <1>3, <1>4 DEF HeldBefore
  <1>6. log[v.stream] \in Seq(Contents)
    BY <1>4 DEF FeedInv
  <1>7. log[v.stream][d.seq] \in Contents
    BY <1>2, <1>3, <1>4, <1>6
  <1>8. log[v.stream][d.seq] = Changed(v.content, d.changed)
    BY <1>2, <1>3, <1>5
  <1>9. Applied(v, d) = [stream |-> v.stream, seq |-> d.seq, content |-> log[v.stream][d.seq]]
    BY <1>8 DEF Applied
  <1>10. Applied(v, d) \in Views
    BY <1>4, <1>7, <1>9 DEF Views
  <1> QED BY <1>2, <1>3, <1>9, <1>10 DEF TrueViews

\* A round of #drainPending stays with a state of the feed, in its stream and not before it.
LEMMA DrainStepFacts ==
    ASSUME FeedInv, NEW b \in TrueViews \cup {NoView}, NEW d \in TrueDeltas
    PROVE  /\ DrainStep(b, d) \in TrueViews \cup {NoView}
           /\ DrainStep(b, d) # NoView =>
                /\ b # NoView
                /\ DrainStep(b, d).stream = b.stream
                /\ \/ DrainStep(b, d).seq = b.seq /\ d.seq <= b.seq
                   \/ DrainStep(b, d).seq = b.seq + 1
  <1>1. CASE b # NoView /\ d.stream = b.stream /\ d.seq <= b.seq
    <2>1. DrainStep(b, d) = b
      BY <1>1, Zenon DEF DrainStep
    <2> QED BY <1>1, <2>1, Zenon
  <1>2. CASE ~(b # NoView /\ d.stream = b.stream /\ d.seq <= b.seq)
    <2>1. CASE Applies(b, d)
      <3>1. DrainStep(b, d) = Applied(b, d)
        BY <1>2, <2>1, Zenon DEF DrainStep
      <3>2. b # NoView /\ b \in TrueViews
        BY <2>1, Zenon DEF Applies
      <3> QED BY <2>1, <3>1, <3>2, AppliedTrue, Zenon
    <2>2. CASE ~Applies(b, d)
      <3>1. DrainStep(b, d) = NoView
        BY <1>2, <2>2, Zenon DEF DrainStep
      <3> QED BY <3>1, Zenon
    <2> QED BY <2>1, <2>2
  <1> QED BY <1>1, <1>2

\* What is pending are the next deltas behind v.
Continues(v) == \A i \in DOMAIN pending : pending[i].stream = v.stream /\ pending[i].seq = v.seq + i

\* The states of #drainPending.
LEMMA DrainStatesFacts ==
    ASSUME FeedInv, ClientTypes, NEW v \in TrueViews, NEW i \in 0 .. Len(pending)
    PROVE  /\ DrainStates(v)[i] \in TrueViews \cup {NoView}
           /\ DrainStates(v)[i] # NoView =>
                /\ DrainStates(v)[i].stream = v.stream
                /\ DrainStates(v)[i].seq >= v.seq
                /\ Continues(v) => DrainStates(v)[i].seq = v.seq + i
  <1> DEFINE st == DrainStates(v)
             n == Len(pending)
             Good(k) == /\ st[k] \in TrueViews \cup {NoView}
                        /\ st[k] # NoView =>
                             /\ st[k].stream = v.stream
                             /\ st[k].seq >= v.seq
                             /\ Continues(v) => st[k].seq = v.seq + k
             G == {k \in 0 .. n : Good(k)}
  <1>1. pending \in Seq(TrueDeltas) /\ n \in Nat /\ DOMAIN pending = 1 .. n
    BY DEF ClientTypes
  <1>2. Drained(st, v, pending, n)
    BY <1>1, DrainStatesRecursive
  <1> HIDE DEF st, n
  <1>3. st[0] = v /\ \A k \in 1 .. n : st[k] = DrainStep(st[k - 1], pending[k])
    BY <1>1, <1>2 DEF Drained
  <1>4. \A w \in TrueViews : w.seq \in Nat /\ w \in Views
    BY FeedAssumption DEF TrueViews, Views
  <1>5. 0 \in G
    <2>1. v.seq >= v.seq /\ v.seq + 0 = v.seq
      BY <1>4
    <2>2. Good(0)
      BY <1>3, <2>1, Zenon
    <2> HIDE DEF Good
    <2> QED BY <1>1, <2>2
  <1>6. ASSUME NEW k \in 1 .. n, k - 1 \in G PROVE k \in G
    <2> DEFINE b == st[k - 1]
               d == pending[k]
    <2>1. b \in TrueViews \cup {NoView} /\ d \in TrueDeltas /\ st[k] = DrainStep(b, d)
      BY <1>1, <1>3, <1>6
    <2>2. b # NoView => /\ b.stream = v.stream
                        /\ b.seq >= v.seq
                        /\ Continues(v) => b.seq = v.seq + (k - 1)
      BY <1>6
    <2>3. Continues(v) => d.seq = v.seq + k
      BY <1>1 DEF Continues
    <2> HIDE DEF b, d
    <2>4. /\ st[k] \in TrueViews \cup {NoView}
          /\ st[k] # NoView => /\ b # NoView
                               /\ st[k].stream = b.stream
                               /\ \/ st[k].seq = b.seq /\ d.seq <= b.seq
                                  \/ st[k].seq = b.seq + 1
      BY <2>1, DrainStepFacts, Zenon
    <2>5. ASSUME st[k] # NoView
          PROVE  /\ st[k].stream = v.stream
                 /\ st[k].seq >= v.seq
                 /\ Continues(v) => st[k].seq = v.seq + k
      <3>1. b # NoView /\ b \in TrueViews /\ b.seq \in Nat /\ v.seq \in Nat /\ k \in Nat
        BY <1>4, <2>1, <2>4, <2>5
      <3>2. st[k].stream = v.stream
        BY <2>2, <2>4, <2>5, <3>1, Zenon
      <3>3. CASE st[k].seq = b.seq + 1
        BY <2>2, <3>1, <3>2, <3>3
      <3>4. CASE st[k].seq = b.seq /\ d.seq <= b.seq
        <4>1. ~Continues(v)
          BY <2>2, <2>3, <3>1, <3>4
        <4> QED BY <2>2, <3>1, <3>2, <3>4, <4>1
      <3> QED BY <2>4, <2>5, <3>3, <3>4
    <2>6. Good(k)
      BY <2>4, <2>5, Zenon
    <2> HIDE DEF Good
    <2> QED BY <1>1, <2>6
  <1> HIDE DEF G
  <1>7. \A k \in 0 .. n : k \in G
    <2>1. \A k \in 1 .. n : k - 1 \in G => k \in G
      BY <1>6
    <2> QED BY <1>1, <1>5, <2>1, UpTo, Zenon
  <1>8. Good(i)
    <2> HIDE DEF Good
    <2> QED BY <1>7 DEF G, n
  <1> QED BY <1>8 DEF st

\* #drainPending reaches a state of the feed, in the same stream and not before v. If it asks
\* for no other snapshot, nothing was lost, and deltas that continue v are all applied.
LEMMA DrainFacts ==
    ASSUME FeedInv, ClientTypes, NEW v \in TrueViews
    PROVE  /\ DrainPending(v).state \in TrueViews
           /\ DrainPending(v).state.stream = v.stream
           /\ DrainPending(v).state.seq >= v.seq
           /\ ~DrainPending(v).resnapshot =>
                /\ ~pendingReset /\ ~overflow
                /\ Continues(v) => DrainPending(v).state.seq = v.seq + Len(pending)
  <1> DEFINE st == DrainStates(v)
             n == Len(pending)
             At(i) == st[i] # NoView /\ (i = n \/ st[i + 1] = NoView)
             r == CHOOSE i \in DOMAIN st : At(i)
  <1>1. n \in Nat /\ pending \in Seq(TrueDeltas) /\ v \in Views /\ v # NoView /\ v.seq \in Nat
    BY ConnectionAssumption, FeedAssumption DEF ClientTypes, TrueViews, Views
  <1>2. DOMAIN st = 0 .. n /\ st[0] = v
    BY <1>1, DrainStatesRecursive DEF Drained
  <1>3. \A i \in 0 .. n :
          /\ st[i] \in TrueViews \cup {NoView}
          /\ st[i] # NoView => /\ st[i].stream = v.stream
                               /\ st[i].seq >= v.seq
                               /\ Continues(v) => st[i].seq = v.seq + i
    BY DrainStatesFacts
  <1>4. DrainPending(v) = IF pendingReset \/ overflow
                          THEN [state |-> v, resnapshot |-> TRUE]
                          ELSE [state |-> st[r], resnapshot |-> r < n]
    BY DEF DrainPending
  <1> HIDE DEF st, n
  <1>5. \E i \in 0 .. n : At(i)
    <2> DEFINE S == {i \in 0 .. n : st[i] = NoView}
    <2>1. CASE S = {}
      <3>1. n \in 0 .. n
        BY <1>1
      <3>2. st[n] # NoView
        BY <2>1, <3>1
      <3> QED BY <3>1, <3>2
    <2>2. CASE S # {}
      <3>1. S \in SUBSET Nat
        BY <1>1
      <3>2. PICK m \in S : \A k \in S : m <= k
        BY <2>2, <3>1, LeastNumber
      <3>3. m \in 1 .. n /\ st[m] = NoView
        BY <1>1, <1>2, <3>2
      <3>4. m - 1 \in 0 .. n /\ ~(m <= m - 1) /\ (m - 1) + 1 = m
        <4> m \in Nat /\ m >= 1 /\ m <= n
          BY <1>1, <3>3
        <4> QED BY <1>1
      <3>5. st[m - 1] # NoView
        BY <3>2, <3>4
      <3> QED BY <3>3, <3>4, <3>5
    <2> QED BY <2>1, <2>2
  <1>6. r \in 0 .. n /\ At(r)
    <2> HIDE DEF At
    <2> QED BY <1>2, <1>5, Zenon
  <1> HIDE DEF r
  <1>7. CASE pendingReset \/ overflow
    <2>1. DrainPending(v).state = v /\ DrainPending(v).resnapshot = TRUE
      BY <1>4, <1>7
    <2> QED BY <1>1, <2>1
  <1>8. CASE ~(pendingReset \/ overflow)
    <2>1. DrainPending(v).state = st[r] /\ DrainPending(v).resnapshot = (r < n)
      BY <1>4, <1>8
    <2>2. ASSUME ~(r < n) PROVE r = n
      BY <1>1, <1>6, <2>2
    <2>3. st[r] \in TrueViews
      BY <1>3, <1>6
    <2> QED BY <1>3, <1>6, <1>8, <2>1, <2>2, <2>3, Zenon DEF n
  <1> QED BY <1>7, <1>8

-----------------------------------------------------------------------------
(* The log grows. *)

\* Streams get longer, and what they have emitted stays.
Grows ==
    /\ log' \in [1 .. MaxStreams -> Seq(Contents)]
    /\ \A s \in 1 .. MaxStreams :
         Len(log[s]) <= Len(log'[s]) /\ \A k \in 1 .. Len(log[s]) : log'[s][k] = log[s][k]

\* What was true of the log stays true.
LEMMA TrueMonotone ==
    ASSUME FeedInv, Grows
    PROVE  TrueDeltas \subseteq TrueDeltas' /\ TrueEvents \subseteq TrueEvents'
           /\ TrueViews \subseteq TrueViews'
  <1>0. \A s \in 1 .. MaxStreams : /\ Len(log[s]) \in Nat /\ Len(log'[s]) \in Nat
                                   /\ Len(log[s]) <= Len(log'[s])
                                   /\ \A k \in 1 .. Len(log[s]) : log'[s][k] = log[s][k]
    BY DEF FeedInv, Grows
  <1>1. ASSUME NEW d \in Deltas, TrueDelta(d) PROVE TrueDelta(d)'
    <2>1. d.stream \in 1 .. MaxStreams /\ d.seq \in Nat /\ d.seq >= 1
      BY FeedAssumption DEF Deltas
    <2>2. d.seq <= Len(log[d.stream])
          /\ log[d.stream][d.seq] = Changed(HeldBefore(d.stream, d.seq), d.changed)
      BY <1>1 DEF TrueDelta
    <2>3. d.seq <= Len(log'[d.stream]) /\ log'[d.stream][d.seq] = log[d.stream][d.seq]
      BY <1>0, <2>1, <2>2
    <2>4. HeldBefore(d.stream, d.seq)' = HeldBefore(d.stream, d.seq)
      <3>1. CASE d.seq = 1
        BY <3>1 DEF HeldBefore
      <3>2. CASE d.seq # 1
        <4>1. d.seq - 1 \in 1 .. Len(log[d.stream])
          BY <1>0, <2>1, <2>2, <3>2
        <4>2. log'[d.stream][d.seq - 1] = log[d.stream][d.seq - 1]
          BY <1>0, <2>1, <4>1
        <4> QED BY <3>2, <4>2 DEF HeldBefore
      <3> QED BY <3>1, <3>2
    <2> QED BY <2>2, <2>3, <2>4 DEF TrueDelta
  <1>2. TrueDeltas \subseteq TrueDeltas'
    BY <1>1, Zenon DEF TrueDeltas
  <1>3. TrueEvents \subseteq TrueEvents'
    <2>1. \A e \in [kind: {"delta"}, delta: Deltas] : e.delta \in Deltas
      OBVIOUS
    <2> QED BY <1>1, <2>1, Zenon DEF TrueEvents
  <1>4. ASSUME NEW v \in TrueViews PROVE v \in TrueViews'
    <2>1. v \in Views /\ v.stream \in 1 .. MaxStreams /\ v.seq \in Nat /\ v.seq >= 1
          /\ v.seq <= Len(log[v.stream]) /\ v.content = log[v.stream][v.seq]
      BY FeedAssumption DEF TrueViews, Views
    <2>2. v.seq <= Len(log'[v.stream]) /\ log'[v.stream][v.seq] = log[v.stream][v.seq]
      BY <1>0, <2>1
    <2> QED BY <2>1, <2>2 DEF TrueViews
  <1> QED BY <1>2, <1>3, <1>4

\* A step that leaves the log alone.
LEMMA SameLog ==
    ASSUME FeedInv, UNCHANGED log
    PROVE  Grows
  BY DEF FeedInv, Grows

\* What a delta changes.
Changes == [{"commit"} -> Nat] \cup [{"mark"} -> Nat] \cup Contents

\* Changed items leave a public state a public state.
LEMMA ChangedType ==
    ASSUME NEW c \in Contents, NEW changed \in Changes
    PROVE  Changed(c, changed) \in Contents
  <1>1. ASSUME NEW i \in Items PROVE (IF i \in DOMAIN changed THEN changed[i] ELSE c[i]) \in Nat
    BY DEF Changes, Contents, Items
  <1> QED BY <1>1 DEF Changed, Contents

\* What the feed holds is a public state.
LEMMA ContentType ==
    ASSUME FeedInv
    PROVE  Nothing \in Contents /\ content \in Contents
  <1>1. Nothing \in Contents
    BY DEF Nothing, Contents, Items
  <1>2. CASE sequence = 0
    BY <1>1, <1>2 DEF FeedInv
  <1>3. CASE sequence # 0
    <2>1. stream \in 1 .. MaxStreams /\ sequence \in 1 .. Len(log[stream])
      BY <1>3, FeedAssumption DEF FeedInv
    <2>2. log[stream] \in Seq(Contents) /\ content = log[stream][sequence]
      BY <1>3, <2>1 DEF FeedInv
    <2> QED BY <1>1, <2>1, <2>2
  <1> QED BY <1>1, <1>2, <1>3

-----------------------------------------------------------------------------
(* Sequences. *)

\* enqueue: the transport ends, or what is on its way are the old payloads and the new ones.
LEMMA EnqueueFacts ==
    ASSUME NEW T, wire \in Seq(T), queue \in Seq(T), waiting \in BOOLEAN,
           ~waiting => queue = <<>>,
           NEW from, NEW payloads \in Seq(T), Enqueue(from, payloads)
    PROVE  \/ /\ subscribed' = 0 /\ queue' = <<>> /\ waiting' = FALSE
              /\ \E sent \in Seq(T) : wire' = sent \o <<End>>
           \/ /\ subscribed' = from /\ wire' \in Seq(T) /\ queue' \in Seq(T)
              /\ waiting' \in BOOLEAN /\ (queue' # <<>> => waiting')
              /\ Len(queue') <= QueueLimit
              /\ wire' \o queue' = (wire \o queue) \o payloads
  <1>1. ASSUME NEW sent \in Seq(T), EndTransport(sent)
        PROVE  /\ subscribed' = 0 /\ queue' = <<>> /\ waiting' = FALSE
               /\ \E s \in Seq(T) : wire' = s \o <<End>>
    <2>1. wire \o sent \in Seq(T)
      BY ConcatProperties
    <2>2. wire' = (wire \o sent) \o <<End>>
      BY <1>1 DEF EndTransport
    <2> QED BY <1>1, <2>1, <2>2 DEF EndTransport
  <1>2. CASE waiting
    <2>1. CASE Len(queue) + Len(payloads) <= QueueLimit
      <3>1. queue' = queue \o payloads /\ subscribed' = from /\ waiting' = waiting /\ wire' = wire
        BY <1>2, <2>1 DEF Enqueue
      <3>2. queue' \in Seq(T) /\ Len(queue') <= QueueLimit
        BY <2>1, <3>1, ConcatProperties
      <3>3. wire' \o queue' = (wire \o queue) \o payloads
        BY <3>1, ConcatAssociative, SMTT(30)
      <3> QED BY <1>2, <3>1, <3>2, <3>3
    <2>2. CASE ~(Len(queue) + Len(payloads) <= QueueLimit)
      <3>1. EndTransport(<<>>)
        BY <1>2, <2>2 DEF Enqueue
      <3>2. <<>> \in Seq(T)
        OBVIOUS
      <3> QED BY <1>1, <3>1, <3>2, Zenon
    <2> QED BY <2>1, <2>2
  <1>3. CASE ~waiting
    <2> DEFINE part(k) == SubSeq(payloads, 1, k)
               rest(k) == SubSeq(payloads, k + 1, Len(payloads))
    <2>1. PICK k \in 0 .. Len(payloads), full \in BOOLEAN :
             /\ rest(k) # <<>> => full /\ k > 0
             /\ IF Len(rest(k)) <= QueueLimit
                THEN /\ wire' = wire \o part(k)
                     /\ queue' = rest(k)
                     /\ waiting' = full
                     /\ subscribed' = from
                ELSE EndTransport(part(k))
      BY <1>3 DEF Enqueue
    <2>2. Len(payloads) \in Nat /\ \A i \in 1 .. Len(payloads) : payloads[i] \in T
      OBVIOUS
    <2>3. part(k) \in Seq(T) /\ rest(k) \in Seq(T)
      BY <2>2, SubSeqProperties
    <2>4. part(k) \o rest(k) = payloads
      <3>1. 1 \in 1 .. Len(payloads) + 1 /\ k \in 1 - 1 .. Len(payloads)
            /\ Len(payloads) \in k .. Len(payloads)
        BY <2>2
      <3>2. part(k) \o rest(k) = SubSeq(payloads, 1, Len(payloads))
        BY <3>1, ConcatAdjacentSubSeq
      <3> HIDE DEF part, rest
      <3> QED BY <3>2, SubSeqFull
    <2> HIDE DEF part, rest
    <2>5. CASE Len(rest(k)) <= QueueLimit
      <3>1. wire' = wire \o part(k) /\ queue' = rest(k) /\ waiting' = full /\ subscribed' = from
        BY <2>1, <2>5
      <3>2. wire' \o queue' = wire \o payloads
        <4>1. (wire \o part(k)) \o rest(k) = wire \o (part(k) \o rest(k))
          BY <2>3
        <4> QED BY <2>4, <3>1, <4>1, Zenon
      <3>3. wire \o queue = wire
        BY <1>3, ConcatEmptySeq
      <3>4. wire' \in Seq(T)
        BY <2>3, <3>1, ConcatProperties
      <3>5. queue' # <<>> => waiting'
        BY <2>1, <3>1, Zenon
      <3> QED BY <2>3, <2>5, <3>1, <3>2, <3>3, <3>4, <3>5
    <2>6. CASE ~(Len(rest(k)) <= QueueLimit)
      <3>1. EndTransport(part(k))
        BY <2>1, <2>6
      <3> QED BY <1>1, <2>3, <3>1, Zenon
    <2> QED BY <2>5, <2>6
  <1> QED BY <1>2, <1>3

\* A response that has ended ends with End.
LEMMA EndsWithEnd ==
    ASSUME NEW T, NEW sent \in Seq(T)
    PROVE  /\ sent \o <<End>> \in Seq(T \cup {End})
           /\ sent \o <<End>> # <<>>
           /\ (sent \o <<End>>)[Len(sent \o <<End>>)] = End
  <1> DEFINE U == T \cup {End}
             last == <<End>>
  <1>1. sent \in Seq(U)
    BY SeqMonotonic
  <1>2. last \in Seq(U) /\ Len(last) = 1 /\ last[1] = End
    OBVIOUS
  <1> HIDE DEF U, last
  <1>3. /\ sent \o last \in Seq(U) /\ Len(sent \o last) = Len(sent) + Len(last)
        /\ \A i \in 1 .. Len(sent) + Len(last) :
             (sent \o last)[i] = IF i <= Len(sent) THEN sent[i] ELSE last[i - Len(sent)]
    BY <1>1, <1>2, ConcatProperties, Zenon
  <1>4. Len(sent) \in Nat
    OBVIOUS
  <1>5. (sent \o last)[Len(sent) + 1] = End
    <2>1. Len(sent) + 1 \in 1 .. Len(sent) + Len(last) /\ ~(Len(sent) + 1 <= Len(sent))
          /\ Len(sent) + 1 - Len(sent) = 1
      BY <1>2, <1>4
    <2> QED BY <1>2, <1>3, <2>1
  <1>6. sent \o last # <<>>
    BY <1>2, <1>3, <1>4
  <1> QED BY <1>2, <1>3, <1>4, <1>5, <1>6 DEF U, last

-----------------------------------------------------------------------------
(* What a step of the feed does to what is on its way. *)

\* Everything on its way stays, and what the log gets is added to it.
Continued ==
    /\ subscribed' = subscribed /\ subscribed # 0
    /\ Len(Flight') = Len(Flight) + (Len(log'[subscribed]) - Len(log[subscribed]))
    /\ \A i \in 1 .. Len(Flight) : Flight'[i] = Flight[i]
    /\ \A i \in Len(Flight) + 1 .. Len(Flight') :
         /\ Flight'[i].delta.stream = subscribed
         /\ Flight'[i].delta.seq = Len(log[subscribed]) + (i - Len(Flight))

Ended ==
    /\ subscribed # 0 \/ wire # <<>>
    /\ subscribed' = 0
    /\ wire' # <<>> /\ wire'[Len(wire')] = End

Idle == subscribed = 0 /\ subscribed' = 0 /\ wire' = wire

\* The client's parts of the invariant after a step of the feed.
LEMMA FeedLeavesClient ==
    ASSUME ConnectionInv, Grows, FeedInv', HistoryInv', TransportInv', UNCHANGED client,
           Continued \/ Ended \/ Idle
    PROVE  ConnectionInv'
  <1>1. /\ view' = view /\ frozen' = frozen /\ sync' = sync /\ reply' = reply
        /\ connected' = connected /\ buffering' = buffering /\ pending' = pending
        /\ pendingReset' = pendingReset /\ overflow' = overflow /\ again' = again
        /\ timer' = timer /\ closed' = closed
    BY DEF client
  <1>2. ClientTypes'
    <2>1. TrueDeltas \subseteq TrueDeltas' /\ TrueViews \subseteq TrueViews'
      BY TrueMonotone DEF ConnectionInv
    <2>2. pending \in Seq(TrueDeltas')
      BY <2>1, SeqMonotonic DEF ConnectionInv, ClientTypes
    <2>3. view \in TrueViews' \cup {NoView} /\ reply \in TrueViews' \cup {NoView, Failed}
      BY <2>1 DEF ConnectionInv, ClientTypes
    <2>4. ClientTypes
      BY DEF ConnectionInv
    <2> QED BY <1>1, <2>2, <2>3, <2>4 DEF ClientTypes
  <1>3. ClientPhases'
    <2>1. ASSUME sync = "handshake", reply = NoView PROVE wire' = <<>> /\ subscribed' = 0
      <3>1. wire = <<>> /\ subscribed = 0
        BY <2>1 DEF ConnectionInv, ClientPhases
      <3> QED BY <3>1 DEF Continued, Ended, Idle
    <2>2. ClientPhases
      BY DEF ConnectionInv
    <2> QED BY <1>1, <2>1, <2>2 DEF ClientPhases
  <1>4. ReplyInv'
    <2>1. ReplyInv
      BY DEF ConnectionInv
    <2> QED BY <1>1, <2>1 DEF ReplyInv
  <1>5. ASSUME Follows' PROVE ChainInv'
    <2>1. Follows
      BY <1>1, <1>5 DEF Follows
    <2>2. CASE Ended
      <3>1. subscribed' = 0 /\ wire' # <<>> /\ wire'[Len(wire')] = End
        BY <2>2 DEF Ended
      <3> QED BY <3>1 DEF ChainInv
    <2>3. CASE Idle
      <3>1. subscribed' = 0 /\ wire' # <<>> /\ wire'[Len(wire')] = End
        BY <2>1, <2>3 DEF Idle, ConnectionInv, ChainInv
      <3> QED BY <3>1 DEF ChainInv
    <2>4. CASE Continued
      <3> DEFINE s == subscribed
                 m == Len(Flight)
                 n == view.seq + Len(pending)
                 l == Len(log[s])
                 k == Len(log'[s])
      <3>1. /\ s # 0 /\ view.stream = s
            /\ \A i \in DOMAIN pending : pending[i].stream = s /\ pending[i].seq = view.seq + i
            /\ \A i \in DOMAIN Flight : Flight[i].delta.stream = s /\ Flight[i].delta.seq = n + i
            /\ n + m = l
        BY <2>1, <2>4 DEF ConnectionInv, ChainInv, Continued
      <3>2. m \in Nat /\ DOMAIN Flight = 1 .. m
        <4>1. wire \in Seq(Sent) /\ queue \in Seq(Sent)
          <5>1. TrueEvents \subseteq Sent
            BY DEF Sent
          <5> QED BY <5>1, SeqMonotonic DEF ConnectionInv, TransportInv
        <4>2. Flight \in Seq(Sent)
          BY <4>1, ConcatProperties DEF Flight
        <4> QED BY <4>2, LenProperties
      <3>3. DOMAIN Flight' = 1 .. Len(Flight') /\ Len(Flight') \in Nat
        <4>1. wire' \in Seq(Sent') /\ queue' \in Seq(Sent')
          <5>1. TrueEvents' \subseteq Sent'
            BY DEF Sent
          <5> QED BY <5>1, SeqMonotonic DEF TransportInv
        <4>2. Flight' \in Seq(Sent')
          BY <4>1, ConcatProperties DEF Flight
        <4> QED BY <4>2, LenProperties
      <3>4. n \in Nat /\ l \in Nat /\ k \in Nat
        <4>1. s \in 1 .. MaxStreams
          BY <3>1, FeedAssumption DEF ConnectionInv, TransportInv, FeedInv
        <4>2. log[s] \in Seq(Contents) /\ log'[s] \in Seq(Contents)
          BY <4>1 DEF ConnectionInv, FeedInv, Grows
        <4>3. view.seq \in Nat
          <5>1. view \in TrueViews
            BY <2>1, Zenon DEF Follows, ConnectionInv, ClientTypes
          <5> QED BY <5>1, FeedAssumption DEF TrueViews, Views
        <4>4. Len(pending) \in Nat
          BY DEF ConnectionInv, ClientTypes
        <4> QED BY <4>2, <4>3, <4>4
      <3>5. /\ subscribed' = s /\ Len(Flight') = m + (k - l)
            /\ \A i \in 1 .. m : Flight'[i] = Flight[i]
            /\ \A i \in m + 1 .. Len(Flight') :
                 Flight'[i].delta.stream = s /\ Flight'[i].delta.seq = l + (i - m)
        BY <2>4 DEF Continued
      <3> DEFINE F == Flight
                 H == Flight'
      <3> HIDE DEF s, m, l, k, n, F, H
      <3>6. /\ \A i \in 1 .. m : F[i].delta.stream = s /\ F[i].delta.seq = n + i
            /\ \A i \in 1 .. m : H[i] = F[i]
            /\ \A i \in m + 1 .. Len(H) : H[i].delta.stream = s /\ H[i].delta.seq = l + (i - m)
            /\ Len(H) = m + (k - l) /\ DOMAIN H = 1 .. Len(H) /\ Len(H) \in Nat
        BY <3>1, <3>2, <3>3, <3>5 DEF F, H
      <3>11. n + m = l /\ Len(H) = m + (k - l)
        BY <3>1, <3>6, Zenon
      <3>7. ASSUME NEW i \in DOMAIN H PROVE H[i].delta.stream = s /\ H[i].delta.seq = n + i
        <4>1. CASE i <= m
          <5>1. i \in 1 .. m
            BY <3>2, <3>6, <4>1
          <5> QED BY <3>6, <5>1
        <4>2. CASE ~(i <= m)
          <5>0. i \in 1 .. Len(H) /\ Len(H) \in Nat
            BY <3>6, Zenon
          <5>1. i \in m + 1 .. Len(H) /\ l + (i - m) = n + i
            BY <3>2, <3>4, <3>11, <4>2, <5>0
          <5> QED BY <3>6, <5>1
        <4> QED BY <4>1, <4>2
      <3>8. n + Len(H) = k
        BY <3>2, <3>4, <3>11
      <3>9. /\ subscribed' = s /\ s # 0 /\ view'.stream = s
            /\ \A i \in DOMAIN pending' : pending'[i].stream = s /\ pending'[i].seq = view'.seq + i
        BY <1>1, <3>1, <3>5
      <3>10. /\ \A i \in DOMAIN Flight' : /\ Flight'[i].delta.stream = s
                                          /\ Flight'[i].delta.seq = view'.seq + Len(pending') + i
             /\ view'.seq + Len(pending') + Len(Flight') = Len(log'[s])
        BY <1>1, <3>7, <3>8 DEF H, n, k
      <3> QED BY <3>9, <3>10, Zenon DEF ChainInv
    <2> QED BY <2>2, <2>3, <2>4
  <1>6. ChainInv'
    BY <1>5 DEF ChainInv
  <1> QED BY <1>2, <1>3, <1>4, <1>6 DEF ConnectionInv

-----------------------------------------------------------------------------
(* The transport in a step of the feed. *)

\* Deltas, resets and the end of a response are different events.
LEMMA KindsDiffer ==
    /\ End \in Sent /\ Reset \in Sent /\ TrueEvents \subseteq Sent
    /\ End \notin TrueEvents /\ Reset \notin TrueEvents /\ Reset # End
  BY DEF Sent, End, Reset, TrueEvents

\* What may be on the wire stays so when the log grows.
LEMMA SentMonotone ==
    ASSUME FeedInv, Grows
    PROVE  Sent \subseteq Sent'
  BY TrueMonotone DEF Sent, End, Reset

\* A transport that ends keeps its invariant, and says so in its last event.
LEMMA EndedTransport ==
    ASSUME subscribed # 0 \/ wire # <<>>, stream' \in Nat,
           subscribed' = 0, queue' = <<>>, waiting' = FALSE,
           NEW sent \in Seq(Sent'), wire' = sent \o <<End>>
    PROVE  TransportInv' /\ Ended
  <1> DEFINE T == Sent'
  <1>1. T \cup {End} = T
    BY DEF Sent
  <1> HIDE DEF T
  <1>2. sent \in Seq(T)
    BY DEF T
  <1>3. wire' \in Seq(T) /\ wire' # <<>> /\ wire'[Len(wire')] = End
    BY <1>1, <1>2, EndsWithEnd
  <1>4. wire' \in Seq(Sent')
    BY <1>3 DEF T
  <1>5. <<>> \in Seq(TrueEvents') /\ Len(<<>>) = 0 /\ Len(<<>>) <= QueueLimit
    BY FeedAssumption
  <1>6. 0 \in 0 .. stream'
    OBVIOUS
  <1> QED BY <1>3, <1>4, <1>5, <1>6 DEF TransportInv, Ended

\* A step of the feed that writes nothing to the transport.
LEMMA SameTransport ==
    ASSUME FeedInv, TransportInv, Grows, UNCHANGED transport, stream' \in Nat, stream <= stream',
           subscribed # 0 => Len(log'[subscribed]) = Len(log[subscribed])
    PROVE  TransportInv' /\ (Continued \/ Idle)
  <1>1. subscribed' = subscribed /\ queue' = queue /\ waiting' = waiting /\ wire' = wire
    BY DEF transport
  <1>2. wire \in Seq(Sent') /\ queue \in Seq(TrueEvents')
    BY SentMonotone, TrueMonotone, SeqMonotonic DEF TransportInv
  <1>3. subscribed # 0 => wire \in Seq(TrueEvents')
    BY TrueMonotone, SeqMonotonic DEF TransportInv
  <1>4. subscribed \in 0 .. stream'
    BY DEF TransportInv, FeedInv
  <1>5. TransportInv'
    BY <1>1, <1>2, <1>3, <1>4 DEF TransportInv
  <1>6. CASE subscribed = 0
    BY <1>1, <1>5, <1>6 DEF Idle
  <1>7. CASE subscribed # 0
    <2>1. Flight' = Flight
      BY <1>1 DEF Flight
    <2>2. wire \in Seq(TrueEvents) /\ queue \in Seq(TrueEvents)
      BY <1>7 DEF TransportInv
    <2>3. Len(Flight) \in Nat
      BY <2>2, ConcatProperties, LenProperties DEF Flight
    <2>4. Len(log[subscribed]) \in Nat
      BY <1>7, FeedAssumption DEF FeedInv, TransportInv
    <2> DEFINE F == Flight
               l == Len(log[subscribed])
    <2>5. F \in Seq(TrueEvents) /\ Len(F) \in Nat /\ l \in Nat
      BY <2>2, <2>3, <2>4, ConcatProperties DEF Flight
    <2>6. Flight' = F /\ Len(log'[subscribed]) = l
      BY <1>7, <2>1
    <2> HIDE DEF F, l
    <2>7. Len(F) = Len(F) + (l - l) /\ Len(F) + 1 .. Len(F) = {}
      BY <2>5
    <2>8. Continued
      BY <1>1, <1>7, <2>6, <2>7 DEF Continued, F, l
    <2> QED BY <1>5, <2>8
  <1> QED BY <1>6, <1>7

\* What is on its way to an attached transport.
LEMMA FlightType ==
    ASSUME TransportInv, subscribed # 0
    PROVE  Flight \in Seq(TrueEvents) /\ Len(Flight) \in Nat /\ DOMAIN Flight = 1 .. Len(Flight)
  <1>1. wire \in Seq(TrueEvents) /\ queue \in Seq(TrueEvents)
    BY DEF TransportInv
  <1>2. Flight \in Seq(TrueEvents)
    BY <1>1, ConcatProperties DEF Flight
  <1> QED BY <1>2, LenProperties

\* A delta that is enqueued for the transport that listens to its stream.
LEMMA EnqueuedDelta ==
    ASSUME FeedInv, TransportInv, Grows, stream' \in Nat,
           NEW s \in 1 .. stream', s \in 1 .. MaxStreams,
           subscribed = s, Len(log'[s]) = Len(log[s]) + 1,
           NEW d \in TrueDeltas', d.stream = s, d.seq = Len(log[s]) + 1,
           Enqueue(s, <<DeltaEvent(d)>>)
    PROVE  TransportInv' /\ (Continued \/ Ended)
  <1> DEFINE T == TrueEvents'
             e == DeltaEvent(d)
             p == <<e>>
             l == Len(log[s])
  <1>1. e \in T /\ e.delta = d
    BY DEF DeltaEvent, TrueEvents, TrueDeltas
  <1>2. s # 0 /\ l \in Nat
    BY DEF FeedInv
  <1>3. wire \in Seq(T) /\ queue \in Seq(T)
    BY <1>2, TrueMonotone, SeqMonotonic DEF TransportInv
  <1>4. p \in Seq(T) /\ Len(p) = 1 /\ p[1] = e
    BY <1>1
  <1>5. waiting \in BOOLEAN /\ (~waiting => queue = <<>>)
    BY DEF TransportInv
  <1>6. Flight \in Seq(TrueEvents) /\ Len(Flight) \in Nat
    BY <1>2, FlightType
  <1>7. Flight \in Seq(T)
    BY <1>3, ConcatProperties DEF Flight
  <1>8. Enqueue(s, p) /\ e.delta.stream = s /\ e.delta.seq = l + 1 /\ Len(log'[s]) = l + 1
    BY <1>1
  <1>9. T \subseteq Sent'
    BY DEF Sent
  <1> HIDE DEF T, e, p, l
  <1>10. \/ /\ subscribed' = 0 /\ queue' = <<>> /\ waiting' = FALSE
            /\ \E sent \in Seq(T) : wire' = sent \o <<End>>
         \/ /\ subscribed' = s /\ wire' \in Seq(T) /\ queue' \in Seq(T)
            /\ waiting' \in BOOLEAN /\ (queue' # <<>> => waiting')
            /\ Len(queue') <= QueueLimit
            /\ wire' \o queue' = (wire \o queue) \o p
    BY <1>3, <1>4, <1>5, <1>8, EnqueueFacts
  <1>11. ASSUME /\ subscribed' = 0 /\ queue' = <<>> /\ waiting' = FALSE
                /\ \E sent \in Seq(T) : wire' = sent \o <<End>>
         PROVE  TransportInv' /\ Ended
    <2>1. PICK sent \in Seq(T) : wire' = sent \o <<End>>
      BY <1>11
    <2>2. sent \in Seq(Sent')
      BY <1>9, SeqMonotonic
    <2> QED BY <1>2, <1>11, <2>1, <2>2, EndedTransport
  <1>12. ASSUME /\ subscribed' = s /\ wire' \in Seq(T) /\ queue' \in Seq(T)
                /\ waiting' \in BOOLEAN /\ (queue' # <<>> => waiting')
                /\ Len(queue') <= QueueLimit
                /\ wire' \o queue' = (wire \o queue) \o p
         PROVE  TransportInv' /\ Continued
    <2>1. wire' \in Seq(Sent')
      BY <1>9, <1>12, SeqMonotonic
    <2>2. s \in 0 .. stream'
      OBVIOUS
    <2>3. TransportInv'
      BY <1>2, <1>12, <2>1, <2>2 DEF TransportInv, T
    <2> DEFINE F == Flight
               m == Len(F)
    <2>4. Flight' = F \o p
      BY <1>12 DEF Flight
    <2>5. F \in Seq(T) /\ m \in Nat
      BY <1>6, <1>7
    <2> HIDE DEF F
    <2>6. /\ Len(F \o p) = m + 1 /\ (F \o p)[m + 1] = e
          /\ \A i \in 1 .. m : (F \o p)[i] = F[i]
      <3>1. /\ Len(F \o p) = m + Len(p)
            /\ \A i \in 1 .. m + Len(p) : (F \o p)[i] = IF i <= m THEN F[i] ELSE p[i - m]
        BY <1>4, <2>5, ConcatProperties, Zenon
      <3> HIDE DEF m
      <3>2. m + 1 \in 1 .. m + Len(p) /\ ~(m + 1 <= m) /\ (m + 1) - m = 1
            /\ \A i \in 1 .. m : i \in 1 .. m + Len(p) /\ i <= m
        BY <1>4, <2>5
      <3>3. (F \o p)[m + 1] = p[(m + 1) - m]
        BY <3>1, <3>2, Zenon
      <3> QED BY <1>4, <3>1, <3>2, <3>3, Zenon
    <2> HIDE DEF m
    <2>7. m + 1 = m + (Len(log'[s]) - l) /\ m + 1 .. m + 1 = {m + 1} /\ l + ((m + 1) - m) = l + 1
      BY <1>2, <1>8, <2>5
    <2>8. \A i \in m + 1 .. m + 1 : /\ Flight'[i].delta.stream = s
                                    /\ Flight'[i].delta.seq = l + (i - m)
      <3>1. ASSUME NEW i \in m + 1 .. m + 1 
            PROVE  Flight'[i].delta.stream = s /\ Flight'[i].delta.seq = l + (i - m)
        <4>1. i = m + 1
          BY <2>5
        <4>2. Flight'[i] = e
          BY <2>4, <2>6, <4>1, Zenon
        <4> QED BY <1>8, <2>7, <4>1, <4>2, Zenon
      <3> QED BY <3>1
    <2>9. Continued
      <3>1. Len(Flight') = m + 1 /\ \A i \in 1 .. m : Flight'[i] = Flight[i]
        BY <2>4, <2>6, Zenon DEF F
      <3>2. /\ m = Len(Flight) /\ l = Len(log[subscribed]) /\ subscribed' = subscribed
            /\ subscribed # 0
        BY <1>2, <1>12 DEF m, l, F
      <3> QED BY <2>7, <2>8, <3>1, <3>2, Zenon DEF Continued
    <2> QED BY <2>3, <2>9
  <1> QED BY <1>10, <1>11, <1>12, Zenon

-----------------------------------------------------------------------------
(* Publishing. *)

\* A delta behind those it continues.
LEMMA AppendContinues ==
    ASSUME NEW T, NEW past \in Seq(T), NEW d \in T, NEW s, NEW n \in Nat, Runs(past, s, n),
           d.stream = s, d.seq = n + 1
    PROVE  /\ Append(past, d) \in Seq(T) /\ Append(past, d) # <<>>
           /\ Len(Append(past, d)) = Len(past) + 1
           /\ \A i \in 1 .. Len(past) + 1 :
                /\ Append(past, d)[i].stream = s
                /\ Append(past, d)[i].seq = (n + 1) - (Len(past) + 1) + i
  <1> DEFINE all == Append(past, d)
             p == Len(past)
  <1>1. /\ all \in Seq(T) /\ all # <<>> /\ Len(all) = p + 1 /\ p \in Nat
        /\ \A i \in 1 .. p : all[i] = past[i]
        /\ all[p + 1] = d
    BY AppendProperties
  <1>2. \A i \in 1 .. p : past[i].stream = s /\ past[i].seq = n - p + i
    BY DEF Runs
  <1>3. p \in Nat /\ d.seq = n + 1 /\ d.stream = s
    BY <1>1
  <1> HIDE DEF p, all
  <1>4. \A i \in Int : n - p + i = (n + 1) - (p + 1) + i
    BY <1>3
  <1>5. n + 1 = (n + 1) - (p + 1) + (p + 1)
    BY <1>3
  <1>6. ASSUME NEW i \in 1 .. p + 1
        PROVE  all[i].stream = s /\ all[i].seq = (n + 1) - (p + 1) + i
    <2>1. CASE i = p + 1
      <3>1. all[i] = d
        BY <1>1, <2>1, Zenon
      <3> QED BY <1>3, <1>5, <2>1, <3>1, Zenon
    <2>2. CASE i # p + 1
      <3>1. i \in 1 .. p /\ i \in Int
        BY <1>3, <2>2
      <3>2. all[i] = past[i]
        BY <1>1, <3>1, Zenon
      <3> QED BY <1>2, <1>4, <3>1, <3>2, Zenon
    <2> QED BY <2>1, <2>2
  <1> QED BY <1>1, <1>6 DEF all, p

\* The ring buffer h after delta d came to past.
Ring(h, past, d) ==
    h = IF Len(Append(past, d)) > HistoryLimit THEN Tail(Append(past, d)) ELSE Append(past, d)

\* The ring buffer drops its first delta when it is full.
LEMMA RingFacts ==
    ASSUME NEW T, NEW past \in Seq(T), NEW d \in T, NEW s, NEW n \in Nat, NEW h,
           Runs(past, s, n), Len(past) <= HistoryLimit, Len(past) <= n,
           d.stream = s, d.seq = n + 1, Ring(h, past, d)
    PROVE  h \in Seq(T) /\ Len(h) <= HistoryLimit /\ Len(h) <= n + 1 /\ Runs(h, s, n + 1)
  <1> DEFINE all == Append(past, d)
             a == Len(all)
             b == Len(h)
  <1>1. /\ all \in Seq(T) /\ all # <<>> /\ a = Len(past) + 1
        /\ \A i \in 1 .. Len(past) + 1 :
             all[i].stream = s /\ all[i].seq = (n + 1) - (Len(past) + 1) + i
    BY AppendContinues
  <1>2. \A i \in 1 .. a : all[i].stream = s /\ all[i].seq = (n + 1) - a + i
    BY <1>1, Zenon
  <1>3. h = IF a > HistoryLimit THEN Tail(all) ELSE all
    BY DEF Ring
  <1>4. a \in Nat /\ a <= n + 1 /\ a <= HistoryLimit + 1 /\ HistoryLimit \in Nat
    <2>1. Len(past) \in Nat
      OBVIOUS
    <2> HIDE DEF a
    <2> QED BY <1>1, <2>1, FeedAssumption
  <1>5. a = Len(all)
    OBVIOUS
  <1> HIDE DEF all, a
  <1>6. CASE ~(a > HistoryLimit)
    <2>1. h = all /\ DOMAIN all = 1 .. a /\ b = a
      BY <1>1, <1>3, <1>5, <1>6
    <2> QED BY <1>1, <1>2, <1>4, <1>6, <2>1 DEF Runs
  <1>7. CASE a > HistoryLimit
    <2>1. h = Tail(all)
      BY <1>3, <1>7
    <2>2. h \in Seq(T) /\ b = a - 1 /\ (\A i \in 1 .. b : h[i] = all[i + 1]) /\ DOMAIN h = 1 .. b
      <3>1. /\ Tail(all) \in Seq(T) /\ Len(Tail(all)) = Len(all) - 1
            /\ \A i \in 1 .. Len(Tail(all)) : Tail(all)[i] = all[i + 1]
        BY <1>1, HeadTailProperties
      <3>2. DOMAIN Tail(all) = 1 .. Len(Tail(all))
        BY <3>1, LenProperties
      <3> QED BY <1>5, <2>1, <3>1, <3>2, Zenon
    <2>3. b \in Nat /\ b = a - 1
      BY <2>2
    <2> HIDE DEF b
    <2>4. b <= HistoryLimit /\ b <= n + 1
      BY <1>4, <2>3
    <2>5. \A i \in 1 .. b : i + 1 \in 1 .. a /\ (n + 1) - a + (i + 1) = (n + 1) - b + i
      BY <1>4, <2>3
    <2>6. \A i \in 1 .. b : h[i].stream = s /\ h[i].seq = (n + 1) - b + i
      <3> SUFFICES ASSUME NEW i \in 1 .. b
                   PROVE  h[i].stream = s /\ h[i].seq = (n + 1) - b + i
        OBVIOUS
      <3>1. h[i] = all[i + 1] /\ i + 1 \in 1 .. a /\ (n + 1) - a + (i + 1) = (n + 1) - b + i
        BY <2>2, <2>5
      <3>2. all[i + 1].stream = s /\ all[i + 1].seq = (n + 1) - a + (i + 1)
        BY <1>2, <3>1, Zenon
      <3> QED BY <3>1, <3>2, Zenon
    <2> QED BY <2>2, <2>4, <2>6, Zenon DEF b, Runs
  <1> QED BY <1>6, <1>7

\* #emit keeps the invariant: the log and the ring buffer get the delta, and the transport
\* that listens to the stream gets it too or ends.
LEMMA EmitStep ==
    ASSUME ConnectionInv, UNCHANGED client,
           NEW s \in 1 .. MaxStreams, stream <= s,
           NEW n \in Nat, n < MaxSequence, n = Len(log[s]),
           NEW past \in Seq(TrueDeltas), Len(past) <= HistoryLimit, Len(past) <= n,
           Runs(past, s, n), NEW c \in Contents, c = IF n = 0 THEN Nothing ELSE log[s][n],
           NEW changed \in Changes, Emit(s, n, past, c, changed),
           entry' \in {"absent", "locked", "live"}, marks' \in 0 .. 1, released' \in BOOLEAN
    PROVE  ConnectionInv'
  <1> DEFINE d == [stream |-> s, seq |-> n + 1, changed |-> changed]
             e == Changed(c, changed)
             all == Append(past, d)
  <1>0. FeedInv /\ HistoryInv /\ TransportInv
    BY DEF ConnectionInv
  <1>1. /\ stream' = s /\ sequence' = n + 1 /\ content' = e
        /\ history' = IF Len(all) > HistoryLimit THEN Tail(all) ELSE all
        /\ log' = [log EXCEPT ![s] = Append(@, e)]
        /\ IF subscribed = s THEN Enqueue(s, <<DeltaEvent(d)>>) ELSE UNCHANGED transport
    BY DEF Emit
  <1>2. e \in Contents
    BY ChangedType
  <1>3. log \in [1 .. MaxStreams -> Seq(Contents)] /\ stream \in 0 .. MaxStreams
        /\ \A t \in 1 .. MaxStreams : t > stream => log[t] = <<>>
    BY <1>0 DEF FeedInv
  <1> HIDE DEF e
  <1>4. /\ log' \in [1 .. MaxStreams -> Seq(Contents)]
        /\ log'[s] = Append(log[s], e)
        /\ \A t \in 1 .. MaxStreams : t # s => log'[t] = log[t]
    BY <1>1, <1>2, <1>3
  <1>5. /\ Len(log'[s]) = n + 1 /\ log'[s][n + 1] = e
        /\ \A k \in 1 .. n : log'[s][k] = log[s][k]
    <2>1. log[s] \in Seq(Contents)
      BY <1>3
    <2> QED BY <1>2, <1>4, <2>1, AppendProperties
  <1>6. Grows
    <2>1. ASSUME NEW t \in 1 .. MaxStreams
          PROVE  Len(log[t]) <= Len(log'[t]) /\ \A k \in 1 .. Len(log[t]) : log'[t][k] = log[t][k]
      <3>1. CASE t = s
        BY <1>5, <3>1
      <3>2. CASE t # s
        <4>1. log'[t] = log[t] /\ Len(log[t]) \in Nat
          BY <1>3, <1>4, <3>2
        <4> QED BY <4>1
      <3> QED BY <3>1, <3>2
    <2> QED BY <1>4, <2>1, Zenon DEF Grows
  <1>7. FeedInv'
    <2>1. n + 1 \in 0 .. MaxSequence /\ n + 1 # 0 /\ s # 0 /\ s \in 0 .. MaxStreams
      BY FeedAssumption
    <2>2. ASSUME NEW t \in 1 .. MaxStreams, t > s PROVE log'[t] = <<>>
      <3>1. t > stream /\ t # s
        BY <1>3, <2>2
      <3> QED BY <1>3, <1>4, <3>1
    <2> QED BY <1>1, <1>4, <1>5, <2>1, <2>2 DEF FeedInv
  <1>8. d \in TrueDeltas'
    <2>1. d \in Deltas
      <3>1. n + 1 \in 1 .. MaxSequence
        BY FeedAssumption
      <3> QED BY <3>1 DEF Deltas, Changes
    <2>2. HeldBefore(s, n + 1)' = c
      <3>1. CASE n = 0
        <4>1. n + 1 = 1
          BY <3>1
        <4> QED BY <3>1, <4>1 DEF HeldBefore
      <3>2. CASE n # 0
        <4>1. n + 1 # 1 /\ (n + 1) - 1 = n /\ n \in 1 .. n
          BY <3>2
        <4> QED BY <1>5, <3>2, <4>1 DEF HeldBefore
      <3> QED BY <3>1, <3>2
    <2>3. TrueDelta(d)'
      <3>1. d.stream = s /\ d.seq = n + 1 /\ d.changed = changed
        OBVIOUS
      <3> HIDE DEF d
      <3>2. n + 1 <= Len(log'[s]) /\ log'[s][n + 1] = Changed(HeldBefore(s, n + 1)', changed)
        BY <1>5, <2>2 DEF e
      <3> QED BY <3>1, <3>2 DEF TrueDelta
    <2> QED BY <2>1, <2>3 DEF TrueDeltas
  <1>9. d.stream = s /\ d.seq = n + 1
    OBVIOUS
  <1>10. IF subscribed = s THEN Enqueue(s, <<DeltaEvent(d)>>) ELSE UNCHANGED transport
    BY <1>1
  <1>11. history' = IF Len(all) > HistoryLimit THEN Tail(all) ELSE all
    BY <1>1
  <1> HIDE DEF d
  <1>12. HistoryInv'
    <2> DEFINE T == TrueDeltas'
    <2>1. past \in Seq(T)
      BY <1>0, <1>6, TrueMonotone, SeqMonotonic
    <2>2. d \in T
      BY <1>8
    <2>3. Ring(history', past, d)
      BY <1>11 DEF Ring
    <2> HIDE DEF T
    <2>4. /\ history' \in Seq(T) /\ Len(history') <= HistoryLimit /\ Len(history') <= n + 1
          /\ Runs(history', s, n + 1)
      BY <1>9, <2>1, <2>2, <2>3, RingFacts, Zenon
    <2> QED BY <1>1, <2>4, Zenon DEF HistoryInv, T, Runs
  <1>13. stream' \in Nat /\ s \in 1 .. stream' /\ stream <= stream'
    BY <1>1, <1>3, FeedAssumption
  <1>14. TransportInv' /\ (Continued \/ Ended \/ Idle)
    <2>1. CASE subscribed = s
      <3>1. Enqueue(s, <<DeltaEvent(d)>>)
        BY <1>10, <2>1
      <3> QED BY <1>0, <1>5, <1>6, <1>8, <1>9, <1>13, <2>1, <3>1, EnqueuedDelta
    <2>2. CASE subscribed # s
      <3>1. UNCHANGED transport
        BY <1>10, <2>2
      <3>2. ASSUME subscribed # 0 PROVE Len(log'[subscribed]) = Len(log[subscribed])
        <4>1. subscribed \in 1 .. MaxStreams
          BY <1>0, <1>3, <3>2, FeedAssumption DEF TransportInv
        <4> QED BY <1>4, <2>2, <4>1
      <3> QED BY <1>0, <1>6, <1>13, <3>1, <3>2, SameTransport
    <2> QED BY <2>1, <2>2
  <1> QED BY <1>6, <1>7, <1>12, <1>14, FeedLeavesClient

\* An emission on the feed there is.
LEMMA EmitHere ==
    ASSUME ConnectionInv, UNCHANGED client, entry # "absent", sequence < MaxSequence,
           NEW changed \in Changes, Emit(stream, sequence, history, content, changed),
           entry' \in {"absent", "locked", "live"}, marks' \in 0 .. 1, released' \in BOOLEAN
    PROVE  ConnectionInv'
  <1>1. /\ stream \in 1 .. MaxStreams /\ sequence \in Nat /\ sequence = Len(log[stream])
        /\ stream <= stream
        /\ content = IF sequence = 0 THEN Nothing ELSE log[stream][sequence]
    BY FeedAssumption DEF ConnectionInv, FeedInv
  <1>2. content \in Contents
    BY ContentType DEF ConnectionInv
  <1>3. /\ history \in Seq(TrueDeltas) /\ Len(history) <= HistoryLimit /\ Len(history) <= sequence
        /\ Runs(history, stream, sequence)
    BY DEF ConnectionInv, HistoryInv
  <1> QED BY <1>1, <1>2, <1>3, EmitStep, Zenon

\* initializeRegion, on a new feed or on the one there is.
LEMMA InitializeStep ==
    ASSUME ConnectionInv, UNCHANGED client, NEW c \in Commits, InitializeRegion(c)
    PROVE  ConnectionInv'
  <1> DEFINE changed == [commit |-> c, mark |-> marks]
  <1>1. FeedInv
    BY DEF ConnectionInv
  <1>2. changed \in Changes
    <2>1. c \in Nat /\ marks \in Nat
      BY <1>1, FeedAssumption DEF FeedInv
    <2> QED BY <2>1 DEF Changes, Contents, Items
  <1>3. entry' \in {"absent", "locked", "live"} /\ marks' \in 0 .. 1 /\ released' \in BOOLEAN
    BY <1>1 DEF InitializeRegion, FeedInv
  <1>4. CASE entry = "absent"
    <2>1. stream < MaxStreams /\ Emit(stream + 1, 0, <<>>, Nothing, changed)
      BY <1>4 DEF InitializeRegion
    <2>2. stream + 1 \in 1 .. MaxStreams /\ stream <= stream + 1 /\ stream + 1 > stream
      BY <1>1, <2>1, FeedAssumption DEF FeedInv
    <2>3. log[stream + 1] = <<>>
      BY <1>1, <2>2 DEF FeedInv
    <2>4. 0 \in Nat /\ 0 < MaxSequence /\ 0 = Len(log[stream + 1])
      BY <2>3, FeedAssumption
    <2>5. /\ <<>> \in Seq(TrueDeltas) /\ Len(<<>>) <= HistoryLimit /\ Len(<<>>) <= 0
          /\ Runs(<<>>, stream + 1, 0)
      BY FeedAssumption DEF Runs
    <2>6. Nothing \in Contents /\ Nothing = IF 0 = 0 THEN Nothing ELSE log[stream + 1][0]
      BY <1>1, ContentType
    <2> HIDE DEF changed
    <2> QED BY <1>2, <1>3, <2>1, <2>2, <2>4, <2>5, <2>6, EmitStep, Zenon
  <1>5. CASE entry # "absent"
    <2>1. sequence < MaxSequence /\ Emit(stream, sequence, history, content, changed)
      BY <1>5 DEF InitializeRegion
    <2> HIDE DEF changed
    <2> QED BY <1>2, <1>3, <1>5, <2>1, EmitHere, Zenon
  <1> QED BY <1>4, <1>5

\* publishOperationalRegionSnapshot.
LEMMA PublishStep ==
    ASSUME ConnectionInv, UNCHANGED client, PublishFrame
    PROVE  ConnectionInv'
  <1> DEFINE changed == [commit |-> content.commit + 1]
  <1>1. FeedInv
    BY DEF ConnectionInv
  <1>2. changed \in Changes
    <2>1. content.commit + 1 \in Nat
      BY FeedAssumption DEF PublishFrame
    <2> QED BY <2>1 DEF Changes
  <1>3. /\ entry # "absent" /\ sequence < MaxSequence
        /\ Emit(stream, sequence, history, content, changed)
        /\ entry' \in {"absent", "locked", "live"} /\ marks' \in 0 .. 1 /\ released' \in BOOLEAN
    BY <1>1 DEF PublishFrame, FeedInv
  <1> HIDE DEF changed
  <1> QED BY <1>2, <1>3, EmitHere, Zenon

\* A step that publishes nothing.
LEMMA QuietStep ==
    ASSUME ConnectionInv, UNCHANGED client, UNCHANGED <<stream, sequence, content, history, log>>,
           entry' \in {"absent", "locked", "live"}, entry' = "live" => entry = "live",
           stream = 0 => entry' = "absent", marks' \in 0 .. 1, released' \in BOOLEAN,
           UNCHANGED transport \/ (TransportInv' /\ (Continued \/ Ended))
    PROVE  ConnectionInv'
  <1>1. FeedInv /\ HistoryInv /\ TransportInv
    BY DEF ConnectionInv
  <1>2. Grows
    BY <1>1, SameLog
  <1>3. FeedInv'
    BY <1>1 DEF FeedInv
  <1>4. HistoryInv'
    <2>1. history \in Seq(TrueDeltas')
      BY <1>1, <1>2, TrueMonotone, SeqMonotonic DEF HistoryInv
    <2>2. Runs(history, stream, sequence)'
      <3>1. /\ history' = history /\ stream' = stream /\ sequence' = sequence
            /\ Runs(history, stream, sequence)
        BY <1>1 DEF HistoryInv
      <3> QED BY <3>1 DEF Runs
    <2> QED BY <1>1, <2>1, <2>2 DEF HistoryInv
  <1>5. CASE UNCHANGED transport
    <2>1. /\ stream' \in Nat /\ stream <= stream'
          /\ (subscribed # 0 => Len(log'[subscribed]) = Len(log[subscribed]))
      BY <1>1, FeedAssumption DEF FeedInv
    <2>2. TransportInv' /\ (Continued \/ Idle)
      BY <1>1, <1>2, <1>5, <2>1, SameTransport
    <2> QED BY <1>2, <1>3, <1>4, <2>2, FeedLeavesClient
  <1>6. CASE TransportInv' /\ (Continued \/ Ended)
    BY <1>2, <1>3, <1>4, <1>6, FeedLeavesClient
  <1> QED BY <1>5, <1>6

\* setOperationMarker: a new locked feed, an emission, or only the registry's marker.
LEMMA SetMarkerStep ==
    ASSUME ConnectionInv, UNCHANGED client, SetMarker
    PROVE  ConnectionInv'
  <1>1. FeedInv /\ HistoryInv /\ TransportInv
    BY DEF ConnectionInv
  <1>2. marks' \in 0 .. 1 /\ released' \in BOOLEAN /\ sequence < MaxSequence /\ 1 - marks \in Nat
    BY <1>1, FeedAssumption DEF SetMarker, FeedInv
  <1>3. ASSUME /\ entry = "absent"
               /\ stream < MaxStreams
               /\ entry' = "locked"
               /\ stream' = stream + 1
               /\ sequence' = 0
               /\ history' = <<>>
               /\ content' = Nothing
               /\ UNCHANGED <<log, transport>>
        PROVE  ConnectionInv'
    <2>1. Grows
      BY <1>1, <1>3, SameLog
    <2>2. stream + 1 \in 1 .. MaxStreams /\ stream \in Nat
      BY <1>1, <1>3, FeedAssumption DEF FeedInv
    <2>3. log[stream + 1] = <<>> /\ \A s \in 1 .. MaxStreams : s > stream + 1 => log[s] = <<>>
      BY <1>1, <2>2 DEF FeedInv
    <2>4. FeedInv'
      <3>1. stream' \in 0 .. MaxStreams /\ stream' # 0 /\ 0 \in 0 .. MaxSequence
        BY <1>3, <2>2, FeedAssumption
      <3>2. Len(log'[stream']) = 0
        BY <1>3, <2>3
      <3> QED BY <1>1, <1>2, <1>3, <2>3, <3>1, <3>2 DEF FeedInv
    <2>5. HistoryInv'
      BY <1>3, FeedAssumption DEF HistoryInv, Runs
    <2>6. /\ stream' \in Nat /\ stream <= stream'
          /\ (subscribed # 0 => Len(log'[subscribed]) = Len(log[subscribed]))
      BY <1>3, <2>2
    <2>7. TransportInv' /\ (Continued \/ Idle)
      <3>1. UNCHANGED transport
        BY <1>3
      <3> QED BY <1>1, <2>1, <2>6, <3>1, SameTransport
    <2> QED BY <2>1, <2>4, <2>5, <2>7, FeedLeavesClient
  <1>4. ASSUME /\ entry # "absent"
               /\ Emit(stream, sequence, history, content, [mark |-> 1 - marks])
               /\ UNCHANGED entry
        PROVE  ConnectionInv'
    <2> DEFINE changed == [mark |-> 1 - marks]
    <2>1. changed \in Changes
      BY <1>2 DEF Changes
    <2>2. entry' \in {"absent", "locked", "live"}
      BY <1>1, <1>4 DEF FeedInv
    <2>3. Emit(stream, sequence, history, content, changed)
      BY <1>4
    <2> HIDE DEF changed
    <2> QED BY <1>2, <1>4, <2>1, <2>2, <2>3, EmitHere, Zenon
  <1>5. ASSUME UNCHANGED <<entry, stream, sequence, history, content, log, transport>>
        PROVE  ConnectionInv'
    <2>1. /\ entry' \in {"absent", "locked", "live"} /\ (entry' = "live" => entry = "live")
          /\ (stream = 0 => entry' = "absent")
      BY <1>1, <1>5 DEF FeedInv
    <2> QED BY <1>2, <1>5, <2>1, QuietStep
  <1> QED BY <1>3, <1>4, <1>5 DEF SetMarker

\* EndTransport, on an attached transport.
LEMMA EndTransportFacts ==
    ASSUME FeedInv, TransportInv, UNCHANGED <<stream, log>>, subscribed # 0,
           NEW sent \in Seq(Sent), EndTransport(sent)
    PROVE  TransportInv' /\ Ended
  <1>1. Sent \subseteq Sent'
    BY SameLog, SentMonotone
  <1>2. wire \o sent \in Seq(Sent)
    BY ConcatProperties DEF TransportInv
  <1>3. wire \o sent \in Seq(Sent')
    BY <1>1, <1>2, SeqMonotonic
  <1>4. /\ subscribed' = 0 /\ queue' = <<>> /\ waiting' = FALSE
        /\ wire' = (wire \o sent) \o <<End>>
    BY DEF EndTransport
  <1>5. stream' \in Nat
    BY FeedAssumption DEF FeedInv
  <1> QED BY <1>3, <1>4, <1>5, EndedTransport

\* What takes the entry, the feed or the transport away.
LEMMA LossStep ==
    ASSUME ConnectionInv, UNCHANGED client, FeedLoss \/ ReleaseWorld
    PROVE  ConnectionInv'
  <1>1. FeedInv /\ HistoryInv /\ TransportInv
    BY DEF ConnectionInv
  <1>2. /\ entry \in {"absent", "locked", "live"} /\ (stream = 0 => entry = "absent")
        /\ marks \in 0 .. 1 /\ released \in BOOLEAN /\ stream \in Nat /\ 0 \in 0 .. 1
    BY <1>1, FeedAssumption DEF FeedInv
  <1>3. <<>> \in Seq(Sent) /\ <<Reset>> \in Seq(Sent)
    <2>1. Reset \in Sent
      BY DEF Sent
    <2> QED BY <2>1
  <1>4. CASE MarkUnavailable
    <2>1. /\ entry # "absent" /\ entry' = "locked" /\ Invalidate
          /\ UNCHANGED <<stream, sequence, content, history, marks, released, log>>
      BY <1>4 DEF MarkUnavailable
    <2>2. UNCHANGED transport \/ (TransportInv' /\ Ended)
      BY <1>1, <1>3, <2>1, EndTransportFacts DEF Invalidate
    <2> QED BY <1>2, <2>1, <2>2, QuietStep
  <1>5. CASE ExpireEntry
    BY <1>2, <1>5, QuietStep DEF ExpireEntry
  <1>6. CASE ReleaseWorld
    BY <1>2, <1>6, QuietStep DEF ReleaseWorld
  <1>7. CASE Restart
    <2>1. /\ entry' = "absent" /\ marks' = 0
          /\ UNCHANGED <<stream, sequence, content, history, released, log>>
          /\ IF subscribed # 0 THEN EndTransport(<<>>) ELSE UNCHANGED transport
      BY <1>7 DEF Restart
    <2>2. UNCHANGED transport \/ (TransportInv' /\ Ended)
      BY <1>1, <1>3, <2>1, EndTransportFacts
    <2> QED BY <1>2, <2>1, <2>2, QuietStep
  <1>8. CASE Stall
    <2>1. subscribed # 0 /\ EndTransport(<<>>) /\ UNCHANGED feed
      BY <1>8 DEF Stall
    <2>2. TransportInv' /\ Ended
      BY <1>1, <1>3, <2>1, EndTransportFacts DEF feed
    <2> QED BY <1>2, <2>1, <2>2, QuietStep DEF feed
  <1>9. CASE Break
    <2>1. PICK k \in 0 .. Len(wire) : wire' = SubSeq(wire, 1, k) \o <<End>>
      BY <1>9 DEF Break
    <2>2. /\ subscribed # 0 \/ wire # <<>>
          /\ subscribed' = 0 /\ queue' = <<>> /\ waiting' = FALSE /\ UNCHANGED feed
      BY <1>9 DEF Break
    <2> DEFINE sent == SubSeq(wire, 1, k)
    <2>3. wire \in Seq(Sent) /\ Len(wire) \in Nat /\ k \in Int /\ \A i \in 1 .. k : wire[i] \in Sent
      BY <1>1 DEF TransportInv
    <2>4. sent \in Seq(Sent)
      BY <2>3, SubSeqProperties
    <2>5. sent \in Seq(Sent')
      <3>1. Sent \subseteq Sent'
        BY <1>1, <2>2, SameLog, SentMonotone DEF feed
      <3> HIDE DEF sent
      <3> QED BY <2>4, <3>1, SeqMonotonic
    <2>6. wire' = sent \o <<End>> /\ stream' \in Nat
      BY <1>2, <2>1, <2>2 DEF feed
    <2> HIDE DEF sent
    <2>7. TransportInv' /\ Ended
      BY <2>2, <2>5, <2>6, EndedTransport
    <2> QED BY <1>2, <2>2, <2>7, QuietStep DEF feed
  <1> QED BY <1>4, <1>5, <1>6, <1>7, <1>8, <1>9 DEF FeedLoss

\* flush moves payloads from the queue to the wire and changes nothing on the way.
LEMMA FlushStep ==
    ASSUME ConnectionInv, UNCHANGED client, Drain
    PROVE  ConnectionInv'
  <1>1. FeedInv /\ HistoryInv /\ TransportInv
    BY DEF ConnectionInv
  <1>2. waiting /\ UNCHANGED feed /\ subscribed' = subscribed
    BY DEF Drain
  <1>3. subscribed # 0 /\ wire \in Seq(TrueEvents) /\ queue \in Seq(TrueEvents)
    BY <1>1, <1>2 DEF TransportInv
  <1> DEFINE part(k) == SubSeq(queue, 1, k)
             rest(k) == SubSeq(queue, k + 1, Len(queue))
  <1>4. PICK k \in 0 .. Len(queue), full \in BOOLEAN :
           /\ k < Len(queue) => full
           /\ wire' = wire \o part(k) /\ queue' = rest(k) /\ waiting' = full
    BY DEF Drain
  <1>5. /\ Len(queue) \in Nat /\ Len(queue) <= QueueLimit
        /\ \A i \in 1 .. Len(queue) : queue[i] \in TrueEvents
    BY <1>1, <1>3 DEF TransportInv
  <1>6. /\ part(k) \in Seq(TrueEvents) /\ rest(k) \in Seq(TrueEvents)
        /\ Len(rest(k)) <= Len(queue) /\ (k = Len(queue) => rest(k) = <<>>)
    BY <1>5, SubSeqProperties
  <1>7. part(k) \o rest(k) = queue
    <2>1. 1 \in 1 .. Len(queue) + 1 /\ k \in 1 - 1 .. Len(queue) /\ Len(queue) \in k .. Len(queue)
      BY <1>5
    <2>2. part(k) \o rest(k) = SubSeq(queue, 1, Len(queue))
      BY <1>3, <2>1, ConcatAdjacentSubSeq
    <2> HIDE DEF part, rest
    <2> QED BY <1>3, <2>2, SubSeqFull
  <1> HIDE DEF part, rest
  <1>8. Flight' = Flight
    <2>1. (wire \o part(k)) \o rest(k) = wire \o (part(k) \o rest(k))
      BY <1>3, <1>6
    <2> QED BY <1>4, <1>7, <2>1, Zenon DEF Flight
  <1>9. Grows
    BY <1>1, <1>2, SameLog DEF feed
  <1>10. TransportInv'
    <2>1. wire' \in Seq(TrueEvents)
      BY <1>3, <1>4, <1>6, ConcatProperties
    <2>2. wire' \in Seq(TrueEvents') /\ queue' \in Seq(TrueEvents')
      BY <1>1, <1>4, <1>6, <1>9, <2>1, TrueMonotone, SeqMonotonic
    <2>3. wire' \in Seq(Sent')
      <3>1. TrueEvents' \subseteq Sent'
        BY DEF Sent
      <3> QED BY <2>2, <3>1, SeqMonotonic
    <2>4. queue' # <<>> => waiting'
      BY <1>4, <1>5, <1>6
    <2>5. Len(queue') <= QueueLimit
      <3>1. Len(rest(k)) \in Nat
        BY <1>6
      <3> QED BY <1>4, <1>5, <1>6, <3>1, FeedAssumption
    <2>6. subscribed' \in 0 .. stream'
      BY <1>1, <1>2 DEF TransportInv, feed
    <2> QED BY <1>2, <1>3, <1>4, <2>2, <2>3, <2>4, <2>5, <2>6 DEF TransportInv
  <1>11. Continued
    <2> DEFINE F == Flight
               l == Len(log[subscribed])
    <2>1. Flight' = F /\ Len(F) \in Nat /\ l \in Nat /\ Len(log'[subscribed]) = l
      <3>1. l \in Nat
        BY <1>1, <1>3, FeedAssumption DEF FeedInv, TransportInv
      <3> QED BY <1>1, <1>2, <1>3, <1>8, <3>1, FlightType DEF feed
    <2> HIDE DEF F, l
    <2>2. Len(F) = Len(F) + (l - l) /\ Len(F) + 1 .. Len(F) = {}
      BY <2>1
    <2> QED BY <1>2, <1>3, <2>1, <2>2 DEF Continued, F, l
  <1> QED BY <1>1, <1>2, <1>10, <1>11, QuietStep DEF FeedInv, feed

\* Every step of the feed.
LEMMA FeedStep ==
    ASSUME ConnectionInv, UNCHANGED client, FeedWork \/ FeedLoss
    PROVE  ConnectionInv'
  BY InitializeStep, PublishStep, SetMarkerStep, LossStep, FlushStep, Zenon DEF FeedWork

-----------------------------------------------------------------------------
(* Steps of the routes and of the client. *)

\* A step that leaves the feed alone.
LEMMA SameFeed ==
    ASSUME ConnectionInv, UNCHANGED feed
    PROVE  /\ FeedInv' /\ HistoryInv'
           /\ TrueDeltas' = TrueDeltas /\ TrueEvents' = TrueEvents /\ TrueViews' = TrueViews
           /\ Sent' = Sent
  <1>1. /\ entry' = entry /\ stream' = stream /\ sequence' = sequence /\ content' = content
        /\ history' = history /\ marks' = marks /\ released' = released /\ log' = log
    BY DEF feed
  <1>2. \A d : TrueDelta(d)' = TrueDelta(d)
    BY <1>1 DEF TrueDelta, HeldBefore
  <1>3. /\ TrueDeltas' = TrueDeltas /\ TrueEvents' = TrueEvents /\ TrueViews' = TrueViews
        /\ Sent' = Sent
    BY <1>1, <1>2, Zenon DEF TrueDeltas, TrueEvents, TrueViews, Sent
  <1>4. FeedInv'
    BY <1>1 DEF ConnectionInv, FeedInv
  <1>5. HistoryInv'
    BY <1>1, <1>3 DEF ConnectionInv, HistoryInv, Runs
  <1> QED BY <1>3, <1>4, <1>5

\* A step of the client that leaves the transport alone.
LEMMA TransportStays ==
    ASSUME ConnectionInv, UNCHANGED feed, UNCHANGED transport
    PROVE  TransportInv' /\ Flight' = Flight
  <1>1. /\ subscribed' = subscribed /\ queue' = queue /\ waiting' = waiting /\ wire' = wire
        /\ stream' = stream
    BY DEF transport, feed
  <1>2. TransportInv'
    BY <1>1, SameFeed DEF ConnectionInv, TransportInv
  <1> QED BY <1>1, <1>2 DEF Flight

\* A transport that is not attached.
LEMMA Detached ==
    ASSUME stream' \in Nat, subscribed' = 0, queue' = <<>>, waiting' = FALSE, wire' \in Seq(Sent')
    PROVE  TransportInv'
  <1>1. 0 \in 0 .. stream'
    OBVIOUS
  <1>2. <<>> \in Seq(TrueEvents') /\ Len(<<>>) <= QueueLimit
    BY FeedAssumption
  <1> QED BY <1>1, <1>2 DEF TransportInv

\* The transport of a request that is given up.
LEMMA TransportGone ==
    ASSUME ConnectionInv, UNCHANGED feed,
           subscribed' = 0, queue' = <<>>, waiting' = FALSE, wire' = <<>>
    PROVE  TransportInv'
  <1>1. stream' \in Nat
    BY FeedAssumption DEF ConnectionInv, FeedInv, feed
  <1>2. wire' \in Seq(Sent')
    OBVIOUS
  <1> QED BY <1>1, <1>2, Detached

\* The chain when neither the client's cursor nor what is on its way changes.
LEMMA ChainStays ==
    ASSUME ConnectionInv, UNCHANGED feed, UNCHANGED transport, view' = view, pending' = pending,
           Follows' => Follows
    PROVE  ChainInv'
  <1>1. subscribed' = subscribed /\ wire' = wire /\ log' = log /\ Flight' = Flight
    BY TransportStays DEF transport, feed
  <1>2. ChainInv
    BY DEF ConnectionInv
  <1> QED BY <1>1, <1>2 DEF ChainInv

\* The snapshot route answers with a state not older than the client's.
LEMMA ServeSnapshotStep ==
    ASSUME ConnectionInv, ServeSnapshot
    PROVE  ConnectionInv'
  <1>1. /\ sync = "snapshot" /\ UNCHANGED feed /\ UNCHANGED transport
        /\ view' = view /\ frozen' = frozen /\ sync' = sync
        /\ connected' = connected /\ buffering' = buffering /\ pending' = pending
        /\ pendingReset' = pendingReset /\ overflow' = overflow /\ again' = again
        /\ timer' = timer /\ closed' = closed
        /\ reply' = IF entry = "live" THEN Snapshot ELSE Failed
    BY DEF ServeSnapshot
  <1>2. FeedInv /\ ClientTypes /\ ClientPhases
    BY DEF ConnectionInv
  <1>3. ASSUME entry = "live" PROVE Snapshot \in TrueViews
    <2>1. stream \in 1 .. MaxStreams /\ sequence \in 1 .. MaxSequence /\ sequence = Len(log[stream])
          /\ content = log[stream][sequence] /\ content \in Contents
      BY <1>2, <1>3, ContentType, FeedAssumption DEF FeedInv
    <2> QED BY <2>1 DEF Snapshot, TrueViews, Views
  <1>4. ClientTypes'
    BY <1>1, <1>2, <1>3, SameFeed DEF ClientTypes
  <1>5. ClientPhases'
    BY <1>1, <1>2 DEF ClientPhases
  <1>6. ReplyInv'
    <2>1. ASSUME entry = "live", view # NoView, Snapshot.stream = view.stream
          PROVE  Snapshot.seq >= view.seq
      <3>1. view \in TrueViews
        BY <1>2, <2>1 DEF ClientTypes
      <3>2. view.seq <= Len(log[view.stream]) /\ view.seq \in Nat
        BY <3>1, FeedAssumption DEF TrueViews, Views
      <3>3. Snapshot.seq = sequence /\ view.stream = stream
        BY <2>1 DEF Snapshot
      <3>4. sequence = Len(log[stream]) /\ sequence \in Nat
        BY <1>2, <2>1, FeedAssumption DEF FeedInv
      <3> QED BY <3>2, <3>3, <3>4
    <2> QED BY <1>1, <2>1, Zenon DEF ReplyInv
  <1>7. ChainInv'
    <2>1. ~Follows'
      BY <1>1, <1>2 DEF Follows, ClientPhases
    <2> QED BY <2>1 DEF ChainInv
  <1> QED BY <1>1, <1>4, <1>5, <1>6, <1>7, SameFeed, TransportStays DEF ConnectionInv

\* The events route replays what is behind the cursor and attaches the transport, or resets.
LEMMA SubscribeFacts ==
    ASSUME FeedInv, HistoryInv, TransportInv, subscribed = 0, wire = <<>>, entry = "live",
           NEW v \in TrueViews, Subscribe(v), UNCHANGED feed
    PROVE  /\ TransportInv'
           /\ subscribed' = 0 => wire' # <<>> /\ wire'[Len(wire')] = End
           /\ subscribed' # 0 =>
                /\ subscribed' = v.stream
                /\ Len(Flight') \in Nat /\ DOMAIN Flight' = 1 .. Len(Flight')
                /\ v.seq + Len(Flight') = Len(log[subscribed'])
                /\ \A i \in 1 .. Len(Flight') : /\ Flight'[i].delta.stream = subscribed'
                                                /\ Flight'[i].delta.seq = v.seq + i
  <1> DEFINE q == DeltasAfter(v.seq)
             p == [i \in 1 .. Len(q) |-> DeltaEvent(q[i])]
  <1>1. queue = <<>> /\ ~waiting /\ stream' = stream
    BY DEF TransportInv, feed
  <1>2. Grows /\ TrueEvents \subseteq TrueEvents' /\ Sent \subseteq Sent'
    BY SameLog, TrueMonotone, SentMonotone DEF feed
  <1>3. v.seq \in Nat /\ v.stream \in 1 .. MaxStreams
    BY FeedAssumption DEF TrueViews, Views
  <1>4. /\ stream \in 1 .. MaxStreams /\ sequence \in Nat /\ sequence = Len(log[stream])
        /\ stream \in Nat
    BY FeedAssumption DEF FeedInv
  <1>5. CASE Resumes(v)
    <2>1. v.stream = stream /\ v.seq <= sequence /\ (v.seq = sequence \/ Covers(v.seq))
      BY <1>5 DEF Resumes
    <2>2. Enqueue(stream, p)
      BY <1>5 DEF Subscribe
    <2>3. /\ q \in Seq(TrueDeltas) /\ Len(q) = sequence - v.seq
          /\ \A i \in 1 .. sequence - v.seq : q[i].stream = stream /\ q[i].seq = v.seq + i
      BY <1>3, <2>1, DeltasAfterFacts
    <2> HIDE DEF q
    <2>4. Len(q) \in Nat /\ \A i \in 1 .. Len(q) : q[i] \in TrueDeltas
      BY <2>3
    <2>5. \A i \in 1 .. Len(q) : DeltaEvent(q[i]) \in TrueEvents /\ DeltaEvent(q[i]).delta = q[i]
      BY <2>4 DEF DeltaEvent, TrueEvents, TrueDeltas
    <2> DEFINE T == TrueEvents'
    <2>6. p \in Seq(T) /\ Len(p) = Len(q) /\ \A i \in 1 .. Len(q) : p[i] = DeltaEvent(q[i])
      <3>1. \A i \in 1 .. Len(q) : DeltaEvent(q[i]) \in T
        BY <1>2, <2>5
      <3> HIDE DEF T
      <3>2. p \in [1 .. Len(q) -> T]
        BY <3>1
      <3> QED BY <2>4, <3>2
    <2>7. wire \in Seq(T) /\ queue \in Seq(T) /\ T \subseteq Sent'
      BY <1>1 DEF Sent
    <2>8. waiting \in BOOLEAN /\ (~waiting => queue = <<>>)
      BY <1>1 DEF TransportInv
    <2> HIDE DEF p, T
    <2>9. \/ /\ subscribed' = 0 /\ queue' = <<>> /\ waiting' = FALSE
             /\ \E sent \in Seq(T) : wire' = sent \o <<End>>
          \/ /\ subscribed' = stream /\ wire' \in Seq(T) /\ queue' \in Seq(T)
             /\ waiting' \in BOOLEAN /\ (queue' # <<>> => waiting')
             /\ Len(queue') <= QueueLimit
             /\ wire' \o queue' = (wire \o queue) \o p
      BY <2>2, <2>6, <2>7, <2>8, EnqueueFacts
    <2>10. ASSUME /\ subscribed' = 0 /\ queue' = <<>> /\ waiting' = FALSE
                  /\ \E sent \in Seq(T) : wire' = sent \o <<End>>
           PROVE  TransportInv' /\ subscribed' = 0 /\ wire' # <<>> /\ wire'[Len(wire')] = End
      <3>1. PICK sent \in Seq(T) : wire' = sent \o <<End>>
        BY <2>10
      <3>2. sent \in Seq(Sent')
        BY <2>7, SeqMonotonic
      <3> DEFINE S == Sent'
      <3>3. S \cup {End} = S
        BY DEF Sent
      <3>4. sent \in Seq(S)
        BY <3>2
      <3> HIDE DEF S
      <3>5. wire' \in Seq(S) /\ wire' # <<>> /\ wire'[Len(wire')] = End
        BY <3>1, <3>3, <3>4, EndsWithEnd
      <3>6. wire' \in Seq(Sent') /\ stream' \in Nat
        BY <1>1, <1>4, <3>5 DEF S
      <3> QED BY <2>10, <3>5, <3>6, Detached
    <2>11. ASSUME /\ subscribed' = stream /\ wire' \in Seq(T) /\ queue' \in Seq(T)
                  /\ waiting' \in BOOLEAN /\ (queue' # <<>> => waiting')
                  /\ Len(queue') <= QueueLimit
                  /\ wire' \o queue' = (wire \o queue) \o p
           PROVE  /\ TransportInv' /\ subscribed' # 0 /\ subscribed' = v.stream
                  /\ Len(Flight') \in Nat /\ DOMAIN Flight' = 1 .. Len(Flight')
                  /\ v.seq + Len(Flight') = Len(log[subscribed'])
                  /\ \A i \in 1 .. Len(Flight') : /\ Flight'[i].delta.stream = subscribed'
                                                  /\ Flight'[i].delta.seq = v.seq + i
      <3>1. wire' \in Seq(Sent')
        BY <2>7, <2>11, SeqMonotonic
      <3>2. subscribed' \in 0 .. stream' /\ subscribed' # 0
        BY <1>1, <1>4, <2>11
      <3>3. TransportInv'
        BY <2>11, <3>1, <3>2 DEF TransportInv, T
      <3>4. (wire \o queue) \o p = p
        BY <1>1, <2>6
      <3>5. Flight' = p
        BY <2>11, <3>4, Zenon DEF Flight
      <3>6. Len(p) = sequence - v.seq /\ Len(p) \in Nat /\ DOMAIN p = 1 .. Len(p)
        BY <2>3, <2>4, <2>6
      <3>7. v.seq + Len(p) = sequence
        BY <1>3, <1>4, <3>6
      <3>8. ASSUME NEW i \in 1 .. Len(p)
            PROVE  p[i].delta.stream = stream /\ p[i].delta.seq = v.seq + i
        <4>1. p[i].delta = q[i] /\ i \in 1 .. sequence - v.seq
          BY <2>3, <2>5, <2>6
        <4> QED BY <2>3, <4>1, Zenon
      <3> QED BY <1>4, <2>1, <2>11, <3>2, <3>3, <3>5, <3>6, <3>7, <3>8, Zenon
    <2> QED BY <2>9, <2>10, <2>11, Zenon
  <1>6. CASE ~Resumes(v)
    <2>1. EndTransport(<<Reset>>)
      BY <1>6 DEF Subscribe
    <2> DEFINE T == Sent'
               sent == <<Reset>>
    <2>2. sent \in Seq(T) /\ T \cup {End} = T
      BY DEF Sent
    <2>3. /\ subscribed' = 0 /\ queue' = <<>> /\ waiting' = FALSE
          /\ wire' = sent \o <<End>>
      BY <2>1 DEF EndTransport
    <2> HIDE DEF T, sent
    <2>4. wire' \in Seq(T) /\ wire' # <<>> /\ wire'[Len(wire')] = End
      BY <2>2, <2>3, EndsWithEnd
    <2>5. wire' \in Seq(Sent') /\ stream' \in Nat
      BY <1>1, <1>4, <2>4 DEF T
    <2> QED BY <2>3, <2>4, <2>5, Detached
  <1> QED BY <1>5, <1>6

\* The events route: the replay starts where the client's state ends.
LEMMA ServeStreamStep ==
    ASSUME ConnectionInv, ServeStream
    PROVE  ConnectionInv'
  <1>1. /\ sync = "handshake" /\ reply = NoView /\ UNCHANGED feed
        /\ view' = view /\ frozen' = frozen /\ sync' = sync
        /\ connected' = connected /\ buffering' = buffering /\ pending' = pending
        /\ pendingReset' = pendingReset /\ overflow' = overflow /\ again' = again
        /\ timer' = timer /\ closed' = closed
        /\ IF entry = "live" THEN Subscribe(view) /\ reply' = view
           ELSE reply' = Failed /\ UNCHANGED transport
    BY DEF ServeStream
  <1>2. FeedInv /\ HistoryInv /\ TransportInv /\ ClientTypes /\ ClientPhases
    BY DEF ConnectionInv
  <1>3. view # NoView /\ view \in TrueViews /\ view \in Views
        /\ pending = <<>> /\ ~connected /\ wire = <<>> /\ subscribed = 0
    BY <1>1, <1>2 DEF ClientTypes, ClientPhases, TrueViews
  <1>4. view # Failed
    <2>1. DOMAIN view = {"stream", "seq", "content"} /\ DOMAIN Failed = {"failed"}
      BY <1>3 DEF Views, Failed
    <2>2. "seq" # "failed"
      OBVIOUS
    <2> QED BY <2>1, <2>2
  <1>5. reply' \in TrueViews \cup {Failed} /\ reply' # NoView
    <2>1. Failed # NoView
      BY ConnectionAssumption
    <2> QED BY <1>1, <1>3, <2>1
  <1>6. ClientTypes'
    BY <1>1, <1>2, <1>5, SameFeed DEF ClientTypes
  <1>7. ClientPhases'
    BY <1>1, <1>2, <1>5 DEF ClientPhases
  <1>8. ReplyInv'
    BY <1>1 DEF ReplyInv
  <1>9. CASE entry = "live"
    <2>1. Subscribe(view)
      BY <1>1, <1>9
    <2>2. /\ TransportInv'
          /\ subscribed' = 0 => wire' # <<>> /\ wire'[Len(wire')] = End
          /\ subscribed' # 0 =>
               /\ subscribed' = view.stream
               /\ Len(Flight') \in Nat /\ DOMAIN Flight' = 1 .. Len(Flight')
               /\ view.seq + Len(Flight') = Len(log[subscribed'])
               /\ \A i \in 1 .. Len(Flight') : /\ Flight'[i].delta.stream = subscribed'
                                               /\ Flight'[i].delta.seq = view.seq + i
      BY <1>1, <1>2, <1>3, <1>9, <2>1, SubscribeFacts
    <2>3. log' = log /\ Len(pending') = 0 /\ DOMAIN pending' = {} /\ view.seq \in Nat
      BY <1>1, <1>3, FeedAssumption DEF feed, Views
    <2>4. view.seq + Len(pending') = view.seq
      BY <2>3
    <2>5. ChainInv'
      <3>1. ASSUME subscribed' # 0
            PROVE  /\ view'.stream = subscribed'
                   /\ \A i \in DOMAIN Flight' : /\ Flight'[i].delta.stream = subscribed'
                                                /\ Flight'[i].delta.seq = view'.seq + Len(pending') + i
                   /\ view'.seq + Len(pending') + Len(Flight') = Len(log'[subscribed'])
        BY <1>1, <2>2, <2>3, <2>4, <3>1, Zenon
      <3>2. \A i \in DOMAIN pending' : FALSE
        BY <2>3
      <3> QED BY <2>2, <3>1, <3>2, Zenon DEF ChainInv
    <2> QED BY <1>1, <1>6, <1>7, <1>8, <2>2, <2>5, SameFeed DEF ConnectionInv
  <1>10. CASE entry # "live"
    <2>1. reply' = Failed /\ UNCHANGED transport
      BY <1>1, <1>10
    <2>2. ~Follows'
      BY <1>1, <1>3, <2>1 DEF Follows
    <2>3. ChainInv'
      BY <2>2 DEF ChainInv
    <2> QED BY <1>1, <1>6, <1>7, <1>8, <2>1, <2>3, SameFeed, TransportStays DEF ConnectionInv
  <1> QED BY <1>9, <1>10

\* A lost answer: nobody follows the transport that was opened for it.
LEMMA LoseReplyStep ==
    ASSUME ConnectionInv, LoseReply
    PROVE  ConnectionInv'
  <1>1. /\ sync \in {"snapshot", "handshake"} /\ reply' = Failed /\ UNCHANGED feed
        /\ view' = view /\ frozen' = frozen /\ sync' = sync
        /\ connected' = connected /\ buffering' = buffering /\ pending' = pending
        /\ pendingReset' = pendingReset /\ overflow' = overflow /\ again' = again
        /\ timer' = timer /\ closed' = closed
        /\ \/ subscribed' = 0 /\ queue' = <<>> /\ waiting' = FALSE /\ wire' = <<>>
           \/ UNCHANGED transport
    BY DEF LoseReply
  <1>2. ClientTypes /\ ClientPhases
    BY DEF ConnectionInv
  <1>3. TransportInv'
    BY <1>1, TransportStays, TransportGone
  <1>4. ClientTypes'
    BY <1>1, <1>2, SameFeed DEF ClientTypes
  <1>5. ClientPhases'
    <2>1. Failed # NoView
      BY ConnectionAssumption
    <2> QED BY <1>1, <1>2, <2>1 DEF ClientPhases
  <1>6. ReplyInv'
    BY <1>1 DEF ReplyInv
  <1>7. ~Follows'
    BY <1>1, <1>2 DEF Follows, ClientPhases
  <1>8. ChainInv'
    BY <1>7 DEF ChainInv
  <1> QED BY <1>1, <1>3, <1>4, <1>5, <1>6, <1>8, SameFeed DEF ConnectionInv

\* The response of the events route: the chain is there since the request was served.
LEMMA StreamOpensStep ==
    ASSUME ConnectionInv, StreamOpens
    PROVE  ConnectionInv'
  <1>1. /\ sync = "handshake" /\ reply \notin {NoView, Failed}
        /\ UNCHANGED feed /\ UNCHANGED transport
        /\ view' = view /\ frozen' = frozen /\ sync' = "resume" /\ reply' = NoView
        /\ connected' = TRUE /\ buffering' = buffering /\ pending' = pending
        /\ pendingReset' = pendingReset /\ overflow' = overflow /\ again' = again
        /\ timer' = timer /\ closed' = closed
    BY DEF StreamOpens
  <1>2. ClientTypes /\ ClientPhases
    BY DEF ConnectionInv
  <1>3. ClientTypes'
    BY <1>1, <1>2, SameFeed DEF ClientTypes, Phases
  <1>4. ClientPhases'
    BY <1>1, <1>2 DEF ClientPhases
  <1>5. ReplyInv'
    BY <1>1 DEF ReplyInv
  <1>6. ChainInv'
    <2>1. Follows
      BY <1>1, <1>2 DEF Follows, ClientPhases
    <2> QED BY <1>1, <2>1, ChainStays
  <1> QED BY <1>1, <1>3, <1>4, <1>5, <1>6, SameFeed, TransportStays DEF ConnectionInv

\* A failed request.
LEMMA RequestFailsStep ==
    ASSUME ConnectionInv, RequestFails
    PROVE  ConnectionInv'
  <1>1. /\ sync \in {"snapshot", "handshake"} /\ UNCHANGED feed /\ UNCHANGED transport
        /\ view' = view /\ frozen' = frozen /\ sync' = "failed" /\ reply' = NoView
        /\ connected' = connected /\ buffering' = buffering /\ pending' = pending
        /\ pendingReset' = pendingReset /\ overflow' = overflow /\ again' = again
        /\ timer' = timer /\ closed' = closed
    BY DEF RequestFails
  <1>2. ClientTypes /\ ClientPhases
    BY DEF ConnectionInv
  <1>3. ClientTypes'
    BY <1>1, <1>2, SameFeed DEF ClientTypes, Phases
  <1>4. ClientPhases'
    BY <1>1, <1>2 DEF ClientPhases
  <1>5. ReplyInv'
    BY <1>1 DEF ReplyInv
  <1>6. ~Follows'
    BY <1>1, <1>2 DEF Follows, ClientPhases
  <1>7. ChainInv'
    BY <1>6 DEF ChainInv
  <1> QED BY <1>1, <1>3, <1>4, <1>5, <1>7, SameFeed, TransportStays DEF ConnectionInv

\* A synchronization settles: what follows the stream goes on following it.
LEMMA SettleStep ==
    ASSUME ConnectionInv, Settle \/ SettleFailed
    PROVE  ConnectionInv'
  <1>1. /\ UNCHANGED feed /\ UNCHANGED transport
        /\ view' = view /\ reply' = reply /\ connected' = connected /\ pending' = pending
        /\ pendingReset' = pendingReset /\ overflow' = overflow /\ closed' = closed
        /\ sync \in {"settle", "failed"} /\ again' = FALSE
    BY DEF Settle, SettleFailed
  <1>2. ClientTypes /\ ClientPhases
    BY DEF ConnectionInv
  <1>3. reply = NoView
    BY <1>1, <1>2 DEF ClientPhases
  <1>4. \/ sync' = "snapshot" /\ frozen' = TRUE /\ buffering' = TRUE /\ timer' = FALSE
        \/ sync' = "none" /\ frozen' = frozen /\ buffering' = buffering /\ timer' = timer
        \/ sync' = "none" /\ frozen' = TRUE /\ buffering' = buffering /\ timer' = TRUE
    BY DEF Settle, SettleFailed
  <1>5. ClientTypes'
    BY <1>1, <1>2, <1>4, SameFeed DEF ClientTypes, Phases
  <1>6. ClientPhases'
    BY <1>1, <1>2, <1>3, <1>4 DEF ClientPhases
  <1>7. ReplyInv'
    BY <1>1, <1>3 DEF ReplyInv
  <1>8. ChainInv'
    <2>1. Follows' => Follows
      BY <1>1, <1>4 DEF Follows
    <2> QED BY <1>1, <2>1, ChainStays
  <1> QED BY <1>1, <1>5, <1>6, <1>7, <1>8, SameFeed, TransportStays DEF ConnectionInv

\* The retry timer.
LEMMA TimerStep ==
    ASSUME ConnectionInv, TimerFires
    PROVE  ConnectionInv'
  <1>1. /\ UNCHANGED feed /\ UNCHANGED transport
        /\ view' = view /\ connected' = connected /\ pending' = pending
        /\ pendingReset' = pendingReset /\ overflow' = overflow /\ closed' = closed
        /\ again' = again /\ frozen' = TRUE /\ buffering' = TRUE /\ timer' = FALSE
    BY DEF TimerFires, RequestResnapshot
  <1>2. \/ sync = "none" /\ sync' = "snapshot" /\ reply' = NoView
        \/ sync' = sync /\ reply' = reply
    BY DEF TimerFires, RequestResnapshot
  <1>3. ClientTypes /\ ClientPhases /\ ReplyInv
    BY DEF ConnectionInv
  <1>4. ClientTypes'
    BY <1>1, <1>2, <1>3, SameFeed DEF ClientTypes, Phases
  <1>5. ClientPhases'
    BY <1>1, <1>2, <1>3 DEF ClientPhases, transport
  <1>6. ReplyInv'
    BY <1>1, <1>2, <1>3 DEF ReplyInv
  <1>7. ChainInv'
    <2>1. Follows' => Follows
      BY <1>1, <1>2 DEF Follows
    <2> QED BY <1>1, <2>1, ChainStays
  <1> QED BY <1>1, <1>4, <1>5, <1>6, <1>7, SameFeed, TransportStays DEF ConnectionInv

\* close().
LEMMA CloseStep ==
    ASSUME ConnectionInv, Close
    PROVE  ConnectionInv'
  <1>1. ClientTypes
    BY DEF ConnectionInv
  <1>2. UNCHANGED feed /\ TransportInv'
    BY TransportGone DEF Close
  <1>3. ClientTypes'
    <2>1. <<>> \in Seq(TrueDeltas') /\ Len(<<>>) <= MaxPending
      BY ConnectionAssumption
    <2> QED BY <1>1, <1>2, <2>1, SameFeed DEF Close, ClientTypes, Phases
  <1>4. ClientPhases' /\ ReplyInv'
    BY DEF Close, ClientPhases, ReplyInv
  <1>5. ~Follows'
    BY DEF Close, Follows
  <1>6. ChainInv'
    BY <1>5 DEF ChainInv
  <1> QED BY <1>2, <1>3, <1>4, <1>6, SameFeed DEF ConnectionInv

\* The snapshot arrives; the old stream is not followed any more.
LEMMA SnapshotArrivesStep ==
    ASSUME ConnectionInv, SnapshotArrives
    PROVE  ConnectionInv'
  <1> DEFINE drain == DrainPending(reply)
  <1>1. /\ sync = "snapshot" /\ reply \notin {NoView, Failed} /\ UNCHANGED feed
        /\ view' = drain.state /\ pending' = <<>> /\ pendingReset' = FALSE /\ overflow' = FALSE
        /\ reply' = NoView /\ frozen' = frozen /\ buffering' = buffering /\ timer' = timer
        /\ closed' = closed
        /\ \/ again' = TRUE /\ sync' = "settle" /\ UNCHANGED <<transport, connected>>
           \/ /\ sync' = "handshake" /\ connected' = FALSE /\ again' = again
              /\ subscribed' = 0 /\ queue' = <<>> /\ waiting' = FALSE /\ wire' = <<>>
    BY DEF SnapshotArrives
  <1>2. FeedInv /\ ClientTypes /\ ClientPhases
    BY DEF ConnectionInv
  <1>3. reply \in TrueViews
    BY <1>1, <1>2 DEF ClientTypes
  <1>4. drain.state \in TrueViews
    BY <1>2, <1>3, DrainFacts
  <1>5. drain.state # NoView
    BY <1>4, ConnectionAssumption DEF TrueViews
  <1> HIDE DEF drain
  <1>6. TransportInv'
    BY <1>1, TransportStays, TransportGone
  <1>7. ClientTypes'
    <2>1. <<>> \in Seq(TrueDeltas') /\ Len(<<>>) <= MaxPending
      BY ConnectionAssumption
    <2>2. again' \in BOOLEAN /\ connected' \in BOOLEAN /\ sync' \in Phases
      BY <1>1, <1>2 DEF ClientTypes, Phases
    <2> QED BY <1>1, <1>2, <1>4, <2>1, <2>2, SameFeed DEF ClientTypes
  <1>8. ClientPhases'
    BY <1>1, <1>2, <1>5 DEF ClientPhases
  <1>9. ReplyInv'
    BY <1>1 DEF ReplyInv
  <1>10. ~Follows'
    BY <1>1, <1>2 DEF Follows, ClientPhases
  <1>11. ChainInv'
    BY <1>10 DEF ChainInv
  <1> QED BY <1>1, <1>6, <1>7, <1>8, <1>9, <1>11, SameFeed DEF ConnectionInv

\* Resume: what was pending is applied, and the chain starts behind it.
LEMMA ResumeStep ==
    ASSUME ConnectionInv, Resume
    PROVE  ConnectionInv'
  <1> DEFINE drain == DrainPending(view)
  <1>1. /\ sync = "resume" /\ sync' = "settle" /\ UNCHANGED feed /\ UNCHANGED transport
        /\ reply' = reply /\ connected' = connected /\ timer' = timer /\ closed' = closed
    BY DEF Resume
  <1>2. FeedInv /\ ClientTypes /\ ClientPhases
    BY DEF ConnectionInv
  <1>3. view # NoView /\ view \in TrueViews /\ buffering /\ frozen /\ reply = NoView
    BY <1>1, <1>2 DEF ClientTypes, ClientPhases
  <1>4. ReplyInv'
    BY <1>1 DEF ReplyInv
  <1>5. CASE again \/ ~connected
    <2>1. /\ view' = view /\ pending' = pending /\ pendingReset' = pendingReset
          /\ overflow' = overflow /\ again' = again /\ buffering' = buffering /\ frozen' = frozen
      BY <1>5 DEF Resume
    <2>2. ClientTypes'
      BY <1>1, <1>2, <2>1, SameFeed DEF ClientTypes, Phases
    <2>3. ClientPhases'
      BY <1>1, <1>2, <2>1 DEF ClientPhases
    <2>4. ~Follows'
      BY <1>1, <1>3, <2>1 DEF Follows
    <2>5. ChainInv'
      BY <2>4 DEF ChainInv
    <2> QED BY <1>1, <1>4, <2>2, <2>3, <2>5, SameFeed, TransportStays DEF ConnectionInv
  <1>6. CASE ~(again \/ ~connected)
    <2>1. /\ view' = drain.state /\ pending' = <<>> /\ pendingReset' = FALSE /\ overflow' = FALSE
          /\ \/ drain.resnapshot /\ again' = TRUE /\ buffering' = buffering /\ frozen' = frozen
             \/ ~drain.resnapshot /\ buffering' = FALSE /\ frozen' = FALSE /\ again' = again
      BY <1>6 DEF Resume
    <2>2. /\ drain.state \in TrueViews /\ drain.state.stream = view.stream
          /\ ~drain.resnapshot =>
               /\ ~pendingReset /\ ~overflow
               /\ Continues(view) => drain.state.seq = view.seq + Len(pending)
      BY <1>2, <1>3, DrainFacts
    <2>3. drain.state # NoView
      BY <2>2, ConnectionAssumption DEF TrueViews
    <2> HIDE DEF drain
    <2>4. ClientTypes'
      <3>1. <<>> \in Seq(TrueDeltas') /\ Len(<<>>) <= MaxPending
        BY ConnectionAssumption
      <3>2. again' \in BOOLEAN /\ buffering' \in BOOLEAN /\ frozen' \in BOOLEAN
        BY <1>2, <2>1 DEF ClientTypes
      <3> QED BY <1>1, <1>2, <2>1, <2>2, <3>1, <3>2, SameFeed DEF ClientTypes, Phases
    <2>5. ClientPhases'
      BY <1>1, <1>2, <1>3, <1>6, <2>1, <2>3 DEF ClientPhases
    <2>6. ASSUME Follows' PROVE ChainInv'
      <3>1. ~drain.resnapshot
        BY <1>1, <1>3, <2>1, <2>6 DEF Follows
      <3>2. Follows /\ ChainInv
        BY <1>1, <1>3, <1>6, <2>2, <3>1 DEF Follows, ConnectionInv
      <3>3. subscribed' = subscribed /\ wire' = wire /\ log' = log /\ Flight' = Flight
        BY <1>1, TransportStays DEF transport, feed
      <3>4. CASE subscribed = 0
        BY <3>2, <3>3, <3>4 DEF ChainInv
      <3>5. CASE subscribed # 0
        <4>1. /\ view.stream = subscribed
              /\ \A i \in DOMAIN pending : /\ pending[i].stream = subscribed
                                           /\ pending[i].seq = view.seq + i
              /\ \A i \in DOMAIN Flight : /\ Flight[i].delta.stream = subscribed
                                          /\ Flight[i].delta.seq = view.seq + Len(pending) + i
              /\ view.seq + Len(pending) + Len(Flight) = Len(log[subscribed])
          BY <3>2, <3>5 DEF ChainInv
        <4>2. Continues(view)
          BY <4>1, Zenon DEF Continues
        <4>3. view'.seq = view.seq + Len(pending) /\ view'.stream = subscribed
          BY <2>1, <2>2, <3>1, <4>1, <4>2
        <4>4. Len(pending') = 0 /\ DOMAIN pending' = {}
          BY <2>1
        <4>5. view'.seq + Len(pending') = view.seq + Len(pending)
          <5>1. view'.seq \in Nat
            BY <2>1, <2>2, FeedAssumption DEF TrueViews, Views
          <5> QED BY <4>3, <4>4, <5>1
        <4>6. \A i \in DOMAIN pending' : FALSE
          BY <4>4
        <4> QED BY <3>3, <3>5, <4>1, <4>3, <4>5, <4>6, Zenon DEF ChainInv
      <3> QED BY <3>4, <3>5
    <2>7. ChainInv'
      BY <2>6 DEF ChainInv
    <2> QED BY <1>1, <1>4, <2>4, <2>5, <2>7, SameFeed, TransportStays DEF ConnectionInv
  <1> QED BY <1>5, <1>6

\* Reading the first event of what was written.
LEMMA ReadFacts ==
    ASSUME ConnectionInv, UNCHANGED feed, wire # <<>>, wire' = Tail(wire),
           UNCHANGED <<subscribed, queue, waiting>>
    PROVE  /\ TransportInv' /\ Head(wire) \in Sent
           /\ Head(wire) # End /\ wire[Len(wire)] = End =>
                wire' # <<>> /\ wire'[Len(wire')] = End
           /\ subscribed # 0 =>
                /\ Head(wire) \in TrueEvents /\ Flight # <<>> /\ Head(wire) = Flight[1]
                /\ Len(Flight) \in Nat /\ DOMAIN Flight = 1 .. Len(Flight)
                /\ Len(Flight') = Len(Flight) - 1 /\ DOMAIN Flight' = 1 .. Len(Flight')
                /\ \A i \in 1 .. Len(Flight') : Flight'[i] = Flight[i + 1]
  <1>1. TransportInv /\ FeedInv
    BY DEF ConnectionInv
  <1>2. /\ wire \in Seq(Sent) /\ Len(wire) \in Nat /\ Len(wire) >= 1 /\ Head(wire) = wire[1]
        /\ Head(wire) \in Sent /\ Tail(wire) \in Seq(Sent) /\ Len(Tail(wire)) = Len(wire) - 1
        /\ \A i \in 1 .. Len(Tail(wire)) : Tail(wire)[i] = wire[i + 1]
    BY <1>1, HeadTailProperties DEF TransportInv
  <1>3. ASSUME subscribed # 0
        PROVE  Tail(wire) \in Seq(TrueEvents) /\ Head(wire) \in TrueEvents
    BY <1>1, <1>3, HeadTailProperties DEF TransportInv
  <1>4. TransportInv'
    <2>1. stream' = stream
      BY DEF feed
    <2> QED BY <1>1, <1>2, <1>3, <2>1, SameFeed DEF TransportInv
  <1>5. ASSUME Head(wire) # End, wire[Len(wire)] = End
        PROVE  wire' # <<>> /\ wire'[Len(wire')] = End
    <2>1. Len(wire) # 1
      BY <1>2, <1>5
    <2>2. Len(wire') = Len(wire) - 1 /\ Len(wire') >= 1 /\ Len(wire') + 1 = Len(wire)
          /\ Len(wire') \in 1 .. Len(wire')
      BY <1>2, <2>1
    <2>3. wire'[Len(wire')] = wire[Len(wire') + 1]
      BY <1>2, <2>2, Zenon
    <2>4. wire' # <<>>
      <3>1. Len(<<>>) = 0 /\ Len(wire') # 0
        BY <2>2
      <3> QED BY <3>1, Zenon
    <2>5. wire'[Len(wire')] = End
      BY <1>5, <2>2, <2>3, Zenon
    <2> QED BY <2>4, <2>5
  <1>6. ASSUME subscribed # 0
        PROVE  /\ Flight # <<>> /\ Head(wire) = Flight[1]
               /\ Len(Flight) \in Nat /\ DOMAIN Flight = 1 .. Len(Flight)
               /\ Len(Flight') = Len(Flight) - 1 /\ DOMAIN Flight' = 1 .. Len(Flight')
               /\ \A i \in 1 .. Len(Flight') : Flight'[i] = Flight[i + 1]
    <2> DEFINE T == TrueEvents
               w == wire
               q == queue
               t == Tail(wire)
               F == w \o q
               H == t \o q
    <2>1. w \in Seq(T) /\ q \in Seq(T) /\ t \in Seq(T)
      BY <1>1, <1>3, <1>6 DEF TransportInv
    <2>2. Len(w) \in Nat /\ Len(w) >= 1 /\ Len(t) = Len(w) - 1 /\ Len(t) \in Nat /\ Len(q) \in Nat
          /\ \A i \in 1 .. Len(t) : t[i] = w[i + 1]
      BY <1>2, <2>1
    <2>3. Flight = F /\ Flight' = H /\ Head(wire) = w[1]
      BY <1>2 DEF Flight
    <2> HIDE DEF T, w, q, t
    <2>4. /\ F \in Seq(T) /\ Len(F) = Len(w) + Len(q)
          /\ \A i \in 1 .. Len(w) + Len(q) : F[i] = IF i <= Len(w) THEN w[i] ELSE q[i - Len(w)]
      BY <2>1, ConcatProperties, Zenon
    <2>5. /\ H \in Seq(T) /\ Len(H) = Len(t) + Len(q)
          /\ \A i \in 1 .. Len(t) + Len(q) : H[i] = IF i <= Len(t) THEN t[i] ELSE q[i - Len(t)]
      BY <2>1, ConcatProperties, Zenon
    <2> HIDE DEF F, H
    <2>6. /\ Len(F) \in Nat /\ DOMAIN F = 1 .. Len(F) /\ DOMAIN H = 1 .. Len(H)
          /\ Len(H) = Len(F) - 1 /\ F # <<>> /\ F[1] = w[1]
      <3>1. Len(F) \in Nat /\ DOMAIN F = 1 .. Len(F) /\ DOMAIN H = 1 .. Len(H)
        BY <2>4, <2>5, LenProperties
      <3>2. Len(H) = Len(F) - 1 /\ Len(F) >= 1 /\ 1 \in 1 .. Len(w) + Len(q) /\ 1 <= Len(w)
        BY <2>2, <2>4, <2>5
      <3>3. F[1] = w[1]
        BY <2>4, <3>2, Zenon
      <3>4. F # <<>>
        BY <3>2
      <3> QED BY <3>1, <3>2, <3>3, <3>4
    <2>7. ASSUME NEW i \in 1 .. Len(H) PROVE H[i] = F[i + 1]
      <3>1. i \in 1 .. Len(t) + Len(q) /\ i + 1 \in 1 .. Len(w) + Len(q)
            /\ (i <= Len(t) <=> i + 1 <= Len(w)) /\ (i + 1) - Len(w) = i - Len(t)
            /\ (i <= Len(t) => i \in 1 .. Len(t))
        BY <2>2, <2>5
      <3>2. H[i] = IF i <= Len(t) THEN t[i] ELSE q[i - Len(t)]
        BY <2>5, <3>1, Zenon
      <3>3. F[i + 1] = IF i + 1 <= Len(w) THEN w[i + 1] ELSE q[(i + 1) - Len(w)]
        BY <2>4, <3>1, Zenon
      <3>4. CASE i <= Len(t)
        BY <2>2, <3>1, <3>2, <3>3, <3>4, Zenon
      <3>5. CASE ~(i <= Len(t))
        BY <3>1, <3>2, <3>3, <3>5, Zenon
      <3> QED BY <3>4, <3>5
    <2> QED BY <2>3, <2>6, <2>7, Zenon
  <1> QED BY <1>2, <1>3, <1>4, <1>5, <1>6, Zenon

\* A reset is read: the end of the response is behind it.
LEMMA DeliverResetStep ==
    ASSUME ConnectionInv, DeliverReset
    PROVE  ConnectionInv'
  <1>1. /\ connected /\ wire # <<>> /\ Head(wire) = Reset /\ wire' = Tail(wire) /\ UNCHANGED feed
        /\ UNCHANGED <<subscribed, queue, waiting>>
        /\ view' = view /\ connected' = connected /\ pending' = pending /\ overflow' = overflow
        /\ again' = again /\ closed' = closed
    BY DEF DeliverReset, Readable
  <1>2. \/ /\ buffering /\ pendingReset' = TRUE /\ frozen' = frozen /\ buffering' = buffering
           /\ timer' = timer /\ sync' = sync /\ reply' = reply
        \/ /\ ~buffering /\ pendingReset' = pendingReset /\ frozen' = TRUE /\ buffering' = TRUE
           /\ timer' = FALSE
           /\ \/ sync = "none" /\ sync' = "snapshot" /\ reply' = NoView
              \/ sync' = sync /\ reply' = reply
    BY DEF DeliverReset, RequestResnapshot
  <1>3. ClientTypes /\ ClientPhases /\ ReplyInv /\ ChainInv
    BY DEF ConnectionInv
  <1>4. /\ TransportInv'
        /\ Head(wire) # End /\ wire[Len(wire)] = End => wire' # <<>> /\ wire'[Len(wire')] = End
        /\ subscribed # 0 => Head(wire) \in TrueEvents
    BY <1>1, ReadFacts
  <1>5. subscribed = 0
    BY <1>1, <1>4, KindsDiffer
  <1>6. ClientTypes'
    BY <1>1, <1>2, <1>3, SameFeed DEF ClientTypes, Phases
  <1>7. sync # "handshake"
    BY <1>1, <1>3 DEF ClientPhases
  <1>8. ClientPhases'
    BY <1>1, <1>2, <1>3, <1>7 DEF ClientPhases
  <1>9. ReplyInv'
    BY <1>1, <1>2, <1>3 DEF ReplyInv
  <1>10. ASSUME Follows' PROVE ChainInv'
    <2>1. Follows
      BY <1>1, <1>2, <1>3, <1>7, <1>10 DEF Follows, ClientPhases
    <2>2. wire[Len(wire)] = End
      BY <1>3, <1>5, <2>1 DEF ChainInv
    <2>3. subscribed' = 0 /\ wire' # <<>> /\ wire'[Len(wire')] = End
      BY <1>1, <1>4, <1>5, <2>2, KindsDiffer
    <2> QED BY <2>3 DEF ChainInv
  <1>11. ChainInv'
    BY <1>10 DEF ChainInv
  <1> QED BY <1>1, <1>4, <1>6, <1>8, <1>9, <1>11, SameFeed DEF ConnectionInv

\* The end of the response is read.
LEMMA StreamFinishedStep ==
    ASSUME ConnectionInv, StreamFinished
    PROVE  ConnectionInv'
  <1>1. /\ connected /\ wire # <<>> /\ Head(wire) = End /\ wire' = <<>> /\ UNCHANGED feed
        /\ UNCHANGED <<subscribed, queue, waiting>>
        /\ view' = view /\ connected' = FALSE /\ pending' = pending /\ overflow' = overflow
        /\ frozen' = TRUE /\ sync' = sync /\ reply' = reply /\ buffering' = buffering
        /\ pendingReset' = pendingReset /\ closed' = closed
        /\ (again' = TRUE /\ timer' = timer) \/ (timer' = TRUE /\ again' = again)
    BY DEF StreamFinished, Readable
  <1>2. TransportInv /\ ClientTypes /\ ClientPhases /\ ReplyInv
    BY DEF ConnectionInv
  <1>3. TransportInv'
    <2>1. /\ stream' = stream /\ TrueEvents' = TrueEvents /\ <<>> \in Seq(Sent')
          /\ <<>> \in Seq(TrueEvents')
      BY <1>1, SameFeed DEF feed
    <2> QED BY <1>1, <1>2, <2>1 DEF TransportInv
  <1>4. ClientTypes'
    BY <1>1, <1>2, SameFeed DEF ClientTypes
  <1>5. sync # "handshake"
    BY <1>1, <1>2 DEF ClientPhases
  <1>6. ClientPhases'
    BY <1>1, <1>2, <1>5 DEF ClientPhases
  <1>7. ReplyInv'
    BY <1>1, <1>2 DEF ReplyInv
  <1>8. ~Follows'
    BY <1>1, <1>5 DEF Follows
  <1>9. ChainInv'
    BY <1>8 DEF ChainInv
  <1> QED BY <1>1, <1>3, <1>4, <1>6, <1>7, <1>9, SameFeed DEF ConnectionInv

\* A delta is read: it is the next one, and is buffered, applied, or given up with the stream.
LEMMA DeliverDeltaStep ==
    ASSUME ConnectionInv, DeliverDelta
    PROVE  ConnectionInv'
  <1> DEFINE d == Head(wire).delta
  <1>1. /\ connected /\ wire # <<>> /\ Head(wire).kind = "delta" /\ wire' = Tail(wire)
        /\ UNCHANGED feed /\ UNCHANGED <<subscribed, queue, waiting>>
        /\ connected' = connected /\ pendingReset' = pendingReset
        /\ again' = again /\ closed' = closed
    BY DEF DeliverDelta, Readable
  <1>2. \/ /\ buffering /\ Buffer(d)
           /\ UNCHANGED <<view, frozen, buffering, timer, sync, reply>>
        \/ /\ ~buffering /\ Applies(view, d) /\ view' = Applied(view, d) /\ frozen' = FALSE
           /\ UNCHANGED <<pending, overflow, buffering, timer, sync, reply>>
        \/ /\ ~buffering /\ Buffer(d) /\ RequestResnapshot /\ UNCHANGED view
    BY DEF DeliverDelta
  <1>3. FeedInv /\ TransportInv /\ ClientTypes /\ ClientPhases /\ ReplyInv /\ ChainInv
    BY DEF ConnectionInv
  <1>4. /\ TransportInv' /\ Head(wire) \in Sent
        /\ Head(wire) # End /\ wire[Len(wire)] = End => wire' # <<>> /\ wire'[Len(wire')] = End
        /\ subscribed # 0 =>
             /\ Head(wire) \in TrueEvents /\ Flight # <<>> /\ Head(wire) = Flight[1]
             /\ Len(Flight) \in Nat /\ DOMAIN Flight = 1 .. Len(Flight)
             /\ Len(Flight') = Len(Flight) - 1 /\ DOMAIN Flight' = 1 .. Len(Flight')
             /\ \A i \in 1 .. Len(Flight') : Flight'[i] = Flight[i + 1]
    BY <1>1, ReadFacts
  <1>5. d \in TrueDeltas /\ Head(wire) # End
    <2>1. Reset.kind = "reset" /\ End.kind = "end"
      BY DEF Reset, End
    <2>2. Head(wire) \in TrueEvents
      BY <1>1, <1>4, <2>1 DEF Sent
    <2> QED BY <1>1, <2>1, <2>2 DEF TrueEvents, TrueDeltas
  <1>6. sync # "handshake" /\ sync' # "handshake"
    <2>1. sync # "handshake"
      BY <1>1, <1>3 DEF ClientPhases
    <2> QED BY <1>2, <2>1 DEF RequestResnapshot
  <1>7. Buffer(d) =>
          /\ pending' \in Seq(TrueDeltas) /\ Len(pending') <= MaxPending /\ overflow' \in BOOLEAN
          /\ ~overflow' => /\ ~overflow /\ pending' = Append(pending, d)
    <2> HAVE Buffer(d)
    <2>1. pending \in Seq(TrueDeltas) /\ Len(pending) <= MaxPending /\ overflow \in BOOLEAN
      BY <1>3 DEF ClientTypes
    <2> HIDE DEF d
    <2>2. CASE overflow
      <3>1. pending' = pending /\ overflow' = overflow
        BY <2>2 DEF Buffer
      <3> QED BY <2>1, <2>2, <3>1
    <2>3. CASE ~overflow /\ Len(pending) >= MaxPending
      <3>1. pending' = <<>> /\ overflow' = TRUE
        BY <2>3 DEF Buffer
      <3> QED BY <3>1, ConnectionAssumption
    <2>4. CASE ~overflow /\ ~(Len(pending) >= MaxPending)
      <3>1. pending' = Append(pending, d) /\ overflow' = overflow
        BY <2>4 DEF Buffer
      <3>2. pending' \in Seq(TrueDeltas) /\ Len(pending') = Len(pending) + 1
        BY <1>5, <2>1, <3>1, AppendProperties
      <3>3. Len(pending') <= MaxPending
        BY <2>1, <2>4, <3>2, ConnectionAssumption
      <3> QED BY <2>1, <2>4, <3>1, <3>2, <3>3
    <2> QED BY <2>2, <2>3, <2>4
  <1>8. ASSUME ~buffering, Applies(view, d)
        PROVE  /\ view # NoView /\ view \in TrueViews /\ Applied(view, d) \in TrueViews
               /\ Applied(view, d).stream = view.stream /\ Applied(view, d).seq = view.seq + 1
               /\ Applied(view, d) # NoView
    <2>1. view # NoView /\ view \in TrueViews
      BY <1>3, <1>8 DEF Applies, ClientTypes
    <2> HIDE DEF d
    <2>2. /\ Applied(view, d) \in TrueViews
          /\ Applied(view, d).stream = view.stream /\ Applied(view, d).seq = view.seq + 1
      BY <1>3, <1>5, <1>8, <2>1, AppliedTrue
    <2> QED BY <2>1, <2>2, ConnectionAssumption DEF TrueViews
  <1> HIDE DEF d
  <1>9. ClientTypes' /\ ClientPhases' /\ ReplyInv'
    <2>1. CASE buffering /\ Buffer(d) /\ UNCHANGED <<view, frozen, buffering, timer, sync, reply>>
      <3>1. ClientTypes'
        BY <1>1, <1>3, <1>7, <2>1, SameFeed DEF ClientTypes
      <3>2. ClientPhases'
        BY <1>1, <1>3, <1>6, <2>1 DEF ClientPhases
      <3>3. ReplyInv'
        BY <1>3, <2>1 DEF ReplyInv
      <3> QED BY <3>1, <3>2, <3>3
    <2>2. CASE /\ ~buffering /\ Applies(view, d) /\ view' = Applied(view, d) /\ frozen' = FALSE
               /\ UNCHANGED <<pending, overflow, buffering, timer, sync, reply>>
      <3>0. sync \notin {"snapshot", "handshake", "resume"}
        BY <1>3, <2>2 DEF ClientPhases
      <3>1. ClientTypes'
        BY <1>1, <1>3, <1>8, <2>2, SameFeed DEF ClientTypes
      <3>2. ClientPhases'
        BY <1>1, <1>3, <1>8, <2>2, <3>0 DEF ClientPhases
      <3>3. ReplyInv'
        BY <2>2, <3>0 DEF ReplyInv
      <3> QED BY <3>1, <3>2, <3>3
    <2>3. CASE ~buffering /\ Buffer(d) /\ RequestResnapshot /\ UNCHANGED view
      <3>0. /\ sync \notin {"snapshot", "handshake", "resume"} /\ reply = NoView
            /\ frozen' = TRUE /\ buffering' = TRUE /\ timer' = FALSE
            /\ \/ sync = "none" /\ sync' = "snapshot" /\ reply' = NoView
               \/ sync' = sync /\ reply' = reply
        BY <1>3, <2>3 DEF ClientPhases, RequestResnapshot
      <3>1. ClientTypes'
        BY <1>1, <1>3, <1>7, <2>3, <3>0, SameFeed DEF ClientTypes, Phases
      <3>2. ClientPhases'
        BY <1>1, <1>3, <2>3, <3>0 DEF ClientPhases
      <3>3. ReplyInv'
        BY <3>0 DEF ReplyInv
      <3> QED BY <3>1, <3>2, <3>3
    <2> QED BY <1>2, <2>1, <2>2, <2>3
  <1>10. ASSUME Follows' PROVE ChainInv'
    <2>1. \/ /\ buffering /\ Buffer(d) /\ view' = view
             /\ ~overflow /\ pending' = Append(pending, d)
          \/ /\ ~buffering /\ Applies(view, d) /\ view' = Applied(view, d) /\ pending' = pending
             /\ pending = <<>>
      BY <1>1, <1>2, <1>3, <1>6, <1>7, <1>10 DEF Follows, ClientPhases, RequestResnapshot
    <2>2. Follows
      BY <1>1, <1>2, <1>3, <1>6, <1>8, <1>10, <2>1 DEF Follows, ClientPhases
    <2>3. CASE subscribed = 0
      <3>1. wire[Len(wire)] = End
        BY <1>3, <2>2, <2>3 DEF ChainInv
      <3>2. subscribed' = 0 /\ wire' # <<>> /\ wire'[Len(wire')] = End
        BY <1>1, <1>4, <1>5, <2>3, <3>1
      <3> QED BY <3>2 DEF ChainInv
    <2>4. CASE subscribed # 0
      <3> DEFINE s == subscribed
                 n == view.seq + Len(pending)
                 F == Flight
                 H == Flight'
                 l == Len(log[s])
      <3>1. /\ view.stream = s
            /\ \A i \in DOMAIN pending : pending[i].stream = s /\ pending[i].seq = view.seq + i
            /\ \A i \in DOMAIN F : F[i].delta.stream = s /\ F[i].delta.seq = n + i
            /\ n + Len(F) = l
        BY <1>3, <2>2, <2>4 DEF ChainInv
      <3>2. /\ F # <<>> /\ Head(wire) = F[1] /\ Len(F) \in Nat /\ DOMAIN F = 1 .. Len(F)
            /\ Len(H) = Len(F) - 1 /\ DOMAIN H = 1 .. Len(H)
            /\ \A i \in 1 .. Len(H) : H[i] = F[i + 1]
        BY <1>4, <2>4
      <3>3. view.seq \in Nat /\ Len(pending) \in Nat /\ n \in Nat /\ pending \in Seq(TrueDeltas)
            /\ DOMAIN pending = 1 .. Len(pending)
        <4>1. view \in TrueViews
          BY <1>3, <2>2, Zenon DEF Follows, ClientTypes
        <4>2. view.seq \in Nat
          BY <4>1, FeedAssumption DEF TrueViews, Views
        <4>3. /\ pending \in Seq(TrueDeltas) /\ Len(pending) \in Nat
              /\ DOMAIN pending = 1 .. Len(pending)
          BY <1>3 DEF ClientTypes
        <4> QED BY <4>2, <4>3
      <3>4. subscribed' = s /\ s # 0 /\ Len(log'[s]) = l /\ n = view.seq + Len(pending)
        BY <1>1, <2>4 DEF feed
      <3>5. F \in Seq(TrueEvents)
        BY <1>3, <2>4, FlightType
      <3> HIDE DEF s, n, F, H, l
      <3>6. 1 \in DOMAIN F /\ Len(F) >= 1
        BY <3>2, <3>5
      <3>7. d.stream = s /\ d.seq = n + 1
        BY <3>1, <3>2, <3>6 DEF d
      <3>8. ASSUME NEW i \in DOMAIN H
            PROVE  H[i].delta.stream = s /\ H[i].delta.seq = (n + 1) + i
        <4>1. i \in 1 .. Len(H) /\ i + 1 \in 1 .. Len(F) /\ n + (i + 1) = (n + 1) + i
          BY <3>2, <3>3
        <4>2. H[i] = F[i + 1]
          BY <3>2, <4>1, Zenon
        <4> QED BY <3>1, <3>2, <4>1, <4>2, Zenon
      <3>9. (n + 1) + Len(H) = l
        BY <3>1, <3>2, <3>3
      <3>10. /\ view'.stream = s /\ view'.seq + Len(pending') = n + 1
             /\ \A i \in DOMAIN pending' : pending'[i].stream = s /\ pending'[i].seq = view'.seq + i
        <4>1. CASE /\ buffering /\ view' = view /\ pending' = Append(pending, d)
          <5> DEFINE p == pending'
          <5>1. /\ p \in Seq(TrueDeltas) /\ Len(p) = Len(pending) + 1
                /\ \A i \in 1 .. Len(pending) : p[i] = pending[i]
                /\ p[Len(pending) + 1] = d
            BY <1>5, <3>3, <4>1, AppendProperties
          <5>2. DOMAIN p = 1 .. Len(pending) + 1
            BY <5>1, LenProperties
          <5> HIDE DEF p
          <5>3. view.seq + Len(p) = n + 1
            BY <3>3, <3>4, <5>1
          <5>4. ASSUME NEW i \in DOMAIN p PROVE p[i].stream = s /\ p[i].seq = view.seq + i
            <6>1. CASE i = Len(pending) + 1
              <7>1. n + 1 = view.seq + i
                BY <3>3, <3>4, <6>1
              <7> QED BY <3>7, <5>1, <6>1, <7>1, Zenon
            <6>2. CASE i # Len(pending) + 1
              <7>1. i \in 1 .. Len(pending)
                BY <3>3, <5>2, <6>2
              <7> QED BY <3>1, <3>3, <5>1, <7>1, Zenon
            <6> QED BY <6>1, <6>2
          <5> QED BY <3>1, <4>1, <5>3, <5>4, Zenon DEF p
        <4>2. CASE /\ ~buffering /\ Applies(view, d) /\ view' = Applied(view, d)
                   /\ pending' = pending /\ pending = <<>>
          <5>1. view'.stream = s /\ view'.seq = view.seq + 1
            BY <1>8, <3>1, <4>2
          <5>2. Len(pending) = 0 /\ DOMAIN pending' = {}
            BY <4>2
          <5>3. view'.seq + Len(pending') = n + 1
            BY <3>3, <3>4, <4>2, <5>1, <5>2
          <5> QED BY <5>1, <5>2, <5>3
        <4> QED BY <2>1, <4>1, <4>2
      <3>11. /\ \A i \in DOMAIN Flight' : /\ Flight'[i].delta.stream = s
                                          /\ Flight'[i].delta.seq = view'.seq + Len(pending') + i
             /\ view'.seq + Len(pending') + Len(Flight') = Len(log'[s])
        BY <3>4, <3>8, <3>9, <3>10, Zenon DEF H
      <3> QED BY <3>4, <3>10, <3>11, Zenon DEF ChainInv
    <2> QED BY <2>3, <2>4
  <1>11. ChainInv'
    BY <1>10 DEF ChainInv
  <1> QED BY <1>1, <1>4, <1>9, <1>11, SameFeed DEF ConnectionInv

-----------------------------------------------------------------------------
(* The theorems. *)

\* The invariant holds when the page connects.
LEMMA ConnectionInitial ==
    ASSUME Init
    PROVE  ConnectionInv
  <1>1. FeedInv
    <2>1. log = [s \in 1 .. MaxStreams |-> <<>>] /\ <<>> \in Seq(Contents)
      BY DEF Init, FeedInit
    <2>2. log \in [1 .. MaxStreams -> Seq(Contents)] /\ \A s \in 1 .. MaxStreams : log[s] = <<>>
      BY <2>1
    <2>3. /\ entry = "absent" /\ stream = 0 /\ sequence = 0 /\ content = Nothing /\ marks = 0
          /\ released = FALSE
      BY DEF Init, FeedInit
    <2>4. 0 \in 0 .. MaxStreams /\ 0 \in 0 .. MaxSequence /\ 0 \in 0 .. 1
      BY FeedAssumption
    <2> QED BY <2>2, <2>3, <2>4 DEF FeedInv
  <1>2. HistoryInv
    BY FeedAssumption DEF Init, FeedInit, HistoryInv, Runs
  <1>3. TransportInv
    <2>1. /\ <<>> \in Seq(Sent) /\ <<>> \in Seq(TrueEvents) /\ Len(<<>>) <= QueueLimit
          /\ 0 \in 0 .. 0
      BY FeedAssumption
    <2> QED BY <2>1 DEF Init, FeedInit, TransportInv
  <1>4. ClientTypes
    <2>1. <<>> \in Seq(TrueDeltas) /\ Len(<<>>) <= MaxPending
      BY ConnectionAssumption
    <2> QED BY <2>1 DEF Init, ClientTypes, Phases
  <1>5. ClientPhases /\ ReplyInv
    BY DEF Init, ClientPhases, ReplyInv
  <1>6. ChainInv
    BY DEF Init, ChainInv, Follows
  <1> QED BY <1>1, <1>2, <1>3, <1>4, <1>5, <1>6 DEF ConnectionInv

\* A stuttering step.
LEMMA ConnectionUnchanged ==
    ASSUME ConnectionInv, UNCHANGED vars
    PROVE  ConnectionInv'
  <1>1. UNCHANGED feed /\ UNCHANGED transport /\ UNCHANGED client
    BY DEF vars, feed, transport, client
  <1>2. /\ entry \in {"absent", "locked", "live"} /\ (stream = 0 => entry = "absent")
        /\ marks \in 0 .. 1 /\ released \in BOOLEAN
    BY DEF ConnectionInv, FeedInv
  <1> QED BY <1>1, <1>2, QuietStep DEF feed

\* Every step keeps the invariant, one case per group of actions.
LEMMA ConnectionStep ==
    ASSUME ConnectionInv, [Next]_vars
    PROVE  ConnectionInv'
  <1>1. CASE (FeedWork \/ FeedLoss) /\ UNCHANGED client
    BY <1>1, FeedStep
  <1>2. CASE Serve
    BY <1>2, ServeSnapshotStep, ServeStreamStep DEF Serve
  <1>3. CASE Deliver
    BY <1>3, DeliverDeltaStep, DeliverResetStep, StreamFinishedStep DEF Deliver
  <1>4. CASE ClientTurn
    BY <1>4, SnapshotArrivesStep, StreamOpensStep, RequestFailsStep, ResumeStep, SettleStep,
       TimerStep DEF ClientTurn
  <1>5. CASE Close
    BY <1>5, CloseStep
  <1>6. CASE LoseReply
    BY <1>6, LoseReplyStep
  <1>7. CASE UNCHANGED vars
    BY <1>7, ConnectionUnchanged
  <1> QED BY <1>1, <1>2, <1>3, <1>4, <1>5, <1>6, <1>7 DEF Next, Work, Loss

\* The inductive invariant: what the client has, what it has buffered and what is on its way
\* are emissions of the feed that follow each other, whatever is lost, overrun or restarted.
THEOREM ConnectionInductive == Spec => []ConnectionInv
  <1>1. Init => ConnectionInv
    BY ConnectionInitial
  <1>2. ConnectionInv /\ [Next]_vars => ConnectionInv'
    BY ConnectionStep
  <1> QED BY <1>1, <1>2, PTL DEF Spec

\* The invariant has the types.
LEMMA InvTypes ==
    ASSUME ConnectionInv
    PROVE  TypeOK
  <1>1. FeedInv /\ HistoryInv /\ TransportInv /\ ClientTypes /\ ClientPhases
    BY DEF ConnectionInv
  <1>2. content \in Contents
    BY <1>1, ContentType
  <1>3. \A i \in DOMAIN history : history[i] \in Deltas
    BY <1>1 DEF HistoryInv, TrueDeltas
  <1>4. \A i \in DOMAIN pending : pending[i] \in Deltas
    BY <1>1 DEF ClientTypes, TrueDeltas
  <1>5. subscribed \in 0 .. MaxStreams
    BY <1>1, FeedAssumption DEF FeedInv, TransportInv
  <1>6. view \in Views \cup {NoView} /\ reply \in Views \cup {NoView, Failed}
    BY <1>1 DEF ClientTypes, TrueViews
  <1> QED BY <1>1, <1>2, <1>3, <1>4, <1>5, <1>6
          DEF TypeOK, FeedInv, HistoryInv, TransportInv, ClientTypes, ClientPhases

\* Every field of the feed, the route and the client keeps its type; the ring buffer, the
\* queue and the pending deltas stay within their limits.
THEOREM ConnectionTypeCorrect == Spec => []TypeOK
  <1>1. ConnectionInv => TypeOK
    BY InvTypes
  <1> QED BY <1>1, ConnectionInductive, PTL

\* The client's state is one of the feed.
LEMMA InvAuthoritative ==
    ASSUME ConnectionInv
    PROVE  ViewIsAuthoritative
  <1> SUFFICES ASSUME view # NoView
               PROVE  /\ view.seq \in DOMAIN log[view.stream]
                      /\ view.content = log[view.stream][view.seq]
    BY DEF ViewIsAuthoritative
  <1>1. view \in TrueViews
    BY DEF ConnectionInv, ClientTypes
  <1>2. /\ view.stream \in 1 .. MaxStreams /\ view.seq \in Nat /\ view.seq >= 1
        /\ view.seq <= Len(log[view.stream]) /\ view.content = log[view.stream][view.seq]
    BY <1>1, FeedAssumption DEF TrueViews, Views
  <1>3. log[view.stream] \in Seq(Contents)
    BY <1>2 DEF ConnectionInv, FeedInv
  <1> QED BY <1>2, <1>3

\* Snapshots, replays, live deltas and buffered ones always add up to a state the feed has
\* been in: applyDelta, #drainPending and subscribeAfter fit together.
THEOREM DisplayAuthoritative == Spec => []ViewIsAuthoritative
  <1>1. ConnectionInv => ViewIsAuthoritative
    BY InvAuthoritative
  <1> QED BY <1>1, ConnectionInductive, PTL

\* With nothing on its way the chain ends at the end of the log.
LEMMA InvMissesNothing ==
    ASSUME ConnectionInv
    PROVE  LiveViewMissesNothing
  <1> SUFFICES ASSUME ~frozen, wire = <<>>, queue = <<>>, ~buffering
               PROVE  /\ subscribed # 0
                      /\ entry # "absent" /\ subscribed = stream => view = Snapshot
    BY DEF LiveViewMissesNothing
  <1>1. FeedInv /\ ClientTypes /\ ClientPhases /\ ChainInv
    BY DEF ConnectionInv
  <1>2. view # NoView /\ connected /\ pending = <<>> /\ ~overflow
    BY <1>1 DEF ClientPhases
  <1>3. Follows
    BY <1>2 DEF Follows
  <1>4. subscribed # 0
    BY <1>1, <1>3 DEF ChainInv
  <1>5. ASSUME subscribed = stream PROVE view = Snapshot
    <2>1. Flight = <<>> /\ Len(Flight) = 0 /\ Len(pending) = 0
      BY <1>2 DEF Flight
    <2>2. view.stream = subscribed /\ view.seq + Len(pending) + Len(Flight) = Len(log[subscribed])
      BY <1>1, <1>3, <1>4 DEF ChainInv
    <2>3. view \in TrueViews
      BY <1>1, <1>2 DEF ClientTypes
    <2>4. /\ view \in Views /\ view.seq \in Nat /\ view.seq # 0
          /\ view.content = log[view.stream][view.seq]
      BY <2>3, FeedAssumption DEF TrueViews, Views
    <2>5. view.seq = Len(log[stream]) /\ view.stream = stream
      BY <1>5, <2>1, <2>2, <2>4
    <2>6. /\ sequence = Len(log[stream])
          /\ content = IF sequence = 0 THEN Nothing ELSE log[stream][sequence]
      BY <1>1, <1>4, <1>5 DEF FeedInv
    <2>7. view.seq = sequence /\ view.content = content
      BY <2>4, <2>5, <2>6
    <2>8. view = [stream |-> view.stream, seq |-> view.seq, content |-> view.content]
      BY <2>4 DEF Views
    <2> QED BY <2>5, <2>7, <2>8 DEF Snapshot
  <1> QED BY <1>4, <1>5

\* A display that counts as live is never cut off silently: with nothing in transit it shows
\* what the feed holds, or its stream is about to end it.
THEOREM NothingMissed == Spec => []LiveViewMissesNothing
  <1>1. ConnectionInv => LiveViewMissesNothing
    BY InvMissesNothing
  <1> QED BY <1>1, ConnectionInductive, PTL

\* No action moves the client back within a stream.
LEMMA NeverBack ==
    ASSUME ConnectionInv, [Next]_vars, view # NoView, view'.stream = view.stream
    PROVE  view'.seq >= view.seq
  <1>1. FeedInv /\ ClientTypes /\ ClientPhases /\ ReplyInv
    BY DEF ConnectionInv
  <1>2. view \in TrueViews /\ view.seq \in Nat
    <2>1. view \in TrueViews
      BY <1>1 DEF ClientTypes
    <2> QED BY <2>1, FeedAssumption DEF TrueViews, Views
  <1>3. CASE view' = view
    BY <1>2, <1>3
  <1>4. CASE SnapshotArrives
    <2>1. sync = "snapshot" /\ reply \notin {NoView, Failed} /\ view' = DrainPending(reply).state
      BY <1>4 DEF SnapshotArrives
    <2>2. reply \in TrueViews
      BY <1>1, <2>1 DEF ClientTypes
    <2>3. /\ DrainPending(reply).state.stream = reply.stream
          /\ DrainPending(reply).state.seq >= reply.seq
          /\ DrainPending(reply).state \in TrueViews
      BY <1>1, <2>2, DrainFacts
    <2>4. reply.seq >= view.seq
      BY <1>1, <2>1, <2>3 DEF ReplyInv
    <2>5. reply.seq \in Nat /\ DrainPending(reply).state.seq \in Nat
      BY <2>2, <2>3, FeedAssumption DEF TrueViews, Views
    <2> QED BY <1>2, <2>1, <2>3, <2>4, <2>5
  <1>5. CASE Resume
    <2>1. view' = view \/ view' = DrainPending(view).state
      BY <1>5 DEF Resume
    <2>2. DrainPending(view).state.seq >= view.seq
      BY <1>1, <1>2, DrainFacts
    <2> QED BY <1>3, <2>1, <2>2
  <1>6. CASE DeliverDelta
    <2>1. \/ view' = view
          \/ Applies(view, Head(wire).delta) /\ view' = Applied(view, Head(wire).delta)
      BY <1>6 DEF DeliverDelta
    <2>2. ASSUME NEW d, Applies(view, d) PROVE Applied(view, d).seq = view.seq + 1
      BY <2>2 DEF Applies, Applied
    <2> QED BY <1>2, <1>3, <2>1, <2>2
  <1>7. CASE FeedWork /\ UNCHANGED client
    BY <1>3, <1>7 DEF client
  <1>8. CASE FeedLoss /\ UNCHANGED client
    BY <1>3, <1>8 DEF client
  <1>9. CASE Serve \/ LoseReply \/ Close
    BY <1>3, <1>9 DEF Serve, ServeSnapshot, ServeStream, LoseReply, Close
  <1>10. CASE DeliverReset \/ StreamFinished
    BY <1>3, <1>10 DEF DeliverReset, StreamFinished
  <1>11. CASE StreamOpens \/ RequestFails \/ Settle \/ SettleFailed \/ TimerFires
    BY <1>3, <1>11 DEF StreamOpens, RequestFails, Settle, SettleFailed, TimerFires
  <1>12. CASE UNCHANGED vars
    BY <1>3, <1>12 DEF vars
  <1> QED BY <1>4, <1>5, <1>6, <1>7, <1>8, <1>9, <1>10, <1>11, <1>12
          DEF Next, Work, Loss, Deliver, ClientTurn

\* Within a stream the display never goes back, neither when a snapshot overtakes deltas nor
\* when deltas overtake it.
THEOREM DisplayNeverGoesBack == Spec => ViewNeverGoesBack
  <1>1. ConnectionInv /\ [Next]_vars =>
          [view # NoView /\ view'.stream = view.stream => view'.seq >= view.seq]_vars
    BY NeverBack
  <1> QED BY <1>1, ConnectionInductive, PTL DEF Spec, ViewNeverGoesBack
=============================================================================
