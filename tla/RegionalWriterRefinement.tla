----------------------- MODULE RegionalWriterRefinement -----------------------
(***************************************************************************)
(* RegionalWriter implements CommandLog, for any number of regions,         *)
(* commands and calls: the database holds one growing log per region and    *)
(* the live map a prefix of each.                                           *)
(***************************************************************************)
EXTENDS RegionalWriterProofs

-----------------------------------------------------------------------------
(* Histories as sequences. *)

\* The history of a sound head lists every command that took effect, at its revision.
LEMMA HistoryFacts ==
    ASSUME NEW h, Sound(h)
    PROVE  /\ History(h) \in Seq(Commands)
           /\ Len(History(h)) = h.rev
           /\ \A i \in 1 .. h.rev :
                /\ History(h)[i] \in Commands
                /\ h.applied[History(h)[i]] = i
           /\ Log!Distinct(History(h))
  <1>1. h.rev \in Nat
    BY DEF Sound, Heads
  <1>2. ASSUME NEW i \in 1 .. h.rev
        PROVE  /\ (CHOOSE c \in Commands : h.applied[c] = i) \in Commands
               /\ h.applied[CHOOSE c \in Commands : h.applied[c] = i] = i
    <2>1. \E c \in Commands : h.applied[c] = i
      BY RevisionsUsed DEF Effective
    <2> QED BY <2>1
  <1>3. \A i \in 1 .. h.rev : History(h)[i] \in Commands /\ h.applied[History(h)[i]] = i
    BY <1>2 DEF History
  <1>4. History(h) \in [1 .. h.rev -> Commands]
    BY <1>2 DEF History
  <1>5. History(h) \in Seq(Commands) /\ Len(History(h)) = h.rev /\ DOMAIN History(h) = 1 .. h.rev
    BY <1>1, <1>4
  <1>6. Log!Distinct(History(h))
    BY <1>3, <1>5 DEF Log!Distinct
  <1> QED BY <1>3, <1>5, <1>6

\* A state that a sound head went through has a beginning of its history.
LEMMA AncestorHistory ==
    ASSUME NEW g \in Heads, NEW h, Sound(h), Ancestor(g, h)
    PROVE  /\ History(g) \in Seq(Commands)
           /\ Len(History(g)) = g.rev
           /\ Log!Continues(History(h), History(g))
  <1>1. /\ g.rev \in Nat /\ h.rev \in Nat /\ g.rev <= h.rev
        /\ h.applied \in [Commands -> Nat]
    BY DEF Heads, Sound, Ancestor
  <1>2. /\ Len(History(h)) = h.rev
        /\ \A i \in 1 .. h.rev : History(h)[i] \in Commands /\ h.applied[History(h)[i]] = i
    BY HistoryFacts
  <1>3. ASSUME NEW i \in 1 .. g.rev
        PROVE  (CHOOSE c \in Commands : g.applied[c] = i) = History(h)[i]
    <2> DEFINE e == History(h)[i]
    <2>1. e \in Commands /\ h.applied[e] = i
      BY <1>1, <1>2
    <2>2. g.applied[e] = i
      BY <1>1, <2>1 DEF Ancestor
    <2>3. ASSUME NEW d \in Commands, g.applied[d] = i
          PROVE  d = e
      <3>1. h.applied[d] = i
        BY <1>1, <2>3 DEF Ancestor
      <3>2. d \in Effective(h) /\ e \in Effective(h)
        BY <2>1, <3>1 DEF Effective
      <3> QED BY <2>1, <3>1, <3>2 DEF Sound
    <2> HIDE DEF e
    <2>4. PICK c \in Commands : c = e /\ g.applied[c] = i
      BY <2>1, <2>2
    <2>5. (CHOOSE d \in Commands : g.applied[d] = i) \in Commands
          /\ g.applied[CHOOSE d \in Commands : g.applied[d] = i] = i
      BY <2>4
    <2>6. (CHOOSE d \in Commands : g.applied[d] = i) = e
      BY <2>3, <2>5
    <2> QED BY <2>6 DEF e
  <1>4. \A i \in 1 .. g.rev : History(g)[i] = History(h)[i]
    BY <1>3 DEF History
  <1>5. History(g) \in [1 .. g.rev -> Commands]
    <2>1. \A i \in 1 .. g.rev : History(g)[i] \in Commands
      BY <1>1, <1>2, <1>4
    <2>2. DOMAIN History(g) = 1 .. g.rev /\ History(g) = [i \in DOMAIN History(g) |-> History(g)[i]]
      BY DEF History
    <2> QED BY <2>1, <2>2
  <1>6. History(g) \in Seq(Commands) /\ Len(History(g)) = g.rev
    BY <1>1, <1>5
  <1> QED BY <1>1, <1>2, <1>4, <1>6 DEF Log!Continues

-----------------------------------------------------------------------------
(* A result without a new command is a replay. *)

\* What a call is about to commit either adds a command or is the base it read: the
\* simulation time does not move by itself.
NothingWithoutCommand ==
    \A t \in Tasks :
        pc[t] = "commit" /\ result[t].rev = base[t].rev => result[t] = base[t]

\* A native step adds one revision per fresh command, and without one it is no step.
LEMMA NativeGrows ==
    ASSUME NEW h, Sound(h), NEW cmds, NEW fresh, Batch(h, cmds, fresh), NEW n \in Nat
    PROVE  /\ NativeHead(h, cmds, fresh, n).rev >= h.rev
           /\ fresh # {} => NativeHead(h, cmds, fresh, n).rev > h.rev
           /\ fresh = {} /\ n = h.now => NativeHead(h, cmds, fresh, n) = h
  <1>1. IsFiniteSet(fresh) /\ Cardinality(fresh) \in Nat
    BY FreshFinite
  <1>2. fresh # {} => Cardinality(fresh) # 0
    BY <1>1, FS_EmptySet
  <1>3. h.rev \in Nat /\ h \in Heads
    BY DEF Sound, Heads
  <1>4. ASSUME fresh = {}, n = h.now
        PROVE  NativeHead(h, cmds, fresh, n) = h
    <2>1. Cardinality(fresh) = 0
      BY <1>4, FS_EmptySet
    <2>2. [c \in Commands |-> IF c \in fresh THEN h.rev + Rank(cmds, fresh, c) ELSE h.applied[c]]
            = h.applied
      BY <1>3, <1>4 DEF Heads
    <2>3. h.rev + 0 = h.rev
      BY <1>3
    <2>4. NativeHead(h, cmds, fresh, n) = [rev |-> h.rev, applied |-> h.applied, now |-> h.now]
      BY <1>4, <2>1, <2>2, <2>3 DEF NativeHead
    <2> QED BY <1>3, <2>4 DEF Heads
  <1> QED BY <1>1, <1>2, <1>3, <1>4 DEF NativeHead

\* The native call with nothing fresh reaches no new time.
LEMMA NothingWithoutCommandStep ==
    ASSUME WriterInv, NothingWithoutCommand, [Next]_vars
    PROVE  NothingWithoutCommand'
  <1> SUFFICES ASSUME NEW u \in Tasks, pc'[u] = "commit", result'[u].rev = base'[u].rev
               PROVE  result'[u] = base'[u]
    BY DEF NothingWithoutCommand
  <1>0. TypeOK
    BY DEF WriterInv
  <1>1. CASE pc[u] = "commit" /\ result'[u] = result[u] /\ base'[u] = base[u]
    BY <1>1 DEF NothingWithoutCommand
  <1>2. CASE LoadReceipts(u)
    <2> DEFINE fresh == {c \in Members(job[u].cmds) :
                            ledger[Region(u)][c] = 0 /\ ~InWindow(base[u], c)}
    <2>1. ~Return(u)
      BY <1>0 DEF Return, Suspend, TypeOK
    <2>2. PICK n \in Latest(base[u], fresh) :
            result' = [result EXCEPT ![u] = NativeHead(base[u], job[u].cmds, fresh, n)]
      BY <1>2, <2>1 DEF LoadReceipts
    <2>3. base' = base
      BY <1>2, <2>1 DEF LoadReceipts
    <2>4. /\ job[u] \in Jobs /\ Sound(base[u]) /\ base[u] \in Heads
          /\ head[Region(u)] # NoHead /\ Ancestor(base[u], head[Region(u)])
          /\ Region(u) \in Regions
      BY <1>2, HeadTypes DEF WriterInv, CallOK, LoadReceipts, Sound
    <2>5. \A c \in fresh : base[u].applied[c] = 0
      <3>1. ledger[Region(u)] = head[Region(u)].applied
        BY <2>4 DEF WriterInv, LedgerOK
      <3>2. Members(job[u].cmds) \subseteq Commands
        BY <2>4, WriterAssumption DEF Members
      <3>3. \A c \in Commands : head[Region(u)].applied[c] = 0 => base[u].applied[c] = 0
        BY <2>4, HeadTypes DEF Ancestor, Heads
      <3> QED BY <3>1, <3>2, <3>3
    <2>6. Batch(base[u], job[u].cmds, fresh) /\ fresh \subseteq Commands
      BY <2>4, <2>5, JobBatch
    <2>7. n \in Nat /\ (fresh = {} => n = base[u].now)
      BY <2>2, <2>4, <2>6, LatestType DEF Latest
    <2>8. result'[u] = NativeHead(base[u], job[u].cmds, fresh, n)
      BY <1>0, <2>2 DEF TypeOK
    <2> HIDE DEF fresh
    <2>9. fresh = {}
      <3>1. base[u].rev \in Nat
        BY <2>4 DEF Heads
      <3>2. NativeHead(base[u], job[u].cmds, fresh, n).rev = base[u].rev
        BY <2>3, <2>8
      <3> QED BY <2>4, <2>6, <2>7, <3>1, <3>2, NativeGrows
    <2> QED BY <2>3, <2>4, <2>6, <2>7, <2>8, <2>9, NativeGrows
  <1>3. (pc[u] = "commit" /\ result'[u] = result[u] /\ base'[u] = base[u]) \/ LoadReceipts(u)
    <2>1. CASE UNCHANGED vars
      BY <2>1 DEF vars
    <2>2. CASE Crash
      BY <2>2 DEF Crash
    <2>3. CASE \E j \in Jobs : ForeignCommit(j)
      BY <2>3 DEF ForeignCommit, calls
    <2>4. CASE Expire \/ Release
      BY <2>4 DEF Expire, Release, calls
    <2>5. ASSUME NEW t \in Tasks, Return(t)
          PROVE  pc[u] = "commit" /\ result'[u] = result[u] /\ base'[u] = base[u]
      BY <1>0, <2>5, ReturnType
    <2>6. ASSUME NEW t \in Tasks, ~Return(t),
                 \/ Step(t) \/ \E j \in Jobs : Call(t, j)
                 \/ \E r \in Regions : Recover(t, r) \/ Restore(t, r) \/ Initialize(t, r)
          PROVE  \/ pc[u] = "commit" /\ result'[u] = result[u] /\ base'[u] = base[u]
                 \/ LoadReceipts(u)
      BY <1>0, <2>6, ZenonT(60) DEF Step, Call, LoadRow, LoadReceipts, CommitConflict, CommitReplay, CommitWrite,
           FanoutReleased, FanoutConfirm, FanoutDelta, FanoutRebuild, FanoutFails,
           RebuildRead, RebuildInit, RebuildDone, RecoverDone, RestoreRead, RestoreInit, RestoreDone,
           InitializeTx, InitializeFanout, Recover, Restore, Initialize, BeginRebuild,
           FailRegion, FailWorld, Suspend, TypeOK, calls
    <2>7. ASSUME NEW t \in Tasks, DatabaseFails(t)
          PROVE  Return(t)
      BY <1>0, <2>7, DatabaseFailsEnds
    <2> QED BY <2>1, <2>2, <2>3, <2>4, <2>5, <2>6, <2>7 DEF Next, Work
  <1> QED BY <1>1, <1>2, <1>3
-----------------------------------------------------------------------------
(* The refinement. *)

\* The abstract state a head and its frame stand for.
LogState ==
    /\ \A r \in Regions : head[r] # NoHead =>
         /\ Sound(head[r])
         /\ History(head[r]) \in Seq(Commands)
         /\ Len(History(head[r])) = head[r].rev
    /\ \A r \in Regions : shown[r] # NoHead =>
         /\ head[r] # NoHead
         /\ History(shown[r]) \in Seq(Commands)
         /\ Log!Continues(History(head[r]), History(shown[r]))

\* The invariant says what the abstract state needs.
LEMMA LogStateHolds ==
    ASSUME WriterInv
    PROVE  LogState
  <1>1. ASSUME NEW r \in Regions, head[r] # NoHead
        PROVE  /\ Sound(head[r])
               /\ History(head[r]) \in Seq(Commands)
               /\ Len(History(head[r])) = head[r].rev
    BY <1>1, HistoryFacts DEF WriterInv, LedgerOK
  <1>2. ASSUME NEW r \in Regions, shown[r] # NoHead
        PROVE  /\ head[r] # NoHead
               /\ History(shown[r]) \in Seq(Commands)
               /\ Log!Continues(History(head[r]), History(shown[r]))
    <2>1. shown[r] \in Heads /\ head[r] # NoHead /\ Ancestor(shown[r], head[r])
      BY <1>2, HeadTypes DEF WriterInv, FeedShowsCommitted
    <2> QED BY <1>1, <2>1, AncestorHistory
  <1> QED BY <1>1, <1>2 DEF LogState

\* A step that leaves the database alone changes at most the view.
LEMMA ShowStep ==
    ASSUME WriterInv, LogState', head' = head
    PROVE  Log!Show
  <1> DEFINE view == [r \in Regions |-> IF shown[r] = NoHead THEN <<>> ELSE History(shown[r])]
             log == [r \in Regions |-> IF head[r] = NoHead THEN <<>> ELSE History(head[r])]
  <1>1. ASSUME NEW r \in Regions
        PROVE  view'[r] \in Seq(Commands) /\ Log!Continues(log[r], view'[r])
    <2>1. CASE shown'[r] = NoHead
      <3>1. view'[r] = <<>>
        BY <2>1
      <3>2. Len(log[r]) \in Nat
        <4>1. head[r] # NoHead => Len(History(head[r])) = head[r].rev /\ head[r].rev \in Nat
          BY DEF LogState, Sound, Heads
        <4> QED BY <4>1
      <3> HIDE DEF log, view
      <3> QED BY <3>1, <3>2 DEF Log!Continues
    <2>2. CASE shown'[r] # NoHead
      <3>1. /\ head'[r] # NoHead
            /\ History(shown'[r]) \in Seq(Commands)
            /\ Log!Continues(History(head'[r]), History(shown'[r]))
        BY <2>2 DEF LogState, History, Log!Continues
      <3>2. view'[r] = History(shown'[r]) /\ log[r] = History(head'[r])
        BY <2>2, <3>1 DEF History
      <3> QED BY <3>1, <3>2
    <2> QED BY <2>1, <2>2
  <1>2. UNCHANGED <<Persisted, log, [r \in Regions |-> IF head[r] = NoHead THEN 0 ELSE head[r].now]>>
    BY DEF Persisted, History
  <1> QED BY <1>1, <1>2 DEF Log!Show

\* A write of a grown head on region r extends the log of that region.
LEMMA ExtendStep ==
    ASSUME WriterInv, LogState', HeadsGrow, NEW r \in Regions, NEW h \in Heads,
           head[r] # NoHead, head' = [head EXCEPT ![r] = h], h.rev > head[r].rev,
           NotBeforeWorld(h.now), shown' = shown
    PROVE  Log!Extend(r)
  <1> DEFINE log == [s \in Regions |-> IF head[s] = NoHead THEN <<>> ELSE History(head[s])]
             time == [s \in Regions |-> IF head[s] = NoHead THEN 0 ELSE head[s].now]
             view == [s \in Regions |-> IF shown[s] = NoHead THEN <<>> ELSE History(shown[s])]
  <1>1. /\ head \in [Regions -> Heads \cup {NoHead}] /\ head[r] \in Heads
        /\ head'[r] = h /\ h # NoHead
        /\ \A s \in Regions \ {r} : head'[s] = head[s]
    BY WriterAssumption DEF WriterInv, TypeOK
  <1>2. Persisted' = Persisted /\ r \in Persisted
    BY <1>1 DEF Persisted
  <1>3. Sound(h) /\ Sound(head[r]) /\ Ancestor(head[r], h)
    BY <1>1 DEF WriterInv, LedgerOK, LogState, HeadsGrow, Sound, Effective
  <1>4. /\ History(h) \in Seq(Commands) /\ Len(History(h)) = h.rev
        /\ Log!Distinct(History(h)) /\ Len(History(head[r])) = head[r].rev
        /\ Log!Continues(History(h), History(head[r]))
    BY <1>1, <1>3, HistoryFacts, AncestorHistory
  <1>5. log'[r] = History(h) /\ log[r] = History(head[r]) /\ time'[r] = h.now
    BY <1>1 DEF History
  <1>6. \A s \in Regions \ {r} : log'[s] = log[s] /\ time'[s] = time[s]
    BY <1>1 DEF History
  <1>7. log' = [log EXCEPT ![r] = log'[r]] /\ time' = [time EXCEPT ![r] = time'[r]]
    <2>1. /\ log = [s \in Regions |-> log[s]] /\ log' = [s \in Regions |-> log'[s]]
          /\ time = [s \in Regions |-> time[s]] /\ time' = [s \in Regions |-> time'[s]]
      OBVIOUS
    <2> HIDE DEF log, time
    <2> QED BY <1>6, <2>1
  <1>8. h.now \in Nat /\ \A q \in Persisted : time[q] <= h.now
    BY DEF NotBeforeWorld, Persisted, Heads
  <1>9. view' = view
    BY DEF History
  <1>10. log'[r] \in Seq(Commands) /\ Len(log'[r]) > Len(log[r])
    BY <1>4, <1>5
  <1>11. Log!Continues(log'[r], log[r]) /\ Log!Distinct(log'[r])
    BY <1>4, <1>5
  <1>12. time'[r] \in Nat /\ \A q \in Persisted : time[q] <= time'[r]
    BY <1>5, <1>8
  <1> HIDE DEF log, time, view
  <1> QED BY <1>2, <1>7, <1>9, <1>10, <1>11, <1>12 DEF Log!Extend, Log!Stamps, log, time, view

\* The first head of region r founds it.
LEMMA FoundStep ==
    ASSUME WriterInv, NEW r \in Regions, head[r] = NoHead,
           head' = [head EXCEPT ![r] = GenesisHead(r)],
           NotBeforeWorld(GenesisHead(r).now), shown' = shown
    PROVE  Log!Found(r)
  <1> DEFINE log == [s \in Regions |-> IF head[s] = NoHead THEN <<>> ELSE History(head[s])]
             time == [s \in Regions |-> IF head[s] = NoHead THEN 0 ELSE head[s].now]
             view == [s \in Regions |-> IF shown[s] = NoHead THEN <<>> ELSE History(shown[s])]
             h == GenesisHead(r)
  <1>0. Sound(h) /\ h \in Heads /\ h # NoHead /\ h.now \in Nat /\ h.rev = 0
    <2>1. Sound(h)
      BY GenesisSound
    <2>2. h.rev = 0
      BY DEF GenesisHead
    <2> QED BY <2>1, <2>2, WriterAssumption DEF Sound, Heads
  <1>1. /\ head \in [Regions -> Heads \cup {NoHead}]
        /\ head'[r] = h
        /\ \A s \in Regions \ {r} : head'[s] = head[s]
    BY DEF WriterInv, TypeOK
  <1> HIDE DEF h
  <1>2. Persisted' = Persisted \cup {r} /\ r \notin Persisted
    BY <1>0, <1>1 DEF Persisted
  <1>3. History(h) = <<>>
    <2>1. History(h) \in Seq(Commands) /\ Len(History(h)) = 0
      BY <1>0, HistoryFacts
    <2> QED BY <2>1
  <1>4. ASSUME NEW s \in Regions
        PROVE  log'[s] = log[s]
    <2>1. CASE s = r
      <3>1. log'[r] = History(head'[r]) /\ log[r] = <<>>
        BY <1>0, <1>1 DEF History
      <3> QED BY <1>1, <1>3, <2>1, <3>1
    <2>2. CASE s # r
      BY <1>1, <2>2 DEF History
    <2> QED BY <2>1, <2>2
  <1>5. time'[r] = h.now /\ \A s \in Regions \ {r} : time'[s] = time[s]
    BY <1>0, <1>1
  <1>6. log' = log /\ time' = [time EXCEPT ![r] = time'[r]]
    <2>1. /\ log = [s \in Regions |-> log[s]] /\ log' = [s \in Regions |-> log'[s]]
          /\ time = [s \in Regions |-> time[s]] /\ time' = [s \in Regions |-> time'[s]]
      OBVIOUS
    <2> HIDE DEF log, time
    <2> QED BY <1>4, <1>5, <2>1
  <1>7. \A q \in Persisted : time[q] <= h.now
    BY DEF NotBeforeWorld, Persisted, h
  <1>8. view' = view
    BY DEF History
  <1>9. time'[r] \in Nat /\ \A q \in Persisted : time[q] <= time'[r]
    BY <1>0, <1>5, <1>7
  <1> HIDE DEF log, time, view
  <1> QED BY <1>2, <1>6, <1>8, <1>9 DEF Log!Found, Log!Stamps, log, time, view

\* A commit that passed the compare-and-set extends the log of its region.
LEMMA CommitExtends ==
    ASSUME WriterInv, LogState', HeadsGrow, NothingWithoutCommand,
           NEW t \in Tasks, CommitWrite(t)
    PROVE  \E r \in Regions : Log!Extend(r)
  <1>1. PICK fresh \in SUBSET Commands :
          /\ Batch(base[t], job[t].cmds, fresh)
          /\ result[t] = NativeHead(base[t], job[t].cmds, fresh, result[t].now)
          /\ result[t].now \in Nat
    BY CommitStep DEF CommitWrite
  <1>2. /\ Region(t) \in Regions /\ Sound(base[t]) /\ result[t] \in Heads
        /\ head[Region(t)] = base[t] /\ base[t] # NoHead
    BY CommitStep, WriterAssumption DEF CommitWrite, Unchanged, Sound
  <1>3. result[t].rev > base[t].rev
    <2>1. result[t].rev \in Nat /\ base[t].rev \in Nat
      BY <1>2 DEF Sound, Heads
    <2>2. result[t].rev >= base[t].rev
      BY <1>1, <1>2, NativeGrows
    <2>3. result[t].rev # base[t].rev
      BY DEF NothingWithoutCommand, CommitWrite, Replayed
    <2> QED BY <2>1, <2>2, <2>3
  <1>4. /\ head' = [head EXCEPT ![Region(t)] = result[t]]
        /\ NotBeforeWorld(result[t].now) /\ shown' = shown
    BY DEF CommitWrite, livemap
  <1>5. PICK r \in Regions, h \in Heads : r = Region(t) /\ h = result[t]
    BY <1>2
  <1>6. /\ head[r] # NoHead /\ head' = [head EXCEPT ![r] = h] /\ h.rev > head[r].rev
        /\ NotBeforeWorld(h.now) /\ shown' = shown
    BY <1>2, <1>3, <1>4, <1>5
  <1>7. Log!Extend(r)
    BY <1>6, ExtendStep
  <1> QED BY <1>7

\* A commit of the foreign writer extends the log as well.
LEMMA ForeignExtends ==
    ASSUME WriterInv, LogState', HeadsGrow, NEW j \in Jobs, ForeignCommit(j)
    PROVE  \E r \in Regions : Log!Extend(r)
  <1> DEFINE fresh == Members(j.cmds)
  <1>1. j.region \in Regions /\ j.cmds \in Seq(Commands) /\ Len(j.cmds) = 1
    BY WriterAssumption DEF ForeignCommit
  <1>2. head[j.region] # NoHead /\ Sound(head[j.region]) /\ ledger[j.region] = head[j.region].applied
    BY <1>1 DEF ForeignCommit, Registered, WriterInv, LedgerOK
  <1>3. Batch(head[j.region], j.cmds, fresh) /\ fresh \subseteq Commands /\ fresh # {}
    <2>1. \A c \in fresh : head[j.region].applied[c] = 0
      BY <1>2 DEF ForeignCommit
    <2>2. j.cmds[1] \in fresh
      BY <1>1 DEF Members
    <2> QED BY <2>1, <2>2, JobBatch
  <1>4. PICK n \in Latest(head[j.region], fresh) :
          /\ NotBeforeWorld(n)
          /\ head' = [head EXCEPT ![j.region] = NativeHead(head[j.region], j.cmds, fresh, n)]
    BY DEF ForeignCommit
  <1> HIDE DEF fresh
  <1>5. n \in Nat
    BY <1>2, <1>3, <1>4, LatestType DEF Sound
  <1> DEFINE k == NativeHead(head[j.region], j.cmds, fresh, n)
  <1>6. k \in Heads /\ k.rev > head[j.region].rev /\ k.now = n
    <2>1. Sound(k)
      BY <1>2, <1>3, <1>5, NativeStep
    <2>2. k.rev > head[j.region].rev
      BY <1>2, <1>3, <1>5, NativeGrows
    <2>3. k.now = n
      BY DEF NativeHead
    <2> QED BY <2>1, <2>2, <2>3 DEF Sound
  <1>7. shown' = shown
    BY DEF ForeignCommit, livemap
  <1> HIDE DEF k
  <1>8. PICK r \in Regions, h \in Heads : r = j.region /\ h = k
    BY <1>1, <1>6
  <1>9. /\ head[r] # NoHead /\ head' = [head EXCEPT ![r] = h] /\ h.rev > head[r].rev
        /\ NotBeforeWorld(h.now) /\ shown' = shown
    BY <1>2, <1>4, <1>6, <1>7, <1>8 DEF k
  <1>10. Log!Extend(r)
    BY <1>9, ExtendStep
  <1> QED BY <1>10

\* Every step of the writer is a step of the log, or none.
LEMMA LogStep ==
    ASSUME WriterInv, LogState', NothingWithoutCommand, [Next]_vars
    PROVE  [Log!Next]_(Log!vars)
  <1>1. CASE head' = head
    <2>1. Log!Show
      BY <1>1, ShowStep
    <2> QED BY <2>1 DEF Log!Next
  <1>2. CASE Next /\ head' # head
    <2>0. HeadsGrow
      BY <1>2, DatabaseStep
    <2>1. ASSUME NEW t \in Tasks, CommitWrite(t)
          PROVE  Log!Next
      <3>1. \E r \in Regions : Log!Extend(r)
        BY <2>0, <2>1, CommitExtends
      <3> QED BY <3>1 DEF Log!Next
    <2>2. ASSUME NEW j \in Jobs, ForeignCommit(j)
          PROVE  Log!Next
      <3>1. \E r \in Regions : Log!Extend(r)
        BY <2>0, <2>2, ForeignExtends
      <3> QED BY <3>1 DEF Log!Next
    <2>3. ASSUME NEW t \in Tasks, InitializeTx(t)
          PROVE  Log!Next
      <3>1. Region(t) \in Regions /\ result[t] = GenesisHead(Region(t))
        BY <2>3, HeadTypes DEF InitializeTx, WriterInv, CallOK
      <3>2. /\ head[Region(t)] = NoHead /\ NotBeforeWorld(result[t].now)
            /\ head' = [head EXCEPT ![Region(t)] = result[t]] /\ shown' = shown
        BY <1>2, <2>3 DEF InitializeTx, database, livemap
      <3>3. PICK r \in Regions : r = Region(t)
        BY <3>1
      <3>4. /\ head[r] = NoHead /\ head' = [head EXCEPT ![r] = GenesisHead(r)]
            /\ NotBeforeWorld(GenesisHead(r).now) /\ shown' = shown
        BY <3>1, <3>2, <3>3
      <3>5. Log!Found(r)
        BY <3>4, FoundStep
      <3> QED BY <3>5 DEF Log!Next
    <2>4. \/ \E t \in Tasks : CommitWrite(t) \/ InitializeTx(t)
          \/ \E j \in Jobs : ForeignCommit(j)
      BY <1>2 DEF Next, Work, Step, Call, LoadRow, LoadReceipts, CommitConflict, CommitReplay,
           FanoutReleased, FanoutConfirm, FanoutDelta, FanoutRebuild, FanoutFails,
           RebuildRead, RebuildInit, RebuildDone, RecoverDone, RestoreRead, RestoreInit, RestoreDone,
           InitializeTx, InitializeFanout, Recover, Restore, Initialize, Expire, Release, Crash,
           DatabaseFails, FailRegion, FailWorld, database
    <2> QED BY <2>1, <2>2, <2>3, <2>4
  <1> QED BY <1>1, <1>2 DEF vars

\* The persistent single writer implements the abstract command log: for any number of
\* regions, commands, calls and crashes its database is one growing log per region
\* without repetitions, and the live map shows prefixes of it.
THEOREM WriterImplementsLog == Spec => ImplementsCommandLog
  <1>1. Init => Log!Init
    BY DEF Init, NoHeads, Log!Init, Persisted
  <1>2. Init => NothingWithoutCommand
    BY DEF Init, NothingWithoutCommand
  <1>3. WriterInv /\ NothingWithoutCommand /\ [Next]_vars => NothingWithoutCommand'
    BY NothingWithoutCommandStep
  <1>4. WriterInv /\ LogState' /\ NothingWithoutCommand /\ [Next]_vars => [Log!Next]_(Log!vars)
    BY LogStep
  <1>5. WriterInv => LogState
    BY LogStateHolds
  <1> QED BY <1>1, <1>2, <1>3, <1>4, <1>5, WriterInductive, PTL DEF Spec, ImplementsCommandLog, Log!Spec
=============================================================================
