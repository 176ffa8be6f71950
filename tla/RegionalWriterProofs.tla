------------------------- MODULE RegionalWriterProofs -------------------------
(***************************************************************************)
(* Proofs about RegionalWriter, for any number of regions, commands, calls  *)
(* and any receipt window at least as long as a batch.                      *)
(***************************************************************************)
EXTENDS RegionalWriter, FiniteSetTheorems, SequenceTheorems, TLAPS

-----------------------------------------------------------------------------
(* What the native runtime computes. *)

Effective(h) == {c \in Commands : h.applied[c] # 0}

\* The history of a head is sound: its commands took effect at revisions of their own,
\* as many as there are revisions.
Sound(h) ==
    /\ h \in Heads
    /\ \A c \in Commands : h.applied[c] <= h.rev
    /\ \A c, d \in Effective(h) : h.applied[c] = h.applied[d] => c = d
    /\ Cardinality(Effective(h)) = h.rev

\* What a native call is given: a batch of the job, of which the commands in fresh never
\* took effect in h.
Batch(h, cmds, fresh) ==
    /\ cmds \in Seq(Commands)
    /\ \A i, k \in DOMAIN cmds : cmds[i] = cmds[k] => i = k
    /\ Len(cmds) <= Window
    /\ fresh \subseteq Members(cmds)
    /\ \A c \in fresh : h.applied[c] = 0

\* A batch has at most as many fresh commands as the receipt window is long.
LEMMA FreshFinite ==
    ASSUME NEW h, NEW cmds, NEW fresh, Batch(h, cmds, fresh)
    PROVE  /\ IsFiniteSet(fresh)
           /\ Cardinality(fresh) \in Nat
           /\ Cardinality(fresh) <= Window
           /\ fresh \subseteq Commands
  <1>0. /\ Len(cmds) \in Nat /\ DOMAIN cmds = 1 .. Len(cmds)
        /\ cmds \in [1 .. Len(cmds) -> Commands]
    BY LenProperties DEF Batch
  <1>1. IsFiniteSet(1 .. Len(cmds)) /\ Cardinality(1 .. Len(cmds)) = Len(cmds)
    BY <1>0, FS_Interval, SMTT(30)
  <1>2. cmds \in Surjection(1 .. Len(cmds), Members(cmds))
    BY <1>0 DEF Surjection, Members
  <1>3. IsFiniteSet(Members(cmds)) /\ Cardinality(Members(cmds)) <= Len(cmds)
    BY <1>1, <1>2, FS_Surjection
  <1>4. fresh \in SUBSET Members(cmds)
    BY DEF Batch
  <1>5. IsFiniteSet(fresh) /\ Cardinality(fresh) <= Cardinality(Members(cmds))
    BY <1>3, <1>4, FS_Subset
  <1>6. Cardinality(fresh) \in Nat /\ Cardinality(Members(cmds)) \in Nat
    BY <1>3, <1>5, FS_CardinalityType
  <1>7. Members(cmds) \subseteq Commands
    BY DEF Batch, Members
  <1> QED BY <1>0, <1>1, <1>3, <1>4, <1>5, <1>6, <1>7, WriterAssumption DEF Batch

\* The fresh commands of a batch have different ranks from 1 to their number.
LEMMA RankFacts ==
    ASSUME NEW h, NEW cmds, NEW fresh, Batch(h, cmds, fresh)
    PROVE  /\ \A c \in fresh : Rank(cmds, fresh, c) \in 1 .. Cardinality(fresh)
           /\ \A c, d \in fresh : Rank(cmds, fresh, c) = Rank(cmds, fresh, d) => c = d
  <1> DEFINE Below(c) == {d \in fresh : PositionIn(cmds, d) <= PositionIn(cmds, c)}
  <1>1. \A c \in fresh : /\ PositionIn(cmds, c) \in 1 .. Len(cmds)
                         /\ cmds[PositionIn(cmds, c)] = c
    <2>1. SUFFICES ASSUME NEW c \in fresh
                   PROVE  PositionIn(cmds, c) \in 1 .. Len(cmds) /\ cmds[PositionIn(cmds, c)] = c
      OBVIOUS
    <2>2. \E i \in DOMAIN cmds : cmds[i] = c
      BY DEF Batch, Members
    <2> QED BY <2>2 DEF PositionIn, Batch
  <1>2. Len(cmds) \in Nat
    BY DEF Batch
  <1>3. ASSUME NEW c \in fresh
        PROVE  /\ IsFiniteSet(Below(c))
               /\ Cardinality(Below(c)) \in 1 .. Cardinality(fresh)
    <2>1. IsFiniteSet(fresh) /\ Cardinality(fresh) \in Nat
      BY FreshFinite
    <2>2. Below(c) \in SUBSET fresh
      OBVIOUS
    <2>3. IsFiniteSet(Below(c)) /\ Cardinality(Below(c)) <= Cardinality(fresh)
      BY <2>1, <2>2, FS_Subset
    <2>4. c \in Below(c)
      BY <1>1, <1>2
    <2>5. Cardinality(Below(c)) \in Nat /\ Cardinality(Below(c)) # 0
      BY <2>3, <2>4, FS_CardinalityType, FS_EmptySet
    <2> QED BY <2>1, <2>3, <2>5
  <1>4. ASSUME NEW c \in fresh, NEW d \in fresh, PositionIn(cmds, c) < PositionIn(cmds, d)
        PROVE  Cardinality(Below(c)) # Cardinality(Below(d))
    <2>1. Below(c) \in SUBSET Below(d)
      BY <1>1, <1>2, <1>4
    <2>2. d \in Below(d) /\ d \notin Below(c)
      BY <1>1, <1>2, <1>4
    <2> HIDE DEF Below
    <2> QED BY <1>3, <2>1, <2>2, FS_Subset
  <1>5. ASSUME NEW c \in fresh, NEW d \in fresh, c # d
        PROVE  Cardinality(Below(c)) # Cardinality(Below(d))
    <2>1. PositionIn(cmds, c) # PositionIn(cmds, d)
      BY <1>1, <1>5
    <2>2. PositionIn(cmds, c) < PositionIn(cmds, d) \/ PositionIn(cmds, d) < PositionIn(cmds, c)
      BY <1>1, <1>2, <2>1
    <2> QED BY <2>2, <1>4
  <1> QED BY <1>3, <1>5 DEF Rank

\* A native call extends a sound history to a sound one that the old one is a prefix of,
\* and keeps the receipts of everything it applied in the window.
LEMMA NativeStep ==
    ASSUME NEW h, NEW cmds, NEW fresh, NEW n \in Nat, Sound(h), Batch(h, cmds, fresh)
    PROVE  /\ Sound(NativeHead(h, cmds, fresh, n))
           /\ Ancestor(h, NativeHead(h, cmds, fresh, n))
           /\ \A c \in fresh : InWindow(NativeHead(h, cmds, fresh, n), c)
  <1> DEFINE k == NativeHead(h, cmds, fresh, n)
             R(c) == Rank(cmds, fresh, c)
  <1>0. /\ h.rev \in Nat /\ h.applied \in [Commands -> Nat] /\ Window \in Nat
        /\ \A c \in Commands : h.applied[c] <= h.rev
    BY WriterAssumption DEF Sound, Heads
  <1>1. /\ IsFiniteSet(fresh) /\ Cardinality(fresh) \in Nat
        /\ Cardinality(fresh) <= Window /\ fresh \subseteq Commands
    BY FreshFinite
  <1>2. /\ \A c \in fresh : R(c) \in 1 .. Cardinality(fresh)
        /\ \A c, d \in fresh : R(c) = R(d) => c = d
    BY RankFacts
  <1>3. /\ k.rev = h.rev + Cardinality(fresh)
        /\ \A c \in fresh : k.applied[c] = h.rev + R(c)
        /\ \A c \in Commands \ fresh : k.applied[c] = h.applied[c]
        /\ k.now = n
    BY <1>1 DEF NativeHead
  <1>4. k \in Heads
    <2>1. h.rev + Cardinality(fresh) \in Nat
      BY <1>0, <1>1
    <2>2. \A c \in fresh : h.rev + R(c) \in Nat
      BY <1>0, <1>1, <1>2
    <2>3. \A c \in Commands : h.applied[c] \in Nat
      BY <1>0
    <2> HIDE DEF R
    <2> QED BY <2>1, <2>2, <2>3 DEF NativeHead, Heads, R
  <1>5. \A c \in fresh : h.applied[c] = 0
    BY DEF Batch
  <1> HIDE DEF k, R
  <1>6. \A c \in Commands : k.applied[c] <= k.rev
    <2>1. \A c \in fresh : k.applied[c] <= k.rev
      BY <1>0, <1>1, <1>2, <1>3
    <2>2. \A c \in Commands \ fresh : k.applied[c] <= k.rev
      BY <1>0, <1>1, <1>3
    <2> QED BY <2>1, <2>2
  <1>7. Effective(k) = Effective(h) \cup fresh /\ Effective(h) \cap fresh = {}
    <2>1. \A c \in fresh : k.applied[c] # 0
      BY <1>0, <1>1, <1>2, <1>3
    <2> QED BY <1>1, <1>3, <1>5, <2>1 DEF Effective
  <1>8. \A c, d \in Effective(k) : k.applied[c] = k.applied[d] => c = d
    <2>1. \A c \in fresh : k.applied[c] > h.rev /\ k.applied[c] = h.rev + R(c) /\ R(c) \in Nat
      BY <1>0, <1>1, <1>2, <1>3
    <2>2. \A c \in Effective(h) : /\ k.applied[c] = h.applied[c] /\ h.applied[c] <= h.rev
                                  /\ h.applied[c] \in Nat
      BY <1>0, <1>3, <1>7 DEF Effective
    <2>3. \A c, d \in Effective(h) : h.applied[c] = h.applied[d] => c = d
      BY DEF Sound
    <2> QED BY <1>0, <1>2, <1>7, <2>1, <2>2, <2>3
  <1>9. Cardinality(Effective(k)) = k.rev
    <2>1. IsFiniteSet(Effective(h))
      <3>1. Effective(h) \in SUBSET Commands BY DEF Effective
      <3> QED BY <3>1, FS_Subset, WriterAssumption
    <2>2. Cardinality({}) = 0 BY FS_EmptySet
    <2>3. Cardinality(Effective(h) \cup fresh)
            = Cardinality(Effective(h)) + Cardinality(fresh) - Cardinality(Effective(h) \cap fresh)
      BY <1>1, <2>1, FS_Union
    <2>4. Cardinality(Effective(h)) = h.rev BY DEF Sound
    <2>5. Cardinality(Effective(k)) = h.rev + Cardinality(fresh) - 0
      BY <1>7, <2>2, <2>3, <2>4
    <2> QED BY <1>0, <1>1, <1>3, <2>5
  <1>10. Ancestor(h, k)
    <2>1. \A c \in Commands : h.applied[c] = IF k.applied[c] <= h.rev THEN k.applied[c] ELSE 0
      BY <1>0, <1>1, <1>2, <1>3, <1>5
    <2> QED BY <1>0, <1>1, <1>3, <2>1 DEF Ancestor
  <1>11. \A c \in fresh : InWindow(k, c)
    BY <1>0, <1>1, <1>2, <1>3 DEF InWindow
  <1> QED BY <1>4, <1>6, <1>8, <1>9, <1>10, <1>11 DEF Sound, k

\* The trigger captures exactly the history of a head the native runtime computed on the
\* head whose receipts the ledger holds, and finds nothing to refuse.
LEMMA CaptureExact ==
    ASSUME NEW r \in Regions, NEW h, NEW cmds, NEW fresh, NEW n \in Nat,
           Sound(h), Batch(h, cmds, fresh), ledger[r] = h.applied
    PROVE  /\ Captured(r, NativeHead(h, cmds, fresh, n)) = NativeHead(h, cmds, fresh, n).applied
           /\ LedgerAccepts(r, NativeHead(h, cmds, fresh, n))
  <1> DEFINE k == NativeHead(h, cmds, fresh, n)
  <1>1. /\ Sound(k) /\ \A c \in fresh : InWindow(k, c)
    BY NativeStep
  <1>2. \A c \in Commands \ fresh : k.applied[c] = h.applied[c]
    BY DEF NativeHead
  <1>3. \A c \in fresh : h.applied[c] = 0
    BY DEF Batch
  <1>4. k.applied \in [Commands -> Nat] /\ h.applied \in [Commands -> Nat]
    BY <1>1 DEF Sound, Heads
  <1> HIDE DEF k
  <1>5. \A c \in Commands : Captured(r, k)[c] = k.applied[c]
    BY <1>1, <1>2, <1>3, <1>4 DEF Captured, InWindow
  <1>6. Captured(r, k) = k.applied
    BY <1>4, <1>5 DEF Captured
  <1>7. {c \in Commands : Captured(r, k)[c] # 0} = Effective(k)
    BY <1>6 DEF Effective
  <1>8. LedgerAccepts(r, k)
    BY <1>1, <1>6, <1>7 DEF LedgerAccepts, Sound
  <1> QED BY <1>6, <1>8 DEF k

\* Histories are ordered.
LEMMA AncestorTransitive ==
    ASSUME NEW f \in Heads, NEW g \in Heads, NEW h \in Heads, Ancestor(f, g), Ancestor(g, h)
    PROVE  Ancestor(f, h)
  <1>1. /\ f.rev \in Nat /\ g.rev \in Nat /\ h.rev \in Nat
        /\ h.applied \in [Commands -> Nat] /\ g.applied \in [Commands -> Nat]
    BY DEF Heads
  <1>2. f.rev <= g.rev /\ g.rev <= h.rev
    BY DEF Ancestor
  <1>3. ASSUME NEW c \in Commands
        PROVE  f.applied[c] = IF h.applied[c] <= f.rev THEN h.applied[c] ELSE 0
    <2>1. f.applied[c] = IF g.applied[c] <= f.rev THEN g.applied[c] ELSE 0
      BY DEF Ancestor
    <2>2. g.applied[c] = IF h.applied[c] <= g.rev THEN h.applied[c] ELSE 0
      BY DEF Ancestor
    <2>3. h.applied[c] \in Nat
      BY <1>1
    <2> QED BY <1>1, <1>2, <2>1, <2>2, <2>3
  <1> QED BY <1>1, <1>2, <1>3 DEF Ancestor

\* Every sound head is on its own history.
LEMMA AncestorReflexive ==
    ASSUME NEW h, Sound(h)
    PROVE  Ancestor(h, h)
  BY DEF Ancestor, Sound, Heads

\* A region's first head is sound.
LEMMA GenesisSound ==
    ASSUME NEW r \in Regions
    PROVE  Sound(GenesisHead(r)) /\ GenesisHead(r).applied = NoReceipts
  <1>1. GenesisHead(r) \in Heads
    BY WriterAssumption DEF GenesisHead, Heads, NoReceipts
  <1>2. Effective(GenesisHead(r)) = {}
    BY DEF Effective, GenesisHead, NoReceipts
  <1>3. Cardinality({}) = 0
    BY FS_EmptySet
  <1>4. GenesisHead(r).rev = 0 /\ GenesisHead(r).applied = NoReceipts
    BY DEF GenesisHead
  <1>5. \A c \in Commands : GenesisHead(r).applied[c] <= GenesisHead(r).rev
    BY <1>4 DEF NoReceipts
  <1>6. Cardinality(Effective(GenesisHead(r))) = GenesisHead(r).rev
    BY <1>2, <1>3, <1>4
  <1> QED BY <1>1, <1>2, <1>4, <1>5, <1>6 DEF Sound

-----------------------------------------------------------------------------
(* The inductive invariant. *)

\* The durable receipts are the history of the head, which is sound.
LedgerOK ==
    \A r \in Regions :
        /\ head[r] = NoHead => ledger[r] = NoReceipts
        /\ head[r] # NoHead => Sound(head[r]) /\ ledger[r] = head[r].applied

\* What a suspended call holds is a state the head of its region went through; what it is
\* about to commit is a native step from the base it read.
CallOK(t) ==
    /\ pc[t] \in {"row", "receipts", "commit"} => job[t] \in Jobs
    /\ pc[t] \in {"receipts", "commit"} =>
         /\ head[Region(t)] # NoHead
         /\ Sound(base[t])
         /\ Ancestor(base[t], head[Region(t)])
    /\ pc[t] = "commit" => \E fresh \in SUBSET Commands :
         /\ Batch(base[t], job[t].cmds, fresh)
         /\ result[t] = NativeHead(base[t], job[t].cmds, fresh, result[t].now)
    /\ pc[t] \in {"fanout", "initFanout"} =>
         head[Region(t)] # NoHead /\ Ancestor(result[t], head[Region(t)])
    /\ pc[t] = "initTx" => result[t] = GenesisHead(Region(t))
    /\ pc[t] = "restoreRead" => head[Region(t)] # NoHead
    /\ pc[t] = "restoreInit" => rows[t][Region(t)] # NoHead
    /\ \A r \in Regions : rows[t][r] # NoHead => head[r] # NoHead /\ Ancestor(rows[t][r], head[r])

WriterInv ==
    /\ TypeOK
    /\ LedgerOK
    /\ FeedShowsCommitted
    /\ \A t \in Tasks : CallOK(t)

\* The head of a region is never lost and only extended.
HeadsGrow ==
    \A r \in Regions : head[r] # NoHead =>
        head'[r] # NoHead /\ Ancestor(head[r], head'[r])

-----------------------------------------------------------------------------
(* Every step keeps the types. *)

\* A simulation time falls into a world second.
LEMMA SecondType ==
    ASSUME NEW ms \in Nat
    PROVE  Second(ms) \in Nat
  BY DEF Second

\* The empty table of heads is a table of heads.
LEMMA NoHeadsType == NoHeads \in [Regions -> Heads \cup {NoHead}]
  BY DEF NoHeads

\* The heads a call or the database holds are heads, not NoHead, where it matters.
LEMMA HeadTypes ==
    ASSUME WriterInv
    PROVE  /\ \A r \in Regions : head[r] # NoHead => head[r] \in Heads
           /\ \A r \in Regions : shown[r] # NoHead => shown[r] \in Heads
           /\ \A t \in Tasks, r \in Regions : rows[t][r] # NoHead => rows[t][r] \in Heads
           /\ \A t \in Tasks : Region(t) \in Regions
           /\ \A h \in Heads : h.now \in Nat /\ h.applied \in [Commands -> Nat]
  BY DEF WriterInv, TypeOK, Region, Heads

\* What a returning call leaves behind, and that it leaves the other calls alone.
LEMMA ReturnType ==
    ASSUME TypeOK, NEW t \in Tasks, Return(t)
    PROVE  /\ pc' \in [Tasks -> Stages] /\ pc'[t] = "idle" /\ rows'[t] = NoHeads
           /\ job' \in [Tasks -> [region: Regions, cmds: Seq(Commands)]]
           /\ base' \in [Tasks -> Heads \cup {NoHead}]
           /\ result' \in [Tasks -> Heads \cup {NoHead}]
           /\ rows' \in [Tasks -> [Regions -> Heads \cup {NoHead}]]
           /\ \A u \in Tasks \ {t} :
                /\ pc'[u] = pc[u] /\ job'[u] = job[u] /\ base'[u] = base[u]
                /\ result'[u] = result[u] /\ rows'[u] = rows[u]
  <1>1. NoJob \in [region: Regions, cmds: Seq(Commands)]
    BY WriterAssumption DEF NoJob
  <1> QED BY <1>1, NoHeadsType DEF TypeOK, Return, Suspend, Stages

\* A call that returns keeps the types if what it leaves behind has its type.
LEMMA ReturnKeepsTypes ==
    ASSUME TypeOK, NEW t \in Tasks, Return(t),
           head' \in [Regions -> Heads \cup {NoHead}],
           ledger' \in [Regions -> [Commands -> Nat]],
           ready' \subseteq Regions,
           published' \in [Regions -> Heads \cup {NoHead}],
           expected' \subseteq Regions,
           released' \in BOOLEAN,
           feed' \in {"absent", "locked", "live"},
           shown' \in [Regions -> Heads \cup {NoHead}],
           feedAt' \in Nat
    PROVE  TypeOK'
  <1>1. \A u \in Tasks :
          /\ pc'[u] \in {"receipts", "commit"} => base'[u] \in Heads
          /\ pc'[u] \in {"commit", "fanout", "initTx", "initFanout"} => result'[u] \in Heads
    BY ReturnType DEF TypeOK
  <1> QED BY <1>1, ReturnType DEF TypeOK

\* Locking the live map keeps the feed's types and shows nothing new.
LEMMA UnavailableType ==
    ASSUME TypeOK, MarkLivemapUnavailable
    PROVE  /\ feed' \in {"absent", "locked", "live"}
           /\ shown' \in [Regions -> Heads \cup {NoHead}]
           /\ feedAt' \in Nat
           /\ \A r \in Regions : shown'[r] \in {shown[r], NoHead}
  BY NoHeadsType
  DEF TypeOK, MarkLivemapUnavailable, MarkUnavailable, DropFeed, NoHeads

\* A failing call keeps the types and shows nothing new.
LEMMA FailTypes ==
    ASSUME TypeOK, NEW t \in Tasks, FailRegion(t) \/ FailWorld(t)
    PROVE  TypeOK' /\ \A r \in Regions : shown'[r] \in {shown[r], NoHead}
  <1>1. CASE FailRegion(t)
    BY <1>1, ReturnKeepsTypes, UnavailableType DEF FailRegion, TypeOK
  <1>2. CASE FailWorld(t)
    BY <1>2, ReturnKeepsTypes, UnavailableType, NoHeadsType DEF FailWorld, ClearWorldReady, TypeOK
  <1> QED BY <1>1, <1>2

\* The trigger writes a ledger.
LEMMA CapturedType ==
    ASSUME TypeOK, NEW r \in Regions, NEW h \in Heads
    PROVE  Captured(r, h) \in [Commands -> Nat]
  BY DEF TypeOK, Captured, Heads

\* Commands of a job without a receipt in the ledger form a native batch on every base.
LEMMA JobBatch ==
    ASSUME NEW j \in Jobs, NEW h, NEW fresh \in SUBSET Members(j.cmds),
           \A c \in fresh : h.applied[c] = 0
    PROVE  Batch(h, j.cmds, fresh) /\ fresh \subseteq Commands
  <1>1. /\ j.cmds \in Seq(Commands)
        /\ \A i, k \in DOMAIN j.cmds : j.cmds[i] = j.cmds[k] => i = k
        /\ Len(j.cmds) <= Window
    BY WriterAssumption
  <1>2. Batch(h, j.cmds, fresh)
    BY <1>1 DEF Batch
  <1> QED BY <1>2, FreshFinite

\* The native runtime reaches a simulation time.
LEMMA LatestType ==
    ASSUME NEW h \in Heads, NEW fresh \in SUBSET Commands, NEW n \in Latest(h, fresh)
    PROVE  n \in Nat
  BY WriterAssumption DEF Latest, Heads

\* The native call of a task at its receipts: the commands handed over never took effect,
\* although the receipts were read after the row.
LEMMA NativeCall ==
    ASSUME WriterInv, NEW t \in Tasks, LoadReceipts(t), ~Return(t)
    PROVE  /\ pc' = [pc EXCEPT ![t] = "commit"]
           /\ UNCHANGED <<job, base, rows>>
           /\ \E fresh \in SUBSET Commands, n \in Nat :
                /\ Batch(base[t], job[t].cmds, fresh)
                /\ result' = [result EXCEPT ![t] = NativeHead(base[t], job[t].cmds, fresh, n)]
                /\ Sound(NativeHead(base[t], job[t].cmds, fresh, n))
  <1> DEFINE fresh == {c \in Members(job[t].cmds) :
                          ledger[Region(t)][c] = 0 /\ ~InWindow(base[t], c)}
  <1>1. /\ job[t] \in Jobs /\ Sound(base[t]) /\ base[t] \in Heads
        /\ head[Region(t)] # NoHead /\ Ancestor(base[t], head[Region(t)])
        /\ Region(t) \in Regions
    BY HeadTypes DEF WriterInv, CallOK, LoadReceipts, Sound
  <1>2. ledger[Region(t)] = head[Region(t)].applied
    BY <1>1 DEF WriterInv, LedgerOK
  <1>3. fresh \subseteq Commands
    BY <1>1, WriterAssumption DEF Members
  <1>4. \A c \in fresh : base[t].applied[c] = 0
    <2>1. \A c \in fresh : head[Region(t)].applied[c] = 0
      BY <1>2
    <2>2. base[t].rev \in Nat
      BY <1>1 DEF Heads
    <2> QED BY <1>1, <1>3, <2>1, <2>2 DEF Ancestor
  <1>5. Batch(base[t], job[t].cmds, fresh)
    BY <1>1, <1>4, JobBatch
  <1>6. PICK n \in Latest(base[t], fresh) :
          result' = [result EXCEPT ![t] = NativeHead(base[t], job[t].cmds, fresh, n)]
    BY DEF LoadReceipts
  <1>7. n \in Nat
    BY <1>1, <1>3, <1>6, LatestType
  <1>8. Sound(NativeHead(base[t], job[t].cmds, fresh, n))
    BY <1>1, <1>5, <1>7, NativeStep
  <1>9. pc' = [pc EXCEPT ![t] = "commit"] /\ UNCHANGED <<job, base, rows>>
    BY DEF LoadReceipts, Suspend
  <1> HIDE DEF fresh
  <1> QED BY <1>3, <1>5, <1>6, <1>7, <1>8, <1>9

\* The commit of a foreign writer is a native step on the head.
LEMMA ForeignStep ==
    ASSUME WriterInv, NEW j \in Jobs, ForeignCommit(j)
    PROVE  \E fresh \in SUBSET Commands, n \in Nat :
             LET k == NativeHead(head[j.region], j.cmds, fresh, n) IN
             /\ Batch(head[j.region], j.cmds, fresh)
             /\ head' = [head EXCEPT ![j.region] = k]
             /\ ledger' = [ledger EXCEPT ![j.region] = Captured(j.region, k)]
  <1> DEFINE r == j.region
             fresh == Members(j.cmds)
  <1>1. r \in Regions
    BY WriterAssumption
  <1>2. head[r] # NoHead /\ head[r] \in Heads /\ ledger[r] = head[r].applied
    BY <1>1, HeadTypes DEF ForeignCommit, Registered, WriterInv, LedgerOK
  <1>3. \A c \in fresh : head[r].applied[c] = 0
    BY <1>2 DEF ForeignCommit
  <1>4. Batch(head[r], j.cmds, fresh) /\ fresh \subseteq Commands
    BY <1>3, JobBatch
  <1>5. PICK n \in Latest(head[r], fresh) :
          /\ head' = [head EXCEPT ![r] = NativeHead(head[r], j.cmds, fresh, n)]
          /\ ledger' = [ledger EXCEPT ![r] = Captured(r, NativeHead(head[r], j.cmds, fresh, n))]
    BY DEF ForeignCommit
  <1>6. n \in Nat
    BY <1>2, <1>4, <1>5, LatestType
  <1> QED BY <1>4, <1>5, <1>6

\* The write of a task at its commit: the head it replaces is its base, and the result is a
\* native step on it.
LEMMA CommitStep ==
    ASSUME WriterInv, NEW t \in Tasks, pc[t] = "commit"
    PROVE  /\ Region(t) \in Regions /\ Sound(base[t]) /\ result[t] \in Heads
           /\ \E fresh \in SUBSET Commands :
                /\ Batch(base[t], job[t].cmds, fresh)
                /\ result[t] = NativeHead(base[t], job[t].cmds, fresh, result[t].now)
                /\ result[t].now \in Nat
  <1>1. Region(t) \in Regions /\ result[t] \in Heads /\ result[t].now \in Nat
    BY HeadTypes DEF WriterInv, TypeOK
  <1> QED BY <1>1 DEF WriterInv, CallOK

-----------------------------------------------------------------------------
(* Every step of the database extends the histories and keeps the ledger exact. *)

\* Writing a native step on the head keeps the ledger exact and extends the history.
LEMMA NativeWrite ==
    ASSUME WriterInv, NEW r \in Regions, NEW h, NEW cmds, NEW fresh, NEW n \in Nat,
           Sound(h), Batch(h, cmds, fresh), head[r] = h, h # NoHead,
           head' = [head EXCEPT ![r] = NativeHead(h, cmds, fresh, n)],
           ledger' = [ledger EXCEPT ![r] = Captured(r, NativeHead(h, cmds, fresh, n))]
    PROVE  LedgerOK' /\ HeadsGrow
  <1> DEFINE k == NativeHead(h, cmds, fresh, n)
  <1>1. Sound(k) /\ Ancestor(h, k)
    BY NativeStep
  <1>2. k # NoHead
    BY <1>1, WriterAssumption DEF Sound
  <1>3. ledger[r] = h.applied
    BY DEF WriterInv, LedgerOK
  <1>4. Captured(r, k) = k.applied
    BY <1>3, CaptureExact
  <1>5. head'[r] = k /\ ledger'[r] = k.applied
    BY <1>4 DEF WriterInv, TypeOK
  <1>6. \A s \in Regions \ {r} : head'[s] = head[s] /\ ledger'[s] = ledger[s]
    BY DEF WriterInv, TypeOK
  <1>7. \A s \in Regions : head[s] # NoHead => Ancestor(head[s], head[s])
    BY AncestorReflexive DEF WriterInv, LedgerOK
  <1> HIDE DEF k
  <1>8. LedgerOK'
    <2> SUFFICES ASSUME NEW s \in Regions
                 PROVE  /\ head'[s] = NoHead => ledger'[s] = NoReceipts
                        /\ head'[s] # NoHead => Sound(head'[s]) /\ ledger'[s] = head'[s].applied
      BY DEF LedgerOK, Sound, Effective, NoReceipts
    <2>1. CASE s = r BY <1>1, <1>2, <1>5, <2>1
    <2>2. CASE s # r BY <1>6, <2>2 DEF WriterInv, LedgerOK
    <2> QED BY <2>1, <2>2
  <1>9. HeadsGrow
    BY <1>1, <1>2, <1>5, <1>6, <1>7 DEF HeadsGrow
  <1> QED BY <1>8, <1>9

\* Whatever step is taken, the ledger stays exact and no history is lost or rewritten.
LEMMA DatabaseStep ==
    ASSUME WriterInv, Next
    PROVE  LedgerOK' /\ HeadsGrow
  <1>1. CASE UNCHANGED database
    <2>1. \A r \in Regions : head[r] # NoHead => Ancestor(head[r], head[r])
      BY AncestorReflexive DEF WriterInv, LedgerOK
    <2>2. head' = head /\ ledger' = ledger
      BY <1>1 DEF database
    <2>3. LedgerOK'
      BY <2>2 DEF WriterInv, LedgerOK, Sound, Effective, NoReceipts
    <2> QED BY <2>1, <2>2, <2>3 DEF HeadsGrow
  <1>2. ASSUME NEW t \in Tasks, CommitWrite(t)
        PROVE  LedgerOK' /\ HeadsGrow
    <2>1. PICK fresh \in SUBSET Commands :
            /\ Batch(base[t], job[t].cmds, fresh)
            /\ result[t] = NativeHead(base[t], job[t].cmds, fresh, result[t].now)
            /\ result[t].now \in Nat
      BY <1>2, CommitStep DEF CommitWrite
    <2>2. /\ Region(t) \in Regions /\ Sound(base[t]) /\ head[Region(t)] = base[t]
          /\ base[t] # NoHead
      BY <1>2, CommitStep, WriterAssumption DEF CommitWrite, Unchanged, Sound
    <2>3. /\ head' = [head EXCEPT ![Region(t)] = NativeHead(base[t], job[t].cmds, fresh, result[t].now)]
          /\ ledger' = [ledger EXCEPT ![Region(t)] =
                           Captured(Region(t), NativeHead(base[t], job[t].cmds, fresh, result[t].now))]
      BY <1>2, <2>1 DEF CommitWrite
    <2> QED BY <2>1, <2>2, <2>3, NativeWrite
  <1>3. ASSUME NEW t \in Tasks, InitializeTx(t), head[Region(t)] = NoHead
        PROVE  LedgerOK' /\ HeadsGrow
    <2> DEFINE r == Region(t)
    <2>1. r \in Regions /\ result[t] = GenesisHead(r)
      BY <1>3, HeadTypes DEF InitializeTx, WriterInv, CallOK
    <2>2. Sound(GenesisHead(r)) /\ GenesisHead(r).applied = NoReceipts
      BY <2>1, GenesisSound
    <2>3. CASE UNCHANGED database
      BY <1>1, <2>3
    <2>4. CASE ~UNCHANGED database
      <3>1. head' = [head EXCEPT ![r] = GenesisHead(r)] /\ ledger' = ledger
        BY <1>3, <2>1, <2>4 DEF InitializeTx, database
      <3>2. /\ head'[r] = GenesisHead(r) /\ ledger'[r] = NoReceipts
            /\ \A s \in Regions \ {r} : head'[s] = head[s] /\ ledger'[s] = ledger[s]
        BY <1>3, <2>1, <3>1 DEF WriterInv, TypeOK, LedgerOK
      <3>3. GenesisHead(r) # NoHead
        BY <2>2, WriterAssumption DEF Sound
      <3>4. \A s \in Regions : head[s] # NoHead => Ancestor(head[s], head[s])
        BY AncestorReflexive DEF WriterInv, LedgerOK
      <3>5. \A s \in Regions :
              /\ head'[s] = NoHead => ledger'[s] = NoReceipts
              /\ head'[s] # NoHead => Sound(head'[s]) /\ ledger'[s] = head'[s].applied
        BY <2>2, <3>2, <3>3 DEF WriterInv, LedgerOK
      <3>6. LedgerOK'
        BY <3>5 DEF LedgerOK, Sound, Effective, NoReceipts
      <3> QED BY <1>3, <3>2, <3>4, <3>6 DEF HeadsGrow
    <2> QED BY <2>3, <2>4
  <1>4. ASSUME NEW j \in Jobs, ForeignCommit(j)
        PROVE  LedgerOK' /\ HeadsGrow
    <2>1. j.region \in Regions
      BY WriterAssumption
    <2>2. head[j.region] # NoHead /\ Sound(head[j.region])
      BY <1>4, <2>1 DEF ForeignCommit, Registered, WriterInv, LedgerOK
    <2>3. PICK fresh \in SUBSET Commands, n \in Nat :
            /\ Batch(head[j.region], j.cmds, fresh)
            /\ head' = [head EXCEPT ![j.region] = NativeHead(head[j.region], j.cmds, fresh, n)]
            /\ ledger' = [ledger EXCEPT ![j.region] =
                             Captured(j.region, NativeHead(head[j.region], j.cmds, fresh, n))]
      BY <1>4, ForeignStep
    <2> QED BY <2>1, <2>2, <2>3, NativeWrite
  <1>5. \/ UNCHANGED database
        \/ \E t \in Tasks : CommitWrite(t)
        \/ \E t \in Tasks : InitializeTx(t) /\ head[Region(t)] = NoHead
        \/ \E j \in Jobs : ForeignCommit(j)
    BY ZenonT(60) DEF Next, Work, Step, Call, LoadRow, LoadReceipts, CommitConflict, CommitReplay,
           FanoutReleased, FanoutConfirm, FanoutDelta, FanoutRebuild, FanoutFails,
           RebuildRead, RebuildInit, RebuildDone, RecoverDone, RestoreRead, RestoreInit, RestoreDone,
           InitializeTx, InitializeFanout, Recover, Restore, Initialize, Expire, Release, Crash,
           DatabaseFails, FailRegion, FailWorld, database
  <1> QED BY <1>1, <1>2, <1>3, <1>4, <1>5

-----------------------------------------------------------------------------
(* Every step keeps the types. *)

\* apply and applyBatch up to the commit keep the types.
LEMMA CallTypes ==
    ASSUME WriterInv, NEW t \in Tasks,
           (\E j \in Jobs : Call(t, j)) \/ LoadRow(t) \/ LoadReceipts(t)
             \/ CommitConflict(t) \/ CommitReplay(t) \/ CommitWrite(t)
    PROVE  TypeOK'
  <1> USE HeadTypes
  <1>0. TypeOK BY DEF WriterInv
  <1>1. CASE Return(t) /\ UNCHANGED <<database, worker, livemap>>
    BY <1>0, <1>1, ReturnKeepsTypes DEF TypeOK, database, worker, livemap
  <1>2. ASSUME NEW j \in Jobs, Call(t, j)
        PROVE  TypeOK'
    <2>1. j \in [region: Regions, cmds: Seq(Commands)]
      BY WriterAssumption
    <2> QED BY <1>0, <1>2, <2>1 DEF TypeOK, Call, Suspend, Stages, database, worker, livemap
  <1>3. CASE LoadRow(t) /\ ~Return(t)
    BY <1>0, <1>3 DEF TypeOK, LoadRow, Suspend, Stages, database, worker, livemap
  <1>4. CASE LoadReceipts(t) /\ ~Return(t)
    <2>1. PICK k \in Heads : result' = [result EXCEPT ![t] = k]
      BY <1>4, NativeCall DEF Sound
    <2> QED BY <1>0, <1>4, <2>1, NativeCall
            DEF TypeOK, LoadReceipts, Stages, database, worker, livemap
  <1>5. CASE CommitReplay(t)
    BY <1>0, <1>5 DEF TypeOK, CommitReplay, Suspend, Stages, database, worker, livemap, calls
  <1>6. CASE CommitWrite(t)
    <2>1. result[t] \in Heads /\ Region(t) \in Regions
      BY <1>6, CommitStep DEF CommitWrite
    <2>2. Captured(Region(t), result[t]) \in [Commands -> Nat]
      BY <1>0, <2>1, CapturedType
    <2> QED BY <1>0, <1>6, <2>1, <2>2 DEF TypeOK, CommitWrite, Suspend, Stages, worker, livemap, calls
  <1> QED BY <1>1, <1>2, <1>3, <1>4, <1>5, <1>6 DEF CommitConflict, LoadRow, LoadReceipts

\* The fan-out keeps the types.
LEMMA FanoutTypes ==
    ASSUME WriterInv, NEW t \in Tasks,
           FanoutReleased(t) \/ FanoutConfirm(t) \/ FanoutDelta(t) \/ FanoutRebuild(t) \/ FanoutFails(t)
    PROVE  TypeOK'
  <1>0. TypeOK BY DEF WriterInv
  <1>1. pc[t] = "fanout" /\ result[t] \in Heads /\ Region(t) \in Regions
    BY <1>0, HeadTypes
    DEF TypeOK, FanoutReleased, FanoutConfirm, FanoutDelta, FanoutRebuild, FanoutFails
  <1>2. Second(result[t].now) \in Nat
    BY <1>1, HeadTypes, SecondType
  <1>3. CASE FanoutReleased(t)
    BY <1>0, <1>3, ReturnKeepsTypes DEF FanoutReleased, TypeOK, database, worker, livemap
  <1>4. CASE FanoutConfirm(t)
    BY <1>0, <1>1, <1>4, ReturnKeepsTypes DEF FanoutConfirm, MarkReady, TypeOK, database, livemap
  <1>5. CASE FanoutDelta(t)
    BY <1>0, <1>1, <1>2, <1>5, ReturnKeepsTypes DEF FanoutDelta, MarkReady, TypeOK, database
  <1>6. CASE FanoutRebuild(t)
    BY <1>0, <1>6, NoHeadsType
    DEF FanoutRebuild, BeginRebuild, ClearWorldReady, MarkUnavailable, Suspend, TypeOK, Stages,
        database, calls
  <1>7. CASE FanoutFails(t)
    BY <1>0, <1>7, FailTypes DEF FanoutFails
  <1> QED BY <1>3, <1>4, <1>5, <1>6, <1>7

\* The rebuild of the feed and the recovery keep the types.
LEMMA RebuildTypes ==
    ASSUME WriterInv, NEW t \in Tasks,
           RebuildRead(t) \/ RebuildInit(t) \/ RebuildDone(t) \/ RecoverDone(t)
             \/ \E r \in Regions : Recover(t, r)
    PROVE  TypeOK'
  <1>0. TypeOK BY DEF WriterInv
  <1>1. CASE RebuildRead(t)
    BY <1>0, <1>1 DEF RebuildRead, Suspend, TypeOK, Stages, database, worker, livemap
  <1>2. CASE RebuildInit(t) /\ ~FailWorld(t)
    <2>1. PICK last \in RowsOf(t) : feedAt' = Second(rows[t][last].now)
      BY <1>2 DEF RebuildInit
    <2>2. rows[t][last] \in Heads
      BY <2>1, HeadTypes DEF RowsOf
    <2>3. feedAt' \in Nat
      BY <2>1, <2>2, HeadTypes, SecondType
    <2>4. shown' = [r \in Regions |-> IF r \in RowsOf(t) THEN rows[t][r] ELSE shown[r]]
      BY <1>2 DEF RebuildInit
    <2>5. shown' \in [Regions -> Heads \cup {NoHead}]
      BY <1>0, <2>4 DEF TypeOK
    <2> QED BY <1>0, <1>2, <2>3, <2>5 DEF RebuildInit, Suspend, TypeOK, Stages, database, worker, calls
  <1>3. CASE RebuildDone(t) /\ ~FailWorld(t)
    <2>1. published' = [r \in Regions |-> IF r \in RowsOf(t) THEN rows[t][r] ELSE published[r]]
      BY <1>3 DEF RebuildDone
    <2>2. published' \in [Regions -> Heads \cup {NoHead}]
      BY <1>0, <2>1 DEF TypeOK
    <2>3. ready' \subseteq Regions
      BY <1>0, <1>3 DEF RebuildDone, RowsOf, TypeOK
    <2>4. UNCHANGED <<database, expected, released, livemap>>
      BY <1>3 DEF RebuildDone
    <2>5. CASE Return(t)
      BY <1>0, <2>2, <2>3, <2>4, <2>5, ReturnKeepsTypes DEF TypeOK, database, livemap
    <2>6. CASE Suspend(t, "recovered") /\ UNCHANGED calls
      BY <1>0, <2>2, <2>3, <2>4, <2>6 DEF Suspend, TypeOK, Stages, database, livemap, calls
    <2> QED BY <1>3, <2>5, <2>6 DEF RebuildDone
  <1>4. ASSUME NEW r \in Regions, Recover(t, r)
        PROVE  TypeOK'
    <2>1. [region |-> r, cmds |-> <<>>] \in [region: Regions, cmds: Seq(Commands)]
      OBVIOUS
    <2>2. CASE released
      BY <1>0, <1>4, <2>2 DEF Recover, TypeOK, database, livemap
    <2>3. CASE ~released
      <3>1. /\ ready' = {} /\ published' = NoHeads /\ expected' = expected \cup {r}
            /\ feed' \in {"locked", feed}
            /\ pc' = [pc EXCEPT ![t] = "rebuildRead"]
            /\ job' = [job EXCEPT ![t] = [region |-> r, cmds |-> <<>>]]
            /\ UNCHANGED <<head, ledger, released, shown, feedAt, base, result, rows>>
        BY <1>4, <2>3 DEF Recover, BeginRebuild, ClearWorldReady, MarkUnavailable, Suspend, database
      <3> QED BY <1>0, <2>1, <3>1, NoHeadsType DEF TypeOK, Stages
    <2> QED BY <2>2, <2>3
  <1>5. CASE FailWorld(t)
    BY <1>0, <1>5, FailTypes
  <1>6. CASE RecoverDone(t) /\ ~FailWorld(t)
    BY <1>0, <1>6, ReturnKeepsTypes DEF RecoverDone, TypeOK, database, worker, livemap
  <1> QED BY <1>1, <1>2, <1>3, <1>4, <1>5, <1>6

\* restore and initialize keep the types.
LEMMA BootstrapTypes ==
    ASSUME WriterInv, NEW t \in Tasks,
           (\E r \in Regions : Restore(t, r) \/ Initialize(t, r))
             \/ RestoreRead(t) \/ RestoreInit(t) \/ RestoreDone(t)
             \/ InitializeTx(t) \/ InitializeFanout(t)
    PROVE  TypeOK'
  <1>0. TypeOK /\ Region(t) \in Regions
    BY HeadTypes DEF WriterInv
  <1>1. ASSUME NEW r \in Regions
        PROVE  [region |-> r, cmds |-> <<>>] \in [region: Regions, cmds: Seq(Commands)]
    OBVIOUS
  <1>2. ASSUME NEW r \in Regions, Restore(t, r)
        PROVE  TypeOK'
    BY <1>0, <1>1, <1>2 DEF Restore, Suspend, TypeOK, Stages, database, livemap
  <1>3. ASSUME NEW r \in Regions, Initialize(t, r)
        PROVE  TypeOK'
    <2>1. GenesisHead(r) \in Heads
      BY GenesisSound DEF Sound
    <2> QED BY <1>0, <1>1, <1>3, <2>1 DEF Initialize, Suspend, TypeOK, Stages, database, worker, livemap
  <1>4. CASE RestoreRead(t)
    <2>1. [NoHeads EXCEPT ![Region(t)] = head[Region(t)]] \in [Regions -> Heads \cup {NoHead}]
      BY <1>0, NoHeadsType DEF TypeOK
    <2> QED BY <1>0, <1>4, <2>1 DEF RestoreRead, Suspend, TypeOK, Stages, database, worker, livemap
  <1>5. CASE RestoreInit(t) /\ ~FailRegion(t)
    <2>1. rows[t][Region(t)] \in Heads
      BY <1>0, <1>5, HeadTypes DEF RestoreInit, WriterInv, CallOK
    <2>2. Second(rows[t][Region(t)].now) \in Nat
      BY <2>1, HeadTypes, SecondType
    <2> QED BY <1>0, <1>5, <2>1, <2>2
            DEF RestoreInit, Suspend, TypeOK, Stages, database, worker, calls
  <1>6. CASE RestoreDone(t) /\ ~FailRegion(t)
    <2>1. rows[t][Region(t)] \in Heads \cup {NoHead}
      BY <1>0 DEF TypeOK
    <2> QED BY <1>0, <2>1, <1>6, ReturnKeepsTypes DEF RestoreDone, MarkReady, TypeOK, database, livemap
  <1>7. CASE FailRegion(t)
    BY <1>0, <1>7, FailTypes
  <1>8. CASE InitializeTx(t)
    <2>1. CASE Return(t) /\ UNCHANGED database
      BY <1>0, <1>8, <2>1, ReturnKeepsTypes DEF InitializeTx, TypeOK, database, worker, livemap
    <2>2. CASE ~(Return(t) /\ UNCHANGED database)
      <3>1. /\ head' = [head EXCEPT ![Region(t)] = result[t]]
            /\ pc' = [pc EXCEPT ![t] = "initFanout"]
            /\ UNCHANGED <<ledger, job, base, result, rows>>
            /\ UNCHANGED <<worker, livemap>>
        BY <1>8, <2>2 DEF InitializeTx, Suspend, calls
      <3>2. result[t] \in Heads
        BY <1>0, <1>8 DEF InitializeTx, TypeOK
      <3> QED BY <1>0, <3>1, <3>2 DEF TypeOK, Stages, worker, livemap
    <2> QED BY <2>1, <2>2
  <1>9. CASE InitializeFanout(t)
    <2>1. result[t] \in Heads
      BY <1>0, <1>9 DEF InitializeFanout, TypeOK
    <2>2. Second(result[t].now) \in Nat
      BY <2>1, HeadTypes, SecondType
    <2>3. CASE ~released /\ Second(result[t].now) >= feedAt
      BY <1>0, <1>9, <2>1, <2>2, <2>3, ReturnKeepsTypes
      DEF InitializeFanout, MarkReady, TypeOK, database
    <2>4. CASE ~(~released /\ Second(result[t].now) >= feedAt)
      BY <1>0, <1>9, <2>4, ReturnKeepsTypes, UnavailableType DEF InitializeFanout, TypeOK, database
    <2> QED BY <2>3, <2>4
  <1> QED BY <1>2, <1>3, <1>4, <1>5, <1>6, <1>7, <1>8, <1>9

\* Foreign writers, expiry, release and crashes keep the types.
LEMMA SurroundingTypes ==
    ASSUME WriterInv, (\E j \in Jobs : ForeignCommit(j)) \/ Expire \/ Release \/ Crash
    PROVE  TypeOK'
  <1>0. TypeOK BY DEF WriterInv
  <1>1. ASSUME NEW j \in Jobs, ForeignCommit(j)
        PROVE  TypeOK'
    <2>1. j.region \in Regions /\ head[j.region] # NoHead /\ Sound(head[j.region])
      BY <1>1, WriterAssumption DEF ForeignCommit, Registered, WriterInv, LedgerOK
    <2>2. PICK fresh \in SUBSET Commands, n \in Nat :
            LET k == NativeHead(head[j.region], j.cmds, fresh, n) IN
            /\ Batch(head[j.region], j.cmds, fresh)
            /\ head' = [head EXCEPT ![j.region] = k]
            /\ ledger' = [ledger EXCEPT ![j.region] = Captured(j.region, k)]
      BY <1>1, ForeignStep
    <2> DEFINE k == NativeHead(head[j.region], j.cmds, fresh, n)
    <2>3. k \in Heads
      BY <2>1, <2>2, NativeStep DEF Sound
    <2>4. Captured(j.region, k) \in [Commands -> Nat]
      BY <1>0, <2>1, <2>3, CapturedType
    <2>5. UNCHANGED <<worker, livemap, pc, calls>>
      BY <1>1 DEF ForeignCommit
    <2> HIDE DEF k
    <2>6. head' \in [Regions -> Heads \cup {NoHead}] /\ ledger' \in [Regions -> [Commands -> Nat]]
      BY <1>0, <2>2, <2>3, <2>4 DEF TypeOK, k
    <2> QED BY <1>0, <2>5, <2>6 DEF TypeOK, worker, livemap, calls
  <1>2. CASE Expire
    BY <1>0, <1>2, NoHeadsType DEF Expire, DropFeed, TypeOK, database, worker, calls
  <1>3. CASE Release
    BY <1>0, <1>3, NoHeadsType DEF Release, ClearWorldReady, DropFeed, TypeOK, database, calls
  <1>4. CASE Crash
    <2>1. NoJob \in [region: Regions, cmds: Seq(Commands)]
      BY WriterAssumption DEF NoJob
    <2> QED BY <1>0, <1>4, <2>1, NoHeadsType DEF Crash, DropFeed, TypeOK, Stages, database
  <1> QED BY <1>1, <1>2, <1>3, <1>4

\* A call the database fails ends; it keeps the types and shows nothing new.
LEMMA DatabaseFailsEnds ==
    ASSUME TypeOK, NEW t \in Tasks, DatabaseFails(t)
    PROVE  /\ TypeOK' /\ Return(t) /\ pc[t] # "idle"
           /\ \A r \in Regions : shown'[r] \in {shown[r], NoHead}
  <1>1. CASE FailRegion(t) \/ FailWorld(t)
    <2>1. Return(t) /\ pc[t] # "idle"
      BY <1>1 DEF DatabaseFails, FailRegion, FailWorld
    <2> QED BY <1>1, <2>1, FailTypes
  <1>2. CASE ~FailRegion(t) /\ ~FailWorld(t)
    <2>1. Return(t) /\ pc[t] # "idle" /\ UNCHANGED <<database, worker, livemap>>
      BY <1>2 DEF DatabaseFails
    <2> QED BY <2>1, ReturnKeepsTypes DEF TypeOK, database, worker, livemap
  <1> QED BY <1>1, <1>2

\* Every step keeps the types.
LEMMA TypeStep ==
    ASSUME WriterInv, Next
    PROVE  TypeOK'
  <1>1. TypeOK
    BY DEF WriterInv
  <1> QED BY <1>1, CallTypes, FanoutTypes, RebuildTypes, BootstrapTypes, SurroundingTypes,
             DatabaseFailsEnds DEF Next, Work, Step

-----------------------------------------------------------------------------
(* Every step keeps what the calls hold. *)

\* A call that a step does not touch, while the histories grow.
LEMMA CallUntouched ==
    ASSUME WriterInv, TypeOK', LedgerOK', HeadsGrow, NEW u \in Tasks,
           pc'[u] = pc[u], job'[u] = job[u], base'[u] = base[u],
           result'[u] = result[u], rows'[u] = rows[u]
    PROVE  CallOK(u)'
  <1>1. CallOK(u) /\ Region(u) \in Regions /\ Region(u)' = Region(u)
    BY HeadTypes DEF WriterInv, Region
  <1>2. \A r \in Regions : head'[r] # NoHead => head'[r] \in Heads
    BY DEF TypeOK
  <1>3. ASSUME NEW g \in Heads, NEW r \in Regions, head[r] # NoHead, Ancestor(g, head[r])
        PROVE  head'[r] # NoHead /\ Ancestor(g, head'[r])
    <2>1. /\ head[r] \in Heads /\ head'[r] \in Heads /\ head'[r] # NoHead
          /\ Ancestor(head[r], head'[r])
      BY <1>2, <1>3, HeadTypes DEF HeadsGrow
    <2> QED BY <1>3, <2>1, AncestorTransitive
  <1>4. pc[u] \in {"receipts", "commit"} =>
          /\ head'[Region(u)] # NoHead /\ Sound(base[u])
          /\ Ancestor(base[u], head'[Region(u)])
    BY <1>1, <1>3 DEF CallOK, Sound
  <1>5. pc[u] \in {"fanout", "initFanout"} =>
          head'[Region(u)] # NoHead /\ Ancestor(result[u], head'[Region(u)])
    BY <1>1, <1>3 DEF CallOK, WriterInv, TypeOK
  <1>6. \A r \in Regions : rows[u][r] # NoHead =>
          head'[r] # NoHead /\ Ancestor(rows[u][r], head'[r])
    BY <1>1, <1>3, HeadTypes DEF CallOK
  <1>7. pc[u] = "restoreRead" => head'[Region(u)] # NoHead
    BY <1>1 DEF CallOK, HeadsGrow
  <1> QED BY <1>1, <1>4, <1>5, <1>6, <1>7 DEF CallOK

\* A call that returns, or waits without a head of its own in hand.
LEMMA CallParked ==
    ASSUME WriterInv, TypeOK', LedgerOK', HeadsGrow, NEW u \in Tasks,
           pc'[u] \in {"idle", "rebuildRead", "rebuildInit", "rebuildOps", "recovered", "restoreOps"},
           rows'[u] = rows[u] \/ rows'[u] = NoHeads
    PROVE  CallOK(u)'
  <1>1. \A r \in Regions : rows[u][r] # NoHead => head[r] # NoHead /\ Ancestor(rows[u][r], head[r])
    BY DEF WriterInv, CallOK
  <1>2. \A r \in Regions : head'[r] # NoHead => head'[r] \in Heads
    BY DEF TypeOK
  <1>3. ASSUME NEW r \in Regions, rows[u][r] # NoHead
        PROVE  head'[r] # NoHead /\ Ancestor(rows[u][r], head'[r])
    <2>1. /\ rows[u][r] \in Heads /\ head[r] \in Heads /\ head'[r] \in Heads
          /\ head'[r] # NoHead /\ Ancestor(head[r], head'[r])
      BY <1>1, <1>2, <1>3, HeadTypes DEF HeadsGrow
    <2> QED BY <1>1, <1>3, <2>1, AncestorTransitive
  <1>4. \A r \in Regions : rows'[u][r] # NoHead => head'[r] # NoHead /\ Ancestor(rows'[u][r], head'[r])
    BY <1>3 DEF NoHeads
  <1> QED BY <1>4 DEF CallOK, Ancestor

\* A call that returns.
LEMMA CallReturns ==
    ASSUME WriterInv, TypeOK', LedgerOK', HeadsGrow, NEW t \in Tasks, Return(t)
    PROVE  \A u \in Tasks : CallOK(u)'
  <1>0. TypeOK BY DEF WriterInv
  <1>1. CallOK(t)'
    BY <1>0, ReturnType, CallParked
  <1>2. ASSUME NEW u \in Tasks \ {t}
        PROVE  CallOK(u)'
    BY <1>0, ReturnType, CallUntouched
  <1> QED BY <1>1, <1>2

\* apply and applyBatch up to the commit.
LEMMA CallStep ==
    ASSUME WriterInv, TypeOK', LedgerOK', HeadsGrow, NEW t \in Tasks,
           (\E j \in Jobs : Call(t, j)) \/ LoadRow(t) \/ LoadReceipts(t)
             \/ CommitConflict(t) \/ CommitReplay(t) \/ CommitWrite(t)
    PROVE  \A u \in Tasks : CallOK(u)'
  <1>0. TypeOK /\ CallOK(t) /\ Region(t) \in Regions
    BY HeadTypes DEF WriterInv
  <1>1. CASE Return(t)
    BY <1>1, CallReturns
  <1>2. ASSUME NEW j \in Jobs, Call(t, j)
        PROVE  \A u \in Tasks : CallOK(u)'
    <2>1. /\ pc'[t] = "row" /\ job'[t] = j /\ rows'[t] = rows[t] /\ head' = head
          /\ \A u \in Tasks \ {t} : pc'[u] = pc[u] /\ job'[u] = job[u]
          /\ base' = base /\ result' = result /\ rows' = rows
      BY <1>0, <1>2 DEF TypeOK, Call, Suspend, database
    <2>2. CallOK(t)'
      BY <1>0, <2>1 DEF CallOK
    <2>3. \A u \in Tasks \ {t} : CallOK(u)'
      BY <2>1, CallUntouched
    <2> QED BY <2>2, <2>3
  <1>3. CASE LoadRow(t) /\ ~Return(t)
    <2>1. /\ pc[t] = "row" /\ pc'[t] = "receipts" /\ base'[t] = head[Region(t)]
          /\ head[Region(t)] # NoHead /\ head' = head
          /\ job' = job /\ result' = result /\ rows' = rows
          /\ \A u \in Tasks \ {t} : pc'[u] = pc[u] /\ base'[u] = base[u]
      BY <1>0, <1>3 DEF TypeOK, LoadRow, Suspend, database
    <2>2. Sound(head[Region(t)]) /\ Ancestor(head[Region(t)], head[Region(t)])
      BY <1>0, <2>1, AncestorReflexive DEF WriterInv, LedgerOK
    <2>3. Region(t)' = Region(t)
      BY <2>1 DEF Region
    <2>4. CallOK(t)'
      BY <1>0, <2>1, <2>2, <2>3 DEF CallOK
    <2>5. \A u \in Tasks \ {t} : CallOK(u)'
      BY <2>1, CallUntouched
    <2> QED BY <2>4, <2>5
  <1>4. CASE LoadReceipts(t) /\ ~Return(t)
    <2>1. PICK fresh \in SUBSET Commands, n \in Nat :
            /\ Batch(base[t], job[t].cmds, fresh)
            /\ result' = [result EXCEPT ![t] = NativeHead(base[t], job[t].cmds, fresh, n)]
      BY <1>4, NativeCall
    <2>2. /\ pc[t] = "receipts" /\ pc'[t] = "commit" /\ head' = head
          /\ job' = job /\ base' = base /\ rows' = rows
          /\ \A u \in Tasks \ {t} : pc'[u] = pc[u] /\ result'[u] = result[u]
      <3>1. pc[t] = "receipts" /\ head' = head
        BY <1>4 DEF LoadReceipts, database
      <3>2. pc' = [pc EXCEPT ![t] = "commit"] /\ job' = job /\ base' = base /\ rows' = rows
        BY <1>4, NativeCall
      <3>3. /\ pc'[t] = "commit"
            /\ \A u \in Tasks \ {t} : pc'[u] = pc[u] /\ result'[u] = result[u]
        BY <1>0, <2>1, <3>2 DEF TypeOK
      <3> QED BY <3>1, <3>2, <3>3
    <2>3. /\ result'[t] = NativeHead(base[t], job[t].cmds, fresh, n)
          /\ result'[t].now = n
      BY <1>0, <2>1 DEF TypeOK, NativeHead
    <2>4. Region(t)' = Region(t)
      BY <2>2 DEF Region
    <2>5. CallOK(t)'
      BY <1>0, <2>1, <2>2, <2>3, <2>4 DEF CallOK
    <2>6. \A u \in Tasks \ {t} : CallOK(u)'
      BY <2>2, CallUntouched
    <2> QED BY <2>5, <2>6
  <1>5. CASE CommitReplay(t)
    <2>1. /\ pc[t] = "commit" /\ pc'[t] = "fanout" /\ head' = head /\ result[t] = base[t]
          /\ job' = job /\ base' = base /\ rows' = rows /\ result' = result
          /\ \A u \in Tasks \ {t} : pc'[u] = pc[u]
      BY <1>0, <1>5 DEF TypeOK, CommitReplay, Replayed, Suspend, database, calls
    <2>2. Region(t)' = Region(t)
      BY <2>1 DEF Region
    <2>3. CallOK(t)'
      BY <1>0, <2>1, <2>2 DEF CallOK
    <2>4. \A u \in Tasks \ {t} : CallOK(u)'
      BY <2>1, CallUntouched
    <2> QED BY <2>3, <2>4
  <1>6. CASE CommitWrite(t)
    <2>1. /\ pc[t] = "commit" /\ pc'[t] = "fanout" /\ head'[Region(t)] = result[t]
          /\ job' = job /\ base' = base /\ rows' = rows /\ result' = result
          /\ \A u \in Tasks \ {t} : pc'[u] = pc[u]
      BY <1>0, <1>6 DEF TypeOK, CommitWrite, Suspend, calls
    <2>2. result[t] # NoHead
      BY <2>1, CommitStep, WriterAssumption
    <2>3. Ancestor(result[t], result[t])
      <3>1. Sound(result[t])
        BY <1>0, <2>1, <2>2 DEF LedgerOK, Sound, Effective
      <3> QED BY <3>1, AncestorReflexive
    <2>4. Region(t)' = Region(t)
      BY <2>1 DEF Region
    <2>5. \A r \in Regions : rows[t][r] # NoHead => head'[r] # NoHead /\ Ancestor(rows[t][r], head'[r])
      <3> SUFFICES ASSUME NEW r \in Regions, rows[t][r] # NoHead
                   PROVE  head'[r] # NoHead /\ Ancestor(rows[t][r], head'[r])
        OBVIOUS
      <3>1. /\ rows[t][r] \in Heads /\ head[r] # NoHead /\ head[r] \in Heads
            /\ Ancestor(rows[t][r], head[r])
        BY <1>0, HeadTypes DEF CallOK
      <3>2. head'[r] # NoHead /\ head'[r] \in Heads /\ Ancestor(head[r], head'[r])
        BY <3>1 DEF HeadsGrow, TypeOK
      <3> QED BY <3>1, <3>2, AncestorTransitive
    <2>6. CallOK(t)'
      BY <2>1, <2>2, <2>3, <2>4, <2>5 DEF CallOK
    <2>7. \A u \in Tasks \ {t} : CallOK(u)'
      BY <2>1, CallUntouched
    <2> QED BY <2>6, <2>7
  <1> QED BY <1>1, <1>2, <1>3, <1>4, <1>5, <1>6 DEF CommitConflict, LoadRow, LoadReceipts

\* Fan-out, rebuild and recovery: the acting call keeps its rows, reads the heads, or returns.
LEMMA RebuildStep ==
    ASSUME WriterInv, TypeOK', LedgerOK', HeadsGrow, NEW t \in Tasks,
           \/ FanoutReleased(t) \/ FanoutConfirm(t) \/ FanoutDelta(t)
           \/ FanoutRebuild(t) \/ FanoutFails(t)
           \/ RebuildRead(t) \/ RebuildInit(t) \/ RebuildDone(t) \/ RecoverDone(t)
           \/ \E r \in Regions : Recover(t, r)
    PROVE  \A u \in Tasks : CallOK(u)'
  <1>0. TypeOK BY DEF WriterInv
  <1>1. CASE Return(t)
    BY <1>1, CallReturns
  <1>2. CASE RebuildRead(t)
    <2>1. /\ pc'[t] = "rebuildInit" /\ rows'[t] = head /\ head' = head
          /\ job' = job /\ base' = base /\ result' = result
          /\ \A u \in Tasks \ {t} : pc'[u] = pc[u] /\ rows'[u] = rows[u]
      BY <1>0, <1>2 DEF TypeOK, RebuildRead, Suspend, database
    <2>2. \A r \in Regions : head[r] # NoHead => Ancestor(head[r], head[r])
      BY AncestorReflexive DEF WriterInv, LedgerOK
    <2>3. CallOK(t)'
      BY <2>1, <2>2 DEF CallOK
    <2>4. \A u \in Tasks \ {t} : CallOK(u)'
      BY <2>1, CallUntouched
    <2> QED BY <2>3, <2>4
  <1>3. CASE ~Return(t) /\ ~RebuildRead(t)
    <2>1. /\ base' = base /\ result' = result /\ rows' = rows
          /\ \A u \in Tasks \ {t} : pc'[u] = pc[u] /\ job'[u] = job[u]
          /\ pc'[t] \in {"idle", "rebuildRead", "rebuildOps", "recovered"}
      BY <1>0, <1>3
      DEF TypeOK, FanoutReleased, FanoutConfirm, FanoutDelta, FanoutRebuild, FanoutFails,
          RebuildInit, RebuildDone, RecoverDone, Recover, BeginRebuild, FailRegion, FailWorld,
          Suspend, calls
    <2>2. CallOK(t)'
      BY <2>1, CallParked
    <2>3. \A u \in Tasks \ {t} : CallOK(u)'
      BY <2>1, CallUntouched
    <2> QED BY <2>2, <2>3
  <1> QED BY <1>1, <1>2, <1>3

\* restore and initialize.
LEMMA BootstrapStep ==
    ASSUME WriterInv, TypeOK', LedgerOK', HeadsGrow, NEW t \in Tasks,
           \/ \E r \in Regions : Restore(t, r) \/ Initialize(t, r)
           \/ RestoreRead(t) \/ RestoreInit(t) \/ RestoreDone(t)
           \/ InitializeTx(t) \/ InitializeFanout(t)
    PROVE  \A u \in Tasks : CallOK(u)'
  <1>0. TypeOK /\ CallOK(t) /\ Region(t) \in Regions
    BY HeadTypes DEF WriterInv
  <1>1. CASE Return(t)
    BY <1>1, CallReturns
  <1>2. ASSUME NEW r \in Regions, Restore(t, r)
        PROVE  \A u \in Tasks : CallOK(u)'
    <2>1. /\ pc'[t] = "restoreRead" /\ job'[t].region = r /\ head[r] # NoHead /\ head' = head
          /\ base' = base /\ result' = result /\ rows' = rows
          /\ \A u \in Tasks \ {t} : pc'[u] = pc[u] /\ job'[u] = job[u]
      BY <1>0, <1>2 DEF TypeOK, Restore, Registered, Suspend, database
    <2>2. CallOK(t)'
      BY <1>0, <2>1 DEF CallOK, Region
    <2>3. \A u \in Tasks \ {t} : CallOK(u)'
      BY <2>1, CallUntouched
    <2> QED BY <2>2, <2>3
  <1>3. ASSUME NEW r \in Regions, Initialize(t, r)
        PROVE  \A u \in Tasks : CallOK(u)'
    <2>1. /\ pc'[t] = "initTx" /\ job'[t].region = r /\ result'[t] = GenesisHead(r)
          /\ head' = head /\ base' = base /\ rows' = rows
          /\ \A u \in Tasks \ {t} : pc'[u] = pc[u] /\ job'[u] = job[u] /\ result'[u] = result[u]
      BY <1>0, <1>3 DEF TypeOK, Initialize, Suspend, database
    <2>2. CallOK(t)'
      BY <1>0, <2>1 DEF CallOK, Region
    <2>3. \A u \in Tasks \ {t} : CallOK(u)'
      BY <2>1, CallUntouched
    <2> QED BY <2>2, <2>3
  <1>4. CASE RestoreRead(t)
    <2>1. /\ pc[t] = "restoreRead" /\ pc'[t] = "restoreInit"
          /\ rows'[t] = [NoHeads EXCEPT ![Region(t)] = head[Region(t)]]
          /\ head' = head /\ job' = job /\ base' = base /\ result' = result
          /\ \A u \in Tasks \ {t} : pc'[u] = pc[u] /\ rows'[u] = rows[u]
      BY <1>0, <1>4 DEF TypeOK, RestoreRead, Suspend, database
    <2>2. head[Region(t)] # NoHead /\ Ancestor(head[Region(t)], head[Region(t)])
      BY <1>0, <2>1, AncestorReflexive DEF WriterInv, LedgerOK, CallOK
    <2>3. Region(t)' = Region(t)
      BY <2>1 DEF Region
    <2>4. CallOK(t)'
      BY <1>0, <2>1, <2>2, <2>3 DEF CallOK, NoHeads
    <2>5. \A u \in Tasks \ {t} : CallOK(u)'
      BY <2>1, CallUntouched
    <2> QED BY <2>4, <2>5
  <1>5. CASE RestoreInit(t) /\ ~Return(t)
    <2>1. /\ pc'[t] = "restoreOps" /\ job' = job /\ base' = base /\ result' = result /\ rows' = rows
          /\ \A u \in Tasks \ {t} : pc'[u] = pc[u]
      BY <1>0, <1>5 DEF TypeOK, RestoreInit, FailRegion, Suspend, calls
    <2> QED BY <2>1, CallParked, CallUntouched
  <1>6. CASE InitializeTx(t) /\ ~Return(t)
    <2>1. /\ pc'[t] = "initFanout" /\ head' = [head EXCEPT ![Region(t)] = result[t]]
          /\ job' = job /\ base' = base /\ result' = result /\ rows' = rows
          /\ \A u \in Tasks \ {t} : pc'[u] = pc[u]
      BY <1>0, <1>6 DEF TypeOK, InitializeTx, Suspend, calls
    <2>2. Region(t)' = Region(t) /\ head'[Region(t)] = result[t] /\ result[t] = GenesisHead(Region(t))
      BY <1>0, <1>6, <2>1 DEF Region, TypeOK, CallOK, InitializeTx
    <2>3. result[t] # NoHead /\ Ancestor(result[t], result[t])
      BY <1>0, <2>2, GenesisSound, AncestorReflexive, WriterAssumption DEF Sound
    <2>4. ASSUME NEW r \in Regions, rows[t][r] # NoHead
          PROVE  head'[r] # NoHead /\ Ancestor(rows[t][r], head'[r])
      <3>1. /\ rows[t][r] \in Heads /\ head[r] # NoHead /\ head[r] \in Heads
            /\ Ancestor(rows[t][r], head[r])
        BY <1>0, <2>4, HeadTypes DEF CallOK
      <3>2. head'[r] # NoHead /\ head'[r] \in Heads /\ Ancestor(head[r], head'[r])
        BY <3>1 DEF HeadsGrow, TypeOK
      <3> QED BY <3>1, <3>2, AncestorTransitive
    <2>5. CallOK(t)'
      BY <2>1, <2>2, <2>3, <2>4 DEF CallOK
    <2>6. \A u \in Tasks \ {t} : CallOK(u)'
      BY <2>1, CallUntouched
    <2> QED BY <2>5, <2>6
  <1> QED BY <1>1, <1>2, <1>3, <1>4, <1>5, <1>6
      DEF RestoreInit, RestoreDone, InitializeFanout, FailRegion

\* Every step keeps what all calls hold on the history of the heads.
LEMMA CallsStep ==
    ASSUME WriterInv, Next, TypeOK', LedgerOK', HeadsGrow
    PROVE  \A u \in Tasks : CallOK(u)'
  <1>1. ASSUME (\E j \in Jobs : ForeignCommit(j)) \/ Expire \/ Release
        PROVE  \A u \in Tasks : CallOK(u)'
    <2>1. pc' = pc /\ job' = job /\ base' = base /\ result' = result /\ rows' = rows
      BY <1>1 DEF ForeignCommit, Expire, Release, calls
    <2> QED BY <2>1, CallUntouched
  <1>2. CASE Crash
    <2>1. \A u \in Tasks : pc'[u] = "idle" /\ rows'[u] = NoHeads
      BY <1>2 DEF Crash
    <2> QED BY <2>1, CallParked
  <1>3. ASSUME NEW t \in Tasks, DatabaseFails(t)
        PROVE  \A u \in Tasks : CallOK(u)'
    BY <1>3, DatabaseFailsEnds, CallReturns DEF WriterInv
  <1> QED BY <1>1, <1>2, <1>3, CallStep, RebuildStep, BootstrapStep DEF Next, Work, Step

-----------------------------------------------------------------------------
(* Every step keeps the feed on the history of the heads. *)

\* A frame that was on the history of a head, and stays, is on it after the step.
LEMMA FrameKept ==
    ASSUME WriterInv, TypeOK', HeadsGrow, NEW r \in Regions, NEW g \in Heads,
           head[r] # NoHead, Ancestor(g, head[r])
    PROVE  head'[r] # NoHead /\ Ancestor(g, head'[r])
  <1>1. head[r] \in Heads /\ head'[r] # NoHead /\ Ancestor(head[r], head'[r])
    BY HeadTypes DEF HeadsGrow
  <1>2. head'[r] \in Heads
    BY <1>1 DEF TypeOK
  <1> QED BY <1>1, <1>2, AncestorTransitive

\* What a step puts on the feed: nothing new, or a head some call holds.
LEMMA FrameSources ==
    ASSUME WriterInv, Next, NEW r \in Regions
    PROVE  \/ shown'[r] \in {NoHead, shown[r]}
           \/ \E t \in Tasks : pc[t] \in {"fanout", "initFanout"} /\ Region(t) = r /\ shown'[r] = result[t]
           \/ \E t \in Tasks : shown'[r] = rows[t][r]
  <1>0. TypeOK /\ \A t \in Tasks : Region(t) \in Regions
    BY HeadTypes DEF WriterInv
  <1>1. CASE UNCHANGED shown
    BY <1>1
  <1>2. CASE shown' = NoHeads
    BY <1>2 DEF NoHeads
  <1>3. ASSUME NEW t \in Tasks, FailRegion(t) \/ FailWorld(t)
        PROVE  shown'[r] \in {NoHead, shown[r]}
    BY <1>0, <1>3, FailTypes
  <1>4. ASSUME NEW t \in Tasks, FanoutDelta(t)
        PROVE  \/ shown'[r] = shown[r]
               \/ pc[t] = "fanout" /\ Region(t) = r /\ shown'[r] = result[t]
    BY <1>0, <1>4 DEF FanoutDelta, TypeOK
  <1>5. ASSUME NEW t \in Tasks, RebuildInit(t), ~FailWorld(t)
        PROVE  shown'[r] = shown[r] \/ shown'[r] = rows[t][r]
    <2>1. shown' = [q \in Regions |-> IF q \in RowsOf(t) THEN rows[t][q] ELSE shown[q]]
      BY <1>5 DEF RebuildInit
    <2> QED BY <2>1
  <1>6. ASSUME NEW t \in Tasks, RestoreInit(t), ~FailRegion(t)
        PROVE  shown'[r] = shown[r] \/ shown'[r] = rows[t][r]
    <2>1. shown' = [shown EXCEPT ![Region(t)] = rows[t][Region(t)]]
      BY <1>6 DEF RestoreInit
    <2> QED BY <1>0, <2>1 DEF TypeOK
  <1>7. ASSUME NEW t \in Tasks, InitializeFanout(t)
        PROVE  \/ shown'[r] \in {NoHead, shown[r]}
               \/ pc[t] = "initFanout" /\ Region(t) = r /\ shown'[r] = result[t]
    <2>1. CASE MarkLivemapUnavailable
      BY <1>0, <2>1, UnavailableType
    <2>2. CASE shown' = [shown EXCEPT ![Region(t)] = result[t]]
      BY <1>0, <1>7, <2>2 DEF TypeOK, InitializeFanout
    <2> QED BY <1>7, <2>1, <2>2 DEF InitializeFanout
  <1>8. \/ UNCHANGED shown
        \/ shown' = NoHeads
        \/ \E t \in Tasks : \/ FailRegion(t) \/ FailWorld(t) \/ FanoutDelta(t)
                            \/ RebuildInit(t) \/ RestoreInit(t) \/ InitializeFanout(t)
    BY DEF Next, Work, Step, Call, LoadRow, LoadReceipts, CommitConflict, CommitReplay, CommitWrite,
           FanoutReleased, FanoutConfirm, FanoutRebuild, FanoutFails, RebuildRead, RebuildDone,
           RecoverDone, RestoreRead, RestoreDone, InitializeTx, Recover, Restore, Initialize,
           ForeignCommit, Expire, Release, Crash, DatabaseFails, BeginRebuild, MarkUnavailable,
           DropFeed, livemap
  <1> QED BY <1>1, <1>2, <1>3, <1>4, <1>5, <1>6, <1>7, <1>8

\* Every step keeps what the feed shows on the history of the heads.
LEMMA FeedStep ==
    ASSUME WriterInv, Next, TypeOK', HeadsGrow
    PROVE  FeedShowsCommitted'
  <1>1. ASSUME NEW r \in Regions, shown'[r] # NoHead
        PROVE  head'[r] # NoHead /\ Ancestor(shown'[r], head'[r])
    <2>1. CASE shown'[r] = shown[r]
      <3>1. shown[r] \in Heads /\ head[r] # NoHead /\ Ancestor(shown[r], head[r])
        BY <1>1, <2>1, HeadTypes DEF WriterInv, FeedShowsCommitted
      <3> QED BY <2>1, <3>1, FrameKept
    <2>2. ASSUME NEW t \in Tasks, pc[t] \in {"fanout", "initFanout"}, Region(t) = r,
                 shown'[r] = result[t]
          PROVE  head'[r] # NoHead /\ Ancestor(shown'[r], head'[r])
      <3>1. result[t] \in Heads /\ head[r] # NoHead /\ Ancestor(result[t], head[r])
        BY <2>2 DEF WriterInv, TypeOK, CallOK
      <3> QED BY <2>2, <3>1, FrameKept
    <2>3. ASSUME NEW t \in Tasks, shown'[r] = rows[t][r]
          PROVE  head'[r] # NoHead /\ Ancestor(shown'[r], head'[r])
      <3>1. rows[t][r] \in Heads /\ head[r] # NoHead /\ Ancestor(rows[t][r], head[r])
        BY <1>1, <2>3, HeadTypes DEF WriterInv, CallOK
      <3> QED BY <2>3, <3>1, FrameKept
    <2> QED BY <1>1, <2>1, <2>2, <2>3, FrameSources
  <1> QED BY <1>1 DEF FeedShowsCommitted, Ancestor

-----------------------------------------------------------------------------
(* The theorems. *)

\* The invariant holds before the first region is initialized.
LEMMA WriterInit == Init => WriterInv
  <1> SUFFICES ASSUME Init PROVE WriterInv
    OBVIOUS
  <1>1. NoJob \in [region: Regions, cmds: Seq(Commands)]
    BY WriterAssumption DEF NoJob
  <1>2. NoReceipts \in [Commands -> Nat]
    BY DEF NoReceipts
  <1>3. TypeOK
    BY <1>1, <1>2, NoHeadsType DEF Init, TypeOK, Stages
  <1>4. LedgerOK
    BY DEF Init, LedgerOK, NoHeads
  <1>5. FeedShowsCommitted
    BY DEF Init, FeedShowsCommitted, NoHeads
  <1>6. ASSUME NEW t \in Tasks
        PROVE  CallOK(t)
    BY DEF Init, CallOK, NoHeads
  <1> QED BY <1>3, <1>4, <1>5, <1>6 DEF WriterInv

\* A stuttering step keeps the invariant.
LEMMA WriterStutter ==
    ASSUME WriterInv, UNCHANGED vars
    PROVE  WriterInv'
  <1>1. /\ head' = head /\ ledger' = ledger /\ ready' = ready /\ published' = published
        /\ expected' = expected /\ released' = released /\ feed' = feed /\ shown' = shown
        /\ feedAt' = feedAt /\ pc' = pc /\ job' = job /\ base' = base /\ result' = result
        /\ rows' = rows
    BY DEF vars
  <1>2. TypeOK'
    BY <1>1 DEF WriterInv, TypeOK
  <1>3. LedgerOK'
    BY <1>1 DEF WriterInv, LedgerOK, Sound, Effective, NoReceipts
  <1>4. FeedShowsCommitted'
    BY <1>1 DEF WriterInv, FeedShowsCommitted, Ancestor
  <1>5. HeadsGrow
    BY <1>1, AncestorReflexive DEF WriterInv, LedgerOK, HeadsGrow
  <1>6. \A t \in Tasks : CallOK(t)'
    BY <1>1, <1>2, <1>3, <1>5, CallUntouched
  <1> QED BY <1>2, <1>3, <1>4, <1>6 DEF WriterInv

\* The inductive invariant: the ledger is the history of the head, the feed and every
\* suspended call hold states on that history.
THEOREM WriterInductive == Spec => []WriterInv
  <1>1. WriterInv /\ Next => WriterInv'
    <2> SUFFICES ASSUME WriterInv, Next PROVE WriterInv'
      OBVIOUS
    <2>1. TypeOK'
      BY TypeStep
    <2>2. LedgerOK' /\ HeadsGrow
      BY DatabaseStep
    <2>3. FeedShowsCommitted'
      BY <2>1, <2>2, FeedStep
    <2>4. \A t \in Tasks : CallOK(t)'
      BY <2>1, <2>2, CallsStep
    <2> QED BY <2>1, <2>2, <2>3, <2>4 DEF WriterInv
  <1>2. WriterInv /\ [Next]_vars => WriterInv'
    BY <1>1, WriterStutter
  <1> QED BY <1>2, WriterInit, PTL DEF Spec

\* The worker's calls never work on a head they did not read: TypeOK holds for any number
\* of regions, commands and concurrent calls.
THEOREM WriterTypeCorrect == Spec => []TypeOK
  <1>1. WriterInv => TypeOK
    BY DEF WriterInv
  <1> QED BY <1>1, WriterInductive, PTL

\* What the live map shows was committed, whatever calls race, fail or crash.
THEOREM FeedSafe == Spec => []FeedShowsCommitted
  <1>1. WriterInv => FeedShowsCommitted
    BY DEF WriterInv
  <1> QED BY <1>1, WriterInductive, PTL

\* The receipt trigger of the database never raises on a write that passed the
\* compare-and-set of apply or applyBatch.
THEOREM TriggerSilent == Spec => []TriggerNeverRaises
  <1>1. WriterInv => TriggerNeverRaises
    <2> SUFFICES ASSUME WriterInv, NEW t \in Tasks, pc[t] = "commit", Unchanged(t)
                 PROVE  LedgerAccepts(Region(t), result[t])
      BY DEF TriggerNeverRaises
    <2>1. PICK fresh \in SUBSET Commands :
            /\ Batch(base[t], job[t].cmds, fresh)
            /\ result[t] = NativeHead(base[t], job[t].cmds, fresh, result[t].now)
            /\ result[t].now \in Nat
      BY CommitStep
    <2>2. Region(t) \in Regions /\ Sound(base[t]) /\ head[Region(t)] = base[t]
      BY CommitStep DEF Unchanged
    <2>3. base[t] # NoHead
      BY <2>2, WriterAssumption DEF Sound
    <2>4. ledger[Region(t)] = base[t].applied
      BY <2>2, <2>3 DEF WriterInv, LedgerOK
    <2>5. LedgerAccepts(Region(t), NativeHead(base[t], job[t].cmds, fresh, result[t].now))
      BY <2>1, <2>2, <2>4, CaptureExact
    <2> QED BY <2>1, <2>5
  <1> QED BY <1>1, WriterInductive, PTL

\* A sound history uses every revision up to its own.
LEMMA RevisionsUsed ==
    ASSUME NEW h, Sound(h)
    PROVE  {h.applied[c] : c \in Effective(h)} = 1 .. h.rev
  <1> DEFINE S == Effective(h)
             T == {h.applied[c] : c \in S}
             f == [c \in S |-> h.applied[c]]
  <1>1. h.rev \in Nat /\ h.applied \in [Commands -> Nat]
    BY DEF Sound, Heads
  <1>2. IsFiniteSet(S) /\ Cardinality(S) = h.rev
    <2>1. S \in SUBSET Commands BY DEF Effective
    <2> QED BY <2>1, FS_Subset, WriterAssumption DEF Sound
  <1>3. f \in Bijection(S, T)
    <2>1. f \in [S -> T]
      OBVIOUS
    <2>2. \A c, d \in S : f[c] = f[d] => c = d
      BY DEF Sound
    <2>3. \A v \in T : \E c \in S : f[c] = v
      OBVIOUS
    <2> HIDE DEF S, T, f
    <2> QED BY <2>1, <2>2, <2>3 DEF Bijection, Injection, Surjection, IsInjective
  <1> HIDE DEF f
  <1> HIDE DEF S, T
  <1>4. IsFiniteSet(T) /\ Cardinality(T) = h.rev
    <2>1. ExistsBijection(S, T)
      BY <1>3 DEF ExistsBijection
    <2> QED BY <1>2, <2>1, FS_Bijection
  <1>5. T \in SUBSET (1 .. h.rev)
    BY <1>1 DEF Sound, Effective, S, T
  <1>6. IsFiniteSet(1 .. h.rev) /\ Cardinality(1 .. h.rev) = h.rev
    <2>1. Cardinality(1 .. h.rev) = IF 1 > h.rev THEN 0 ELSE h.rev - 1 + 1
      BY <1>1, FS_Interval
    <2>2. IsFiniteSet(1 .. h.rev)
      BY <1>1, FS_Interval
    <2> QED BY <1>1, <2>1, <2>2
  <1>7. T = 1 .. h.rev
    BY <1>4, <1>5, <1>6, FS_Subset
  <1> QED BY <1>7 DEF S, T

\* Every command takes effect at most once, no revision is without one, and the durable
\* receipts agree, for every receipt window and every interleaving of calls and crashes.
THEOREM ReceiptsExact == Spec => []ExactlyOnce
  <1>1. WriterInv => ExactlyOnce
    <2> SUFFICES ASSUME WriterInv, NEW r \in Regions, head[r] # NoHead
                 PROVE  /\ ledger[r] = head[r].applied
                        /\ \A c, d \in Effective(head[r]) :
                             head[r].applied[c] = head[r].applied[d] => c = d
                        /\ {head[r].applied[c] : c \in Effective(head[r])} = 1 .. head[r].rev
      BY DEF ExactlyOnce, Persisted, Effective
    <2>1. Sound(head[r]) /\ ledger[r] = head[r].applied
      BY DEF WriterInv, LedgerOK
    <2> QED BY <2>1, RevisionsUsed DEF Sound
  <1> QED BY <1>1, WriterInductive, PTL

\* Two states of one history: the one with fewer revisions is a state the other went through.
LEMMA AncestorsOrdered ==
    ASSUME NEW g \in Heads, NEW k \in Heads, NEW h \in Heads,
           Ancestor(g, h), Ancestor(k, h), g.rev <= k.rev
    PROVE  Ancestor(g, k)
  BY DEF Ancestor, Heads

\* A step that suspends call t at another stage leaves the other calls where they are.
LEMMA OthersStay ==
    ASSUME TypeOK, NEW t \in Tasks, NEW stage, Suspend(t, stage)
    PROVE  pc'[t] = stage /\ \A u \in Tasks \ {t} : pc'[u] = pc[u]
  BY DEF TypeOK, Suspend

\* Every step leaves a released world without service.
LEMMA ReleasedStep ==
    ASSUME TypeOK, ReleasedWorldGone, Next
    PROVE  ReleasedWorldGone'
  <1> SUFFICES ASSUME released'
               PROVE  /\ ready' = {}
                      /\ feed' # "absent" => \E t \in Tasks : pc'[t] = "rebuildOps"
    BY DEF ReleasedWorldGone
  <1>1. CASE Release
    BY <1>1 DEF Release, ClearWorldReady, DropFeed
  <1>2. CASE released /\ ready = {} /\ (feed # "absent" => \E t \in Tasks : pc[t] = "rebuildOps")
    \* Nothing of the world changes, and no rebuild ends.
    <2>1. ASSUME UNCHANGED <<ready, feed>>,
                 \A t \in Tasks : pc[t] = "rebuildOps" => pc'[t] = "rebuildOps"
          PROVE  ready' = {} /\ (feed' # "absent" => \E t \in Tasks : pc'[t] = "rebuildOps")
      BY <1>2, <2>1
    <2>2. ASSUME NEW t \in Tasks, NEW stage, Suspend(t, stage), pc[t] # "rebuildOps", UNCHANGED <<ready, feed>>
          PROVE  ready' = {} /\ (feed' # "absent" => \E u \in Tasks : pc'[u] = "rebuildOps")
      BY <2>1, <2>2, OthersStay
    \* The feed of a released world is dropped where another one's is locked.
    <2>3. ASSUME NEW t \in Tasks, FailRegion(t) \/ FailWorld(t)
          PROVE  ready' = {} /\ feed' = "absent"
      BY <1>2, <2>3 DEF FailRegion, FailWorld, MarkLivemapUnavailable, DropFeed, ClearWorldReady
    <2>4. ASSUME NEW t \in Tasks, LoadRow(t) \/ LoadReceipts(t) \/ CommitConflict(t) \/ CommitReplay(t)
                                  \/ CommitWrite(t) \/ FanoutReleased(t) \/ RebuildRead(t) \/ RestoreRead(t)
                                  \/ InitializeTx(t)
          PROVE  ready' = {} /\ (feed' # "absent" => \E u \in Tasks : pc'[u] = "rebuildOps")
      <3>1. \E stage \in Stages : Suspend(t, stage)
        BY <2>4 DEF LoadRow, LoadReceipts, CommitConflict, CommitReplay, CommitWrite, FanoutReleased,
                    RebuildRead, RestoreRead, InitializeTx, Return, Stages
      <3>2. pc[t] # "rebuildOps" /\ UNCHANGED <<ready, feed>>
        BY <2>4 DEF LoadRow, LoadReceipts, CommitConflict, CommitReplay, CommitWrite, FanoutReleased,
                    RebuildRead, RestoreRead, InitializeTx, worker, livemap
      <3> QED BY <2>2, <3>1, <3>2
    <2>5. ASSUME NEW t \in Tasks, RebuildInit(t), ~FailWorld(t)
          PROVE  ready' = {} /\ \E u \in Tasks : pc'[u] = "rebuildOps"
      <3>1. Suspend(t, "rebuildOps") /\ ready' = ready
        BY <2>5 DEF RebuildInit, worker
      <3> QED BY <1>2, <3>1, OthersStay
    <2>6. ASSUME NEW t \in Tasks, RebuildDone(t) \/ RecoverDone(t) \/ RestoreInit(t) \/ RestoreDone(t)
          PROVE  FailRegion(t) \/ FailWorld(t)
      BY <1>2, <2>6 DEF RebuildDone, RecoverDone, RestoreInit, RestoreDone
    <2>7. ASSUME NEW t \in Tasks, InitializeFanout(t)
          PROVE  ready' = {} /\ feed' = "absent"
      BY <1>2, <2>7 DEF InitializeFanout, MarkLivemapUnavailable, DropFeed
    <2>8. ASSUME NEW t \in Tasks, NEW r \in Regions, Recover(t, r)
          PROVE  UNCHANGED <<ready, feed, pc>>
      BY <1>2, <2>8 DEF Recover, livemap
    <2>9. ASSUME NEW j \in Jobs, ForeignCommit(j)
          PROVE  UNCHANGED <<ready, feed, pc>>
      BY <2>9 DEF ForeignCommit, worker, livemap
    <2>10. CASE Expire
      BY <1>2, <2>10 DEF Expire, DropFeed, worker
    <2>11. \A t \in Tasks : ~FanoutConfirm(t) /\ ~FanoutDelta(t) /\ ~FanoutRebuild(t) /\ ~FanoutFails(t)
      BY <1>2 DEF FanoutConfirm, FanoutDelta, FanoutRebuild, FanoutFails
    <2>12. /\ ~Crash /\ ~Release
           /\ \A t \in Tasks, r \in Regions : ~Restore(t, r) /\ ~Initialize(t, r)
           /\ \A t \in Tasks, j \in Jobs : ~Call(t, j)
      BY <1>2 DEF Crash, Release, Restore, Initialize, Call
    <2>13. ASSUME NEW t \in Tasks, DatabaseFails(t), ~FailRegion(t), ~FailWorld(t)
           PROVE  ready' = {} /\ (feed' # "absent" => \E u \in Tasks : pc'[u] = "rebuildOps")
      <3>1. Suspend(t, "idle") /\ pc[t] # "rebuildOps" /\ UNCHANGED <<ready, feed>>
        BY <2>13 DEF DatabaseFails, Return, worker, livemap
      <3> QED BY <2>2, <3>1
    <2> QED BY <2>1, <2>3, <2>4, <2>5, <2>6, <2>7, <2>8, <2>9, <2>10, <2>11, <2>12, <2>13
            DEF Next, Work, Step
  <1>3. CASE ~released /\ ~Release
    <2>1. UNCHANGED released
      BY <1>3 DEF Next, Work, Step, Call, LoadRow, LoadReceipts, CommitConflict, CommitReplay, CommitWrite,
           FanoutReleased, FanoutConfirm, FanoutDelta, FanoutRebuild, FanoutFails, RebuildRead, RebuildInit,
           RebuildDone, RecoverDone, RestoreRead, RestoreInit, RestoreDone, InitializeTx,
           InitializeFanout, Recover, Restore, Initialize, ForeignCommit, Expire, Crash, DatabaseFails,
           FailRegion, FailWorld, worker
    <2> QED BY <1>3, <2>1
  <1> QED BY <1>1, <1>2, <1>3 DEF ReleasedWorldGone

\* Once an archived world is released no call makes a region of it ready again, and the
\* feed that a rebuild in flight brings back goes with that rebuild.
THEOREM ReleaseIsFinal == Spec => []ReleasedWorldGone
  <1>1. Init => ReleasedWorldGone
    BY DEF Init, ReleasedWorldGone
  <1>2. TypeOK /\ ReleasedWorldGone /\ [Next]_vars => ReleasedWorldGone'
    <2>1. ASSUME ReleasedWorldGone, UNCHANGED vars
          PROVE  ReleasedWorldGone'
      BY <2>1 DEF ReleasedWorldGone, vars
    <2> QED BY <2>1, ReleasedStep
  <1> QED BY <1>1, <1>2, WriterTypeCorrect, PTL DEF Spec

\* Only its own fan-out takes a call from there back to its caller, or the answer of its
\* commit is lost, or the process dies.
LEMMA FanoutEnds ==
    ASSUME TypeOK, Next, NEW t \in Tasks, pc[t] = "fanout", pc'[t] = "idle"
    PROVE  \/ FanoutReleased(t) \/ FanoutConfirm(t) \/ FanoutDelta(t) \/ FanoutFails(t)
           \/ DatabaseFails(t) \/ Crash
  <1>1. ASSUME NEW u \in Tasks, u # t, NEW stage, Suspend(u, stage)
        PROVE  FALSE
    BY <1>1, OthersStay
  <1>2. ASSUME NEW u \in Tasks, Step(u), u # t
        PROVE  \E stage \in Stages : Suspend(u, stage)
    BY <1>2 DEF Step, LoadRow, LoadReceipts, CommitConflict, CommitReplay, CommitWrite, FanoutReleased,
                FanoutConfirm, FanoutDelta, FanoutRebuild, FanoutFails, RebuildRead, RebuildInit, RebuildDone,
                RecoverDone, RestoreRead, RestoreInit, RestoreDone, InitializeTx, InitializeFanout,
                FailRegion, FailWorld, BeginRebuild, Return, Stages
  <1>3. CASE Step(t)
    <2>1. ~FanoutRebuild(t)
      BY OthersStay DEF FanoutRebuild, BeginRebuild
    <2>2. CommitConflict(t) \/ CommitReplay(t) \/ CommitWrite(t) => pc[t] = "commit"
      BY DEF CommitConflict, CommitReplay, CommitWrite
    <2> QED
      BY <1>3, <2>1, <2>2 DEF Step, LoadRow, LoadReceipts, RebuildRead, RebuildInit, RebuildDone, RecoverDone,
                RestoreRead, RestoreInit, RestoreDone, InitializeTx, InitializeFanout
  <1>4. ASSUME NEW u \in Tasks, NEW j \in Jobs, Call(u, j)
        PROVE  FALSE
    BY <1>4, OthersStay DEF Call
  <1>5. ASSUME NEW u \in Tasks, NEW r \in Regions, Recover(u, r) \/ Restore(u, r) \/ Initialize(u, r)
        PROVE  FALSE
    <2>1. pc[u] = "idle"
      BY <1>5 DEF Recover, Restore, Initialize
    <2>2. UNCHANGED pc \/ \E stage \in Stages : Suspend(u, stage)
      BY <1>5 DEF Recover, Restore, Initialize, BeginRebuild, Stages
    <2> QED BY <1>1, <2>1, <2>2
  <1>6. UNCHANGED pc => FALSE
    OBVIOUS
  <1>7. (\E j \in Jobs : ForeignCommit(j)) \/ Expire \/ Release => UNCHANGED pc
    BY DEF ForeignCommit, Expire, Release
  <1>8. ASSUME NEW u \in Tasks, DatabaseFails(u), u # t
        PROVE  FALSE
    BY <1>1, <1>8, DatabaseFailsEnds DEF Return
  <1> QED BY <1>1, <1>2, <1>3, <1>4, <1>5, <1>6, <1>7, <1>8 DEF Next, Work

\* A delta that goes out continues the frame on the feed by its own commit, whatever
\* rebuilds and foreign commits happened while the call was suspended.
THEOREM DeltasContinue == Spec => DeltaContinuesFrame
  <1> DEFINE Delta(t) ==
        (/\ pc[t] = "fanout" /\ pc'[t] = "idle"
         /\ shown[Region(t)] # NoHead
         /\ shown'[Region(t)] \notin {NoHead, shown[Region(t)]})
        => /\ shown'[Region(t)].rev = shown[Region(t)].rev + 1
           /\ Ancestor(shown[Region(t)], shown'[Region(t)])
  <1>1. WriterInv /\ Next => \A t \in Tasks : Delta(t)
    <2> SUFFICES ASSUME WriterInv, Next, NEW t \in Tasks, pc[t] = "fanout", pc'[t] = "idle",
                        shown[Region(t)] # NoHead,
                        shown'[Region(t)] \notin {NoHead, shown[Region(t)]}
                 PROVE  /\ shown'[Region(t)].rev = shown[Region(t)].rev + 1
                        /\ Ancestor(shown[Region(t)], shown'[Region(t)])
      OBVIOUS
    <2> DEFINE r == Region(t)
    <2>0. TypeOK /\ r \in Regions
      BY HeadTypes DEF WriterInv
    <2>1. CASE FanoutReleased(t) \/ FanoutConfirm(t)
      BY <2>1 DEF FanoutReleased, FanoutConfirm, livemap
    <2>2. CASE FanoutFails(t)
      BY <2>0, <2>2, FailTypes DEF FanoutFails
    <2>3. CASE Crash
      BY <2>0, <2>3 DEF Crash, DropFeed, NoHeads
    <2>4. CASE FanoutDelta(t)
      <3>1. shown'[r] = result[t] /\ result[t].rev = shown[r].rev + 1
        BY <2>0, <2>4 DEF FanoutDelta, FrameFits, TypeOK
      <3>2. head[r] \in Heads /\ shown[r] \in Heads /\ Ancestor(shown[r], head[r])
        BY <2>0, HeadTypes DEF WriterInv, FeedShowsCommitted
      <3>3. result[t] \in Heads /\ Ancestor(result[t], head[r])
        BY <2>0 DEF WriterInv, CallOK, TypeOK
      <3>4. shown[r].rev <= result[t].rev
        BY <3>1, <3>2, <3>3 DEF Heads
      <3> QED BY <3>1, <3>2, <3>3, <3>4, AncestorsOrdered
    <2>5. CASE DatabaseFails(t)
      BY <2>0, <2>5, DatabaseFailsEnds
    <2> QED BY <2>0, <2>1, <2>2, <2>3, <2>4, <2>5, FanoutEnds
  <1>2. WriterInv /\ [Next]_vars => [\A t \in Tasks : Delta(t)]_vars
    BY <1>1
  <1> QED BY <1>2, WriterInductive, PTL DEF Spec, DeltaContinuesFrame
=============================================================================
