------------------------- MODULE RegionalAdvanceProofs -------------------------
(***************************************************************************)
(* Proofs about RegionalAdvance, for any regions, deployment, orders, batch *)
(* limit and span.                                                          *)
(***************************************************************************)
EXTENDS RegionalAdvance, FiniteSetTheorems, SequenceTheorems, WellFoundedInduction,
        NaturalsInduction, TLAPS

-----------------------------------------------------------------------------
(* The inductive invariant. *)

Taken(r, c) == \E d \in done[r] : d.kind = c.kind /\ d.key = c.key

\* Command c took effect as d: at its time, or before it if it is a continuation.
Punctual(c, d) ==
    /\ d.kind = c.kind /\ d.key = c.key
    /\ IF c.kind = "queue" /\ c.at > Genesis THEN d.at < c.at ELSE d.at = c.at

TimeInv ==
    /\ clock \in Genesis .. MaxTime
    /\ now \in [RegionSet -> Genesis .. MaxTime]
    /\ DOMAIN done = RegionSet
    /\ pc \in {"idle", "region", "enqueue", "flush"}
    /\ pc # "idle" => target \in Genesis .. MaxTime
    /\ turn \in Nat \ {0}
    /\ pc \in {"enqueue", "flush"} => turn <= Len(Regions)
    /\ pc \in {"idle", "region"} => pending = <<>>

\* The plans have keys of their own and do not end before they start.
PlanInv ==
    /\ IsFiniteSet(plans)
    /\ \A p \in plans : /\ p.start \in Nat /\ p.end \in Nat
                        /\ Genesis <= p.start /\ p.start < p.end
                        /\ p.regions \subseteq RegionSet
    /\ \A p, q \in plans : p.key = q.key => p = q

\* An order in progress keeps beats and other orders away: its key is new and no head has
\* moved behind its start.
OrderInv ==
    /\ request \in Requests \cup {NoRequest}
    /\ request # NoRequest =>
         /\ pc = "idle"
         /\ start \in Nat /\ Genesis <= start /\ start < request.end
         /\ \A r \in request.regions : now[r] <= start
         /\ \A p \in plans : p.key # request.key

\* What a beat has not loaded is over in all its regions.
LoadedInv ==
    /\ loaded \subseteq plans
    /\ pc # "idle" => \A p \in plans \ loaded : \A r \in p.regions : p.end < now[r]

\* A command that must have taken effect in region r: its time is past, or the region has
\* come to it. Only a disruption may be ordered for the very time its regions stand at.
Overdue(r, c) ==
    \/ c.at < now[r]
    \/ c.at = now[r] /\ c.kind # "activate" /\ now[r] > Genesis

DoneInv(r) ==
    /\ \A d \in done[r] : \E c \in Scheduled(r, plans) : Punctual(c, d)
    /\ \A d, e \in done[r] : d.kind = e.kind /\ d.key = e.key => d = e
    /\ \A c \in Scheduled(r, plans) : Overdue(r, c) => Taken(r, c)

Boundaries == {Boundary(Region, ms) : ms \in Nat} \cup {Standing(Region)}

\* The batch of what is scheduled for the very time of the head.
StandingBatch ==
    /\ pc = "flush"
    /\ pending = <<Standing(Region)>>
    /\ cursor = now[Region]

\* The batch that leads on from the head: every scheduled time up to the cursor is a
\* boundary of it, and nothing is left to do at the head itself.
LeadingBatch ==
    /\ pc = "flush" => pending # <<>>
    /\ \A i \in DOMAIN pending : /\ pending[i] = Boundary(Region, pending[i].at)
                                 /\ pending[i].at \in now[Region] + 1 .. cursor
                                 /\ pending[i].at - now[Region] <= Span
    /\ \A i, k \in DOMAIN pending : i < k => pending[i].at < pending[k].at
    /\ cursor = IF pending = <<>> THEN now[Region] ELSE pending[Len(pending)].at
    /\ \A ms \in now[Region] + 1 .. cursor : Due(Region, ms) # {} => \E i \in DOMAIN pending : pending[i].at = ms
    /\ \A c \in Due(Region, now[Region]) : Taken(Region, c)

BatchInv ==
    pc \in {"enqueue", "flush"} =>
        /\ current = now[Region]
        /\ cursor \in now[Region] .. target
        /\ pending \in Seq(Boundaries)
        /\ StandingBatch \/ LeadingBatch

\* No batch has more commands than it may.
SizeInv == pc \in {"enqueue", "flush"} => BatchSize <= BatchLimit

AdvanceInv ==
    /\ TimeInv /\ PlanInv /\ OrderInv /\ LoadedInv /\ BatchInv
    /\ \A r \in RegionSet : DoneInv(r)

-----------------------------------------------------------------------------
(* Numbers. *)

\* A nonempty set of numbers has a least one.
LEMMA LeastFacts ==
    ASSUME NEW S \in SUBSET Nat, S # {}
    PROVE  Least(S) \in S /\ \A n \in S : Least(S) <= n
  <1> DEFINE R == OpToRel(<, Nat)
  <1>1. IsWellFoundedOn(R, Nat)
    BY NatLessThanWellFounded
  <1>2. \A m, n \in Nat : m < n => <<m, n>> \in R
    BY DEF OpToRel
  <1> HIDE DEF R
  <1>3. PICK m \in S : \A n \in S : ~ (<<n, m>> \in R)
    BY <1>1, WFMin
  <1>4. \A n \in S : ~ (n < m)
    BY <1>2, <1>3, Zenon
  <1>5. \A n \in S : m <= n
    BY <1>4, SMT
  <1> QED BY <1>5 DEF Least

\* A bounded nonempty set of numbers has a largest one.
LEMMA LargestFacts ==
    ASSUME NEW S \in SUBSET Nat, S # {}, NEW b \in Nat, \A n \in S : n <= b
    PROVE  Largest(S) \in S /\ \A n \in S : n <= Largest(S)
  <1> DEFINE D == {b - n : n \in S}
  <1>1. D \in SUBSET Nat /\ D # {}
    <2>1. \A n \in S : b - n \in Nat
      OBVIOUS
    <2> QED BY <2>1
  <1>2. Least(D) \in D /\ \A k \in D : Least(D) <= k
    BY <1>1, LeastFacts
  <1>3. PICK m \in S : Least(D) = b - m
    BY <1>2
  <1>4. ASSUME NEW n \in S PROVE n <= m
    <2>1. b - n \in D
      OBVIOUS
    <2>2. b - m <= b - n
      BY <1>2, <1>3, <2>1
    <2> QED BY <2>2
  <1> QED BY <1>4 DEF Largest

\* Within any span there is an absolute checkpoint.
LEMMA NextCheckpoint ==
    ASSUME NEW c \in Nat, NEW s \in Nat \ {0}
    PROVE  \E m \in c + 1 .. c + s : m % s = 0
  <1> DEFINE Q == {q \in Nat : s * q > c}
             q == Least(Q)
  <1>1. c + 1 \in Q
    <2>1. s * (c + 1) >= c + 1
      OBVIOUS
    <2> QED BY <2>1
  <1>2. q \in Q /\ \A k \in Q : q <= k
    <2>1. Q \in SUBSET Nat /\ Q # {}
      BY <1>1
    <2> QED BY <2>1, LeastFacts
  <1> HIDE DEF q
  <1>3. q \in Nat /\ s * q > c /\ q # 0
    BY <1>2
  <1>4. s * (q - 1) <= c
    <2>1. q - 1 \in Nat /\ ~(q <= q - 1)
      BY <1>3
    <2>2. q - 1 \notin Q
      BY <1>2, <2>1
    <2> QED BY <2>1, <2>2
  <1>5. s * q = s * (q - 1) + s
    BY <1>3
  <1>6. s * q \in c + 1 .. c + s
    BY <1>3, <1>4, <1>5
  <1>7. (s * q) % s = 0
    BY <1>3
  <1> QED BY <1>6, <1>7

-----------------------------------------------------------------------------
(* The size of a batch. *)

\* f is the function of the partial sums of z.
Sums(f, z, n) == f = [i \in 0 .. n |-> IF i = 0 THEN 0 ELSE f[i - 1] + z[i]]

\* There are partial sums ...
LEMMA SumsExist ==
    ASSUME NEW n \in Nat, NEW z \in [1 .. n -> Nat]
    PROVE  \E f : Sums(f, z, n)
  <1> DEFINE Bad == {k \in 0 .. n : ~ \E f : Sums(f, z, k)}
  <1>1. ASSUME Bad # {} PROVE FALSE
    <2> DEFINE k == Least(Bad)
    <2>1. k \in Bad /\ \A m \in Bad : k <= m
      <3>1. Bad \in SUBSET Nat
        OBVIOUS
      <3> QED BY <1>1, <3>1, LeastFacts
    <2> HIDE DEF k
    <2>2. Sums([i \in 0 .. 0 |-> 0], z, 0)
      BY DEF Sums
    <2>3. k \in 1 .. n
      BY <2>1, <2>2
    <2>4. k - 1 \in 0 .. n /\ k - 1 \notin Bad
      BY <2>1, <2>3
    <2>5. PICK f : Sums(f, z, k - 1)
      BY <2>4
    <2> DEFINE g == [i \in 0 .. k |-> IF i = k THEN f[k - 1] + z[k] ELSE f[i]]
    <2>6. ASSUME NEW i \in 0 .. k
          PROVE  g[i] = IF i = 0 THEN 0 ELSE g[i - 1] + z[i]
      <3>1. CASE i = k
        BY <2>3, <3>1
      <3>2. CASE i # k
        <4>1. i \in 0 .. k - 1 /\ (i # 0 => i - 1 \in 0 .. k - 1 /\ i - 1 # k)
          BY <2>3, <3>2
        <4>2. f[i] = IF i = 0 THEN 0 ELSE f[i - 1] + z[i]
          BY <2>5, <4>1 DEF Sums
        <4> QED BY <2>3, <3>2, <4>1, <4>2
      <3> QED BY <3>1, <3>2
    <2>7. g = [i \in 0 .. k |-> IF i = 0 THEN 0 ELSE g[i - 1] + z[i]]
      BY <2>6
    <2>8. Sums(g, z, k)
      BY <2>7 DEF Sums
    <2> QED BY <2>1, <2>8
  <1>2. n \in 0 .. n
    OBVIOUS
  <1> QED BY <1>1, <1>2, Zenon

\* ... and they are determined by what is summed up so far.
LEMMA SumsAgree ==
    ASSUME NEW n \in Nat, NEW m \in Nat, n <= m, NEW y, NEW z, NEW f, NEW g,
           \A i \in 1 .. n : y[i] = z[i], Sums(f, y, n), Sums(g, z, m)
    PROVE  \A i \in 0 .. n : f[i] = g[i]
  <1> DEFINE Bad == {k \in 0 .. n : f[k] # g[k]}
  <1>1. ASSUME Bad # {} PROVE FALSE
    <2> DEFINE k == Least(Bad)
    <2>1. k \in Bad /\ \A i \in Bad : k <= i
      <3>1. Bad \in SUBSET Nat
        OBVIOUS
      <3> QED BY <1>1, <3>1, LeastFacts
    <2> HIDE DEF k
    <2>2. /\ f[k] = IF k = 0 THEN 0 ELSE f[k - 1] + y[k]
          /\ g[k] = IF k = 0 THEN 0 ELSE g[k - 1] + z[k]
      BY <2>1 DEF Sums
    <2>3. k \in 1 .. n
      BY <2>1, <2>2
    <2>4. f[k - 1] = g[k - 1]
      <3>1. k - 1 \in 0 .. n /\ ~(k <= k - 1)
        BY <2>3
      <3> QED BY <2>1, <3>1
    <2> QED BY <2>1, <2>2, <2>3, <2>4
  <1> QED BY <1>1

\* Partial sums of numbers are numbers.
LEMMA SumsType ==
    ASSUME NEW n \in Nat, NEW z \in [1 .. n -> Nat], NEW f, Sums(f, z, n)
    PROVE  \A i \in 0 .. n : f[i] \in Nat
  <1> DEFINE Bad == {k \in 0 .. n : f[k] \notin Nat}
  <1>1. ASSUME Bad # {} PROVE FALSE
    <2> DEFINE k == Least(Bad)
    <2>1. k \in Bad /\ \A i \in Bad : k <= i
      <3>1. Bad \in SUBSET Nat
        OBVIOUS
      <3> QED BY <1>1, <3>1, LeastFacts
    <2> HIDE DEF k
    <2>2. f[k] = IF k = 0 THEN 0 ELSE f[k - 1] + z[k]
      BY <2>1 DEF Sums
    <2>3. k \in 1 .. n
      BY <2>1, <2>2
    <2>4. f[k - 1] \in Nat
      <3>1. k - 1 \in 0 .. n /\ ~(k <= k - 1)
        BY <2>3
      <3> QED BY <2>1, <3>1
    <2>5. z[k] \in Nat
      BY <2>3
    <2> QED BY <2>1, <2>2, <2>3, <2>4, <2>5
  <1> QED BY <1>1

SizesOf(s) == [i \in 1 .. Len(s) |-> Size(s[i])]
Sum(s) == (CHOOSE f : Sums(f, SizesOf(s), Len(s)))[Len(s)]

\* The recursive definition of BatchSize, for any sequence.
LEMMA SumIsRecursive ==
    ASSUME NEW S, NEW s \in Seq(S)
    PROVE  (LET sum[i \in 0 .. Len(s)] == IF i = 0 THEN 0 ELSE sum[i - 1] + Size(s[i])
            IN  sum[Len(s)]) = Sum(s)
  <1> DEFINE n == Len(s)
  <1>1. ASSUME NEW f
        PROVE  Sums(f, SizesOf(s), n)
                 <=> f = [i \in 0 .. n |-> IF i = 0 THEN 0 ELSE f[i - 1] + Size(s[i])]
    <2>1. [i \in 0 .. n |-> IF i = 0 THEN 0 ELSE f[i - 1] + SizesOf(s)[i]]
            = [i \in 0 .. n |-> IF i = 0 THEN 0 ELSE f[i - 1] + Size(s[i])]
      BY DEF SizesOf
    <2> QED BY <2>1 DEF Sums
  <1>2. (CHOOSE f : Sums(f, SizesOf(s), n))
          = (CHOOSE f : f = [i \in 0 .. n |-> IF i = 0 THEN 0 ELSE f[i - 1] + Size(s[i])])
    BY <1>1
  <1> QED BY <1>2 DEF Sum

\* BatchSize is the sum of the sizes of what is pending, before and after a step.
LEMMA BatchSizeIsSum ==
    ASSUME NEW S
    PROVE  /\ pending \in Seq(S) => BatchSize = Sum(pending)
           /\ pending' \in Seq(S) => BatchSize' = Sum(pending')
  <1>1. ASSUME pending \in Seq(S) PROVE BatchSize = Sum(pending)
    BY <1>1, SumIsRecursive DEF BatchSize
  <1>2. ASSUME pending' \in Seq(S) PROVE BatchSize' = Sum(pending')
    BY <1>2, SumIsRecursive DEF BatchSize
  <1> QED BY <1>1, <1>2

\* A boundary appended adds its size.
LEMMA SumFacts ==
    ASSUME NEW S, NEW s \in Seq(S), \A b \in S : Size(b) \in Nat
    PROVE  /\ Sum(s) \in Nat
           /\ \A b \in S : Sum(Append(s, b)) = Sum(s) + Size(b)
           /\ s = <<>> => Sum(s) = 0
  <1> DEFINE n == Len(s)
             z == SizesOf(s)
             f == CHOOSE g : Sums(g, z, n)
  <1>1. n \in Nat /\ z \in [1 .. n -> Nat]
    BY DEF SizesOf
  <1>2. Sums(f, z, n) /\ Sum(s) = f[n]
    BY <1>1, SumsExist DEF Sum
  <1> HIDE DEF f
  <1>3. Sum(s) \in Nat
    <2> HIDE DEF n, z
    <2>1. \A i \in 0 .. n : f[i] \in Nat
      BY <1>1, <1>2, SumsType
    <2> QED BY <1>1, <1>2, <2>1
  <1>4. ASSUME s = <<>> PROVE Sum(s) = 0
    <2>1. n = 0 /\ f[0] = 0
      BY <1>2, <1>4 DEF Sums
    <2> QED BY <1>2, <2>1
  <1>5. ASSUME NEW b \in S PROVE Sum(Append(s, b)) = Sum(s) + Size(b)
    <2> DEFINE t == Append(s, b)
               y == SizesOf(t)
               g == CHOOSE h : Sums(h, y, n + 1)
    <2>1. /\ t \in Seq(S) /\ Len(t) = n + 1 /\ t[n + 1] = b
          /\ \A i \in 1 .. n : t[i] = s[i]
      OBVIOUS
    <2> HIDE DEF t
    <2>2. y \in [1 .. n + 1 -> Nat] /\ y[n + 1] = Size(b) /\ \A i \in 1 .. n : z[i] = y[i]
      BY <1>1, <2>1 DEF SizesOf
    <2>3. Sums(g, y, n + 1) /\ Sum(t) = g[n + 1]
      <3>1. Sum(t) = g[n + 1]
        BY <2>1 DEF Sum
      <3> HIDE DEF y, n
      <3>2. n + 1 \in Nat
        BY <1>1
      <3>3. \E h : Sums(h, y, n + 1)
        BY <2>2, <3>2, SumsExist
      <3> QED BY <3>1, <3>3
    <2> HIDE DEF g, y, z, n
    <2>4. f[n] = g[n]
      BY <1>1, <1>2, <2>2, <2>3, SumsAgree
    <2>5. g[n + 1] = g[n] + y[n + 1]
      BY <1>1, <2>3 DEF Sums
    <2> QED BY <1>2, <2>2, <2>3, <2>4, <2>5 DEF t
  <1> QED BY <1>3, <1>4, <1>5

\* The sums of the empty batch and of a batch of one boundary.
LEMMA SumOne ==
    /\ Sum(<<>>) = 0
    /\ \A b : Size(b) \in Nat => Sum(<<b>>) = Size(b)
  <1>1. Sum(<<>>) = 0
    <2> DEFINE S == {}
    <2>1. <<>> \in Seq(S) /\ \A b \in S : Size(b) \in Nat
      OBVIOUS
    <2> HIDE DEF S
    <2> QED BY <2>1, SumFacts
  <1>2. ASSUME NEW b, Size(b) \in Nat PROVE Sum(<<b>>) = Size(b)
    <2> DEFINE S == {b}
    <2>1. <<>> \in Seq(S) /\ (\A x \in S : Size(x) \in Nat) /\ b \in S /\ <<b>> = Append(<<>>, b)
      BY <1>2
    <2> HIDE DEF S
    <2>2. Sum(Append(<<>>, b)) = Sum(<<>>) + Size(b)
      BY <2>1, SumFacts
    <2> QED BY <1>1, <1>2, <2>1, <2>2
  <1> QED BY <1>1, <1>2

-----------------------------------------------------------------------------
(* What is scheduled. *)

\* Where a scheduled command comes from.
LEMMA ScheduledFacts ==
    ASSUME NEW r, NEW ps, NEW c \in Scheduled(r, ps)
    PROVE  \/ \E p \in ps : r \in p.regions /\ c = [kind |-> "activate", key |-> p.key, at |-> p.start]
           \/ \E p \in ps : r \in p.regions /\ c = [kind |-> "clear", key |-> p.key, at |-> p.end]
           \/ \E b \in Base : b.region = r /\ c = [kind |-> b.kind, key |-> b.key, at |-> b.at]
  BY DEF Scheduled

\* More plans schedule more.
LEMMA ScheduledMonotone ==
    ASSUME NEW r, NEW ps, NEW qs, ps \subseteq qs
    PROVE  Scheduled(r, ps) \subseteq Scheduled(r, qs)
  BY DEF Scheduled

\* Times are numbers, not before the genesis ...
LEMMA ScheduledTimes ==
    ASSUME PlanInv, NEW r, NEW c \in Scheduled(r, plans)
    PROVE  c.at \in Nat /\ Genesis <= c.at
  <1> USE AdvanceAssumption
  <1>1. ASSUME NEW p \in plans
        PROVE  p.start \in Nat /\ p.end \in Nat /\ Genesis <= p.start /\ Genesis < p.end
    BY DEF PlanInv
  <1>2. \A b \in Base : b.at \in Nat /\ Genesis <= b.at /\ b.kind \in {"queue", "dispatch"}
    OBVIOUS
  <1> QED BY <1>1, <1>2, ScheduledFacts

\* ... and an id has one time.
LEMMA ScheduledUnique ==
    ASSUME PlanInv, NEW r, NEW c \in Scheduled(r, plans), NEW d \in Scheduled(r, plans),
           c.kind = d.kind, c.key = d.key
    PROVE  c = d
  <1>1. \A b \in Base : b.kind \notin {"activate", "clear"}
    BY AdvanceAssumption
  <1>2. \A p, q \in plans : p.key = q.key => p = q
    BY DEF PlanInv
  <1>3. \A a, b \in Base : a.region = b.region /\ a.kind = b.kind /\ a.key = b.key => a.at = b.at
    BY AdvanceAssumption
  <1>4. CASE c.kind = "activate"
    <2>1. PICK p \in plans : c = [kind |-> "activate", key |-> p.key, at |-> p.start]
      BY <1>1, <1>4, ScheduledFacts
    <2> d.kind = "activate"
      BY <1>4
    <2>2. PICK q \in plans : d = [kind |-> "activate", key |-> q.key, at |-> q.start]
      BY <1>1, ScheduledFacts
    <2> QED BY <1>2, <2>1, <2>2
  <1>5. CASE c.kind = "clear"
    <2>1. PICK p \in plans : c = [kind |-> "clear", key |-> p.key, at |-> p.end]
      BY <1>1, <1>5, ScheduledFacts
    <2> d.kind = "clear"
      BY <1>5
    <2>2. PICK q \in plans : d = [kind |-> "clear", key |-> q.key, at |-> q.end]
      BY <1>1, ScheduledFacts
    <2> QED BY <1>2, <2>1, <2>2
  <1>6. CASE c.kind \notin {"activate", "clear"}
    <2>1. PICK a \in Base : a.region = r /\ c = [kind |-> a.kind, key |-> a.key, at |-> a.at]
      BY <1>6, ScheduledFacts
    <2>2. PICK b \in Base : b.region = r /\ d = [kind |-> b.kind, key |-> b.key, at |-> b.at]
      BY <1>6, ScheduledFacts
    <2>3. a.at = b.at
      BY <1>3, <2>1, <2>2
    <2> QED BY <2>1, <2>2, <2>3
  <1> QED BY <1>4, <1>5, <1>6

\* Finitely many commands are due together.
LEMMA DueFinite ==
    ASSUME PlanInv, LoadedInv, NEW r, NEW ms
    PROVE  IsFiniteSet(Due(r, ms))
  <1> DEFINE act == [p \in loaded |-> [kind |-> "activate", key |-> p.key, at |-> p.start]]
             clr == [p \in loaded |-> [kind |-> "clear", key |-> p.key, at |-> p.end]]
             at  == {x \in Base : x.at = ms}
             dep == [b \in at |-> [kind |-> b.kind, key |-> b.key, at |-> b.at]]
             A == {act[p] : p \in loaded}
             B == {clr[p] : p \in loaded}
             C == {dep[b] : b \in at}
  <1>1. IsFiniteSet(loaded)
    BY FS_Subset DEF PlanInv, LoadedInv
  <1>2. IsFiniteSet(at)
    <2>1. CASE at = {}
      BY <2>1, FS_EmptySet
    <2>2. CASE at # {}
      <3>1. PICK b \in Base : b.at = ms
        BY <2>2
      <3> QED BY <3>1, AdvanceAssumption
    <2> QED BY <2>1, <2>2
  <1>3. act \in Surjection(loaded, A) /\ clr \in Surjection(loaded, B) /\ dep \in Surjection(at, C)
    <2> HIDE DEF at
    <2> QED BY DEF Surjection
  <1> HIDE DEF act, clr, dep, A, B, C, at
  <1>4. IsFiniteSet(A) /\ IsFiniteSet(B) /\ IsFiniteSet(C)
    BY <1>1, <1>2, <1>3, FS_Surjection
  <1>5. IsFiniteSet((A \cup B) \cup C)
    <2>1. IsFiniteSet(A \cup B)
      BY <1>4, FS_Union
    <2> QED BY <1>4, <2>1, FS_Union
  <1>6. Due(r, ms) \in SUBSET ((A \cup B) \cup C)
    <2> SUFFICES ASSUME NEW c \in Scheduled(r, loaded), c.at = ms
                 PROVE  c \in (A \cup B) \cup C
      BY DEF Due
    <2>1. CASE \E p \in loaded : c = [kind |-> "activate", key |-> p.key, at |-> p.start]
      BY <2>1 DEF A, act
    <2>2. CASE \E p \in loaded : c = [kind |-> "clear", key |-> p.key, at |-> p.end]
      BY <2>2 DEF B, clr
    <2>3. CASE \E b \in Base : c = [kind |-> b.kind, key |-> b.key, at |-> b.at]
      <3>1. PICK b \in Base : c = [kind |-> b.kind, key |-> b.key, at |-> b.at]
        BY <2>3
      <3>2. b \in at
        BY <3>1 DEF at
      <3> QED BY <3>1, <3>2 DEF C, dep
    <2> QED BY <2>1, <2>2, <2>3, ScheduledFacts
  <1> QED BY <1>5, <1>6, FS_Subset

\* The size of a boundary is a number, and only an empty standing one has size 0.
LEMMA SizeFacts ==
    ASSUME PlanInv, LoadedInv
    PROVE  /\ \A b \in Boundaries : Size(b) \in Nat
           /\ \A r \in RegionSet : Size(Standing(r)) \in Nat
           /\ \A r \in RegionSet : Size(Standing(r)) = 0 => Due(r, now[r]) = {}
           /\ \A r, ms : Size(Boundary(r, ms)) \in Nat
  <1>1. ASSUME NEW r, NEW ms
        PROVE  Size(Boundary(r, ms)) \in Nat
    <2> DEFINE Q == {c \in Due(r, ms) : c.kind = "queue"}
               R == {c \in Due(r, ms) : c.kind # "queue"}
    <2>1. IsFiniteSet(Q) /\ IsFiniteSet(R)
      BY DueFinite, FS_Subset
    <2>2. Cardinality(Q) \in Nat /\ Cardinality(R) \in Nat
      BY <2>1, FS_CardinalityType
    <2>3. Size(Boundary(r, ms)) = Cardinality(Q) + Cardinality(R) + 1
      BY DEF Size, Boundary
    <2> HIDE DEF Q, R
    <2> QED BY <2>2, <2>3
  <1>2. ASSUME NEW r
        PROVE  Size(Standing(r)) \in Nat /\ (Size(Standing(r)) = 0 => Due(r, now[r]) = {})
    <2>1. Size(Standing(r)) = Cardinality({}) + Cardinality(Due(r, now[r])) + 0
      BY DEF Size, Standing
    <2>2. IsFiniteSet(Due(r, now[r])) /\ Cardinality(Due(r, now[r])) \in Nat
      BY DueFinite, FS_CardinalityType
    <2>3. Cardinality({}) = 0 /\ (Cardinality(Due(r, now[r])) = 0 => Due(r, now[r]) = {})
      BY <2>2, FS_EmptySet
    <2> QED BY <2>1, <2>2, <2>3
  <1> QED BY <1>1, <1>2 DEF Boundaries

\* What a beat has not loaded lies behind the head.
LEMMA LoadedCovers ==
    ASSUME TimeInv, PlanInv, LoadedInv, pc # "idle", NEW r \in RegionSet,
           NEW c \in Scheduled(r, plans), c.at >= now[r]
    PROVE  c \in Due(r, c.at)
  <1>1. now[r] \in Nat
    BY AdvanceAssumption DEF TimeInv
  <1>2. ASSUME NEW p \in plans, r \in p.regions, c.at \in {p.start, p.end}
        PROVE  p \in loaded
    BY <1>1, <1>2 DEF PlanInv, LoadedInv
  <1>3. c \in Scheduled(r, loaded)
    <2>1. ASSUME NEW p \in plans, r \in p.regions, c = [kind |-> "activate", key |-> p.key, at |-> p.start]
          PROVE  c \in Scheduled(r, loaded)
      <3>1. p \in loaded
        BY <1>2, <2>1
      <3> QED BY <2>1, <3>1 DEF Scheduled
    <2>2. ASSUME NEW p \in plans, r \in p.regions, c = [kind |-> "clear", key |-> p.key, at |-> p.end]
          PROVE  c \in Scheduled(r, loaded)
      <3>1. p \in loaded
        BY <1>2, <2>2
      <3> QED BY <2>2, <3>1 DEF Scheduled
    <2>3. ASSUME NEW b \in Base, b.region = r, c = [kind |-> b.kind, key |-> b.key, at |-> b.at]
          PROVE  c \in Scheduled(r, loaded)
      BY <2>3 DEF Scheduled
    <2> QED BY <2>1, <2>2, <2>3, ScheduledFacts
  <1> QED BY <1>3 DEF Due

-----------------------------------------------------------------------------
(* The batch. *)

\* The region in turn is a registered one.
LEMMA RegionType ==
    ASSUME turn \in Nat \ {0}, turn <= Len(Regions)
    PROVE  Region \in RegionSet
  <1>1. turn \in DOMAIN Regions
    BY AdvanceAssumption
  <1> QED BY <1>1 DEF Region, RegionSet

\* The simulation time in front of the i-th boundary.
Before(i) == IF i = 1 THEN now[Region] ELSE pending[i - 1].at

\* A boundary holds exactly what is due at its time, and its continuations come before it.
LEMMA PendingFacts ==
    ASSUME TimeInv, BatchInv, pc \in {"enqueue", "flush"}, NEW i \in DOMAIN pending
    PROVE  /\ Region \in RegionSet
           /\ pending[i].queue \cup pending[i].rest = Due(Region, pending[i].at)
           /\ pending[i].at \in now[Region] .. cursor
           /\ \/ /\ pending[i].advance
                 /\ pending[i].queue = {c \in Due(Region, pending[i].at) : c.kind = "queue"}
                 /\ pending[i].rest = {c \in Due(Region, pending[i].at) : c.kind # "queue"}
                 /\ pending[i].at > now[Region]
                 /\ Before(i) < pending[i].at
              \/ /\ pending[i].advance = FALSE
                 /\ pending[i].queue = {}
                 /\ pending[i].at = now[Region]
  <1>1. Region \in RegionSet /\ now[Region] \in Nat
    <2>1. Region \in RegionSet
      BY RegionType DEF TimeInv
    <2> QED BY <2>1, AdvanceAssumption DEF TimeInv
  <1>2. cursor \in Nat /\ now[Region] <= cursor
    BY <1>1, AdvanceAssumption DEF BatchInv, TimeInv
  <1>3. CASE StandingBatch
    <2>1. i = 1 /\ pending[i] = Standing(Region)
      BY <1>3 DEF StandingBatch
    <2> QED BY <1>1, <1>2, <2>1 DEF Standing
  <1>4. CASE LeadingBatch
    <2>1. /\ pending[i] = Boundary(Region, pending[i].at)
          /\ pending[i].at \in now[Region] + 1 .. cursor
      BY <1>4 DEF LeadingBatch
    <2>2. Before(i) < pending[i].at
      <3>1. CASE i = 1
        BY <1>1, <1>2, <2>1, <3>1 DEF Before
      <3>2. CASE i # 1
        <4>1. i - 1 \in DOMAIN pending /\ i - 1 < i
          BY <3>2 DEF BatchInv
        <4> QED BY <1>4, <3>2, <4>1 DEF Before, LeadingBatch
      <3> QED BY <3>1, <3>2
    <2> DEFINE ms == pending[i].at
    <2>3. /\ pending[i].advance
          /\ pending[i].queue = {c \in Due(Region, ms) : c.kind = "queue"}
          /\ pending[i].rest = {c \in Due(Region, ms) : c.kind # "queue"}
      BY <2>1 DEF Boundary
    <2> QED BY <1>1, <1>2, <2>1, <2>2, <2>3
  <1> QED BY <1>3, <1>4 DEF BatchInv

\* The times of the boundaries are different.
LEMMA PendingIncreases ==
    ASSUME TimeInv, BatchInv, pc \in {"enqueue", "flush"},
           NEW i \in DOMAIN pending, NEW k \in DOMAIN pending, pending[i].at = pending[k].at
    PROVE  i = k
  <1>1. i \in Nat /\ k \in Nat
    BY DEF BatchInv
  <1>2. CASE StandingBatch
    BY <1>2 DEF StandingBatch
  <1>3. CASE LeadingBatch
    <2>1. pending[i].at \in Nat /\ pending[k].at \in Nat
      <3>1. Region \in RegionSet
        BY RegionType DEF TimeInv
      <3>2. now[Region] \in Nat /\ cursor \in Nat
        BY <3>1, AdvanceAssumption DEF TimeInv, BatchInv
      <3> QED BY <1>3, <3>2 DEF LeadingBatch
    <2> QED BY <1>1, <1>3, <2>1 DEF LeadingBatch
  <1> QED BY <1>2, <1>3 DEF BatchInv

\* Every effect of the batch comes from a command that is due at one of its boundaries ...
LEMMA EffectSource ==
    ASSUME TimeInv, BatchInv, pc \in {"enqueue", "flush"}, NEW e \in Effects
    PROVE  \E i \in DOMAIN pending : \E c \in Due(Region, pending[i].at) :
             e = [kind |-> c.kind, key |-> c.key,
                  at |-> IF pending[i].advance /\ c.kind = "queue" THEN Before(i) ELSE pending[i].at]
  <1>1. PICK i \in DOMAIN pending :
          \/ \E c \in pending[i].queue : e = [kind |-> c.kind, key |-> c.key, at |-> Before(i)]
          \/ \E c \in pending[i].rest : e = [kind |-> c.kind, key |-> c.key, at |-> pending[i].at]
    BY DEF Effects, Before
  <1>2. CASE \E c \in pending[i].queue : e = [kind |-> c.kind, key |-> c.key, at |-> Before(i)]
    <2>1. PICK c \in pending[i].queue : e = [kind |-> c.kind, key |-> c.key, at |-> Before(i)]
      BY <1>2
    <2>2. c \in Due(Region, pending[i].at) /\ pending[i].advance /\ c.kind = "queue"
      BY PendingFacts
    <2> QED BY <2>1, <2>2
  <1>3. CASE \E c \in pending[i].rest : e = [kind |-> c.kind, key |-> c.key, at |-> pending[i].at]
    <2>1. PICK c \in pending[i].rest : e = [kind |-> c.kind, key |-> c.key, at |-> pending[i].at]
      BY <1>3
    <2>2. c \in Due(Region, pending[i].at) /\ ~(pending[i].advance /\ c.kind = "queue")
      BY PendingFacts
    <2> QED BY <2>1, <2>2
  <1> QED BY <1>1, <1>2, <1>3

\* ... and every command that is due at one of its boundaries has an effect.
LEMMA EffectCovers ==
    ASSUME TimeInv, BatchInv, pc \in {"enqueue", "flush"},
           NEW i \in DOMAIN pending, NEW c \in Due(Region, pending[i].at)
    PROVE  \E e \in Effects : e.kind = c.kind /\ e.key = c.key
  <1> DEFINE Part(k) ==
               {[kind |-> x.kind, key |-> x.key,
                 at |-> IF k = 1 THEN now[Region] ELSE pending[k - 1].at] : x \in pending[k].queue}
                 \cup {[kind |-> x.kind, key |-> x.key, at |-> pending[k].at] : x \in pending[k].rest}
  <1>0. Part(i) \subseteq Effects
    <2>1. Effects = UNION {Part(k) : k \in DOMAIN pending}
      BY DEF Effects
    <2> HIDE DEF Part
    <2> QED BY <2>1, Zenon
  <1>1. c \in pending[i].queue \/ c \in pending[i].rest
    BY PendingFacts
  <1>2. CASE c \in pending[i].queue
    <2>1. [kind |-> c.kind, key |-> c.key, at |-> Before(i)] \in Effects
      BY <1>0, <1>2 DEF Before
    <2> QED BY <2>1
  <1>3. CASE c \in pending[i].rest
    <2>1. [kind |-> c.kind, key |-> c.key, at |-> pending[i].at] \in Effects
      BY <1>0, <1>3
    <2> QED BY <2>1
  <1> QED BY <1>1, <1>2, <1>3

\* A command is not in a batch twice.
LEMMA EffectUnique ==
    ASSUME TimeInv, PlanInv, LoadedInv, BatchInv, pc \in {"enqueue", "flush"},
           NEW e \in Effects, NEW f \in Effects, e.kind = f.kind, e.key = f.key
    PROVE  e = f
  <1>1. PICK i \in DOMAIN pending : \E c \in Due(Region, pending[i].at) :
             e = [kind |-> c.kind, key |-> c.key,
                  at |-> IF pending[i].advance /\ c.kind = "queue" THEN Before(i) ELSE pending[i].at]
    BY EffectSource
  <1>2. PICK k \in DOMAIN pending : \E c \in Due(Region, pending[k].at) :
             f = [kind |-> c.kind, key |-> c.key,
                  at |-> IF pending[k].advance /\ c.kind = "queue" THEN Before(k) ELSE pending[k].at]
    BY EffectSource
  <1>3. PICK c \in Due(Region, pending[i].at) :
             e = [kind |-> c.kind, key |-> c.key,
                  at |-> IF pending[i].advance /\ c.kind = "queue" THEN Before(i) ELSE pending[i].at]
    BY <1>1
  <1>4. PICK d \in Due(Region, pending[k].at) :
             f = [kind |-> d.kind, key |-> d.key,
                  at |-> IF pending[k].advance /\ d.kind = "queue" THEN Before(k) ELSE pending[k].at]
    BY <1>2
  <1>5. /\ c \in Scheduled(Region, plans) /\ c.at = pending[i].at
        /\ d \in Scheduled(Region, plans) /\ d.at = pending[k].at
    BY ScheduledMonotone DEF Due, LoadedInv
  <1>6. c.kind = d.kind /\ c.key = d.key
    BY <1>3, <1>4
  <1>7. c = d
    BY <1>5, <1>6, ScheduledUnique
  <1>8. i = k
    BY <1>5, <1>7, PendingIncreases
  <1> QED BY <1>3, <1>4, <1>7, <1>8

\* What takes effect now does so at its time.
LEMMA EffectPunctual ==
    ASSUME AdvanceInv, pc \in {"enqueue", "flush"}, NEW e \in Effects, Fresh(e)
    PROVE  \E c \in Scheduled(Region, plans) : Punctual(c, e)
  <1> USE DEF AdvanceInv
  <1>1. PICK i \in DOMAIN pending : \E c \in Due(Region, pending[i].at) :
             e = [kind |-> c.kind, key |-> c.key,
                  at |-> IF pending[i].advance /\ c.kind = "queue" THEN Before(i) ELSE pending[i].at]
    BY EffectSource
  <1>2. PICK c \in Due(Region, pending[i].at) :
             e = [kind |-> c.kind, key |-> c.key,
                  at |-> IF pending[i].advance /\ c.kind = "queue" THEN Before(i) ELSE pending[i].at]
    BY <1>1
  <1>3. c \in Scheduled(Region, plans) /\ c.at = pending[i].at
    BY ScheduledMonotone DEF Due, LoadedInv
  <1>4. e.kind = c.kind /\ e.key = c.key
    BY <1>2
  <1>5. /\ Region \in RegionSet
        /\ \/ pending[i].advance /\ pending[i].at > now[Region] /\ Before(i) < pending[i].at
           \/ pending[i].advance = FALSE /\ pending[i].at = now[Region]
    BY PendingFacts
  <1>6. now[Region] \in Nat /\ Genesis <= now[Region] /\ c.at \in Nat /\ Genesis \in Nat
    BY <1>3, <1>5, ScheduledTimes, AdvanceAssumption DEF TimeInv
  <1>7. CASE pending[i].advance /\ c.kind = "queue"
    <2>1. e.at = Before(i)
      BY <1>2, <1>7
    <2>2. Before(i) < c.at /\ c.at > Genesis
      BY <1>3, <1>5, <1>6, <1>7
    <2>3. Punctual(c, e)
      BY <1>4, <1>7, <2>1, <2>2 DEF Punctual
    <2> QED BY <1>3, <2>3
  <1>8. CASE ~(pending[i].advance /\ c.kind = "queue")
    <2>1. e.at = c.at
      BY <1>2, <1>3, <1>8
    <2>2. ~(c.kind = "queue" /\ c.at > Genesis)
      <3> SUFFICES ASSUME c.kind = "queue", c.at > Genesis PROVE FALSE
        OBVIOUS
      <3>1. c.at = now[Region]
        BY <1>3, <1>5, <1>8
      <3>2. Overdue(Region, c)
        BY <3>1 DEF Overdue
      <3>3. Taken(Region, c)
        BY <1>3, <1>5, <3>2 DEF DoneInv
      <3> QED BY <1>4, <3>3 DEF Taken, Fresh
    <2>3. Punctual(c, e)
      BY <1>4, <2>1, <2>2 DEF Punctual
    <2> QED BY <1>3, <2>3
  <1> QED BY <1>7, <1>8

\* Where a batch ends.
LEMMA ReachedFacts ==
    ASSUME TimeInv, BatchInv, pc = "flush"
    PROVE  /\ Region \in RegionSet
           /\ Reached = cursor
           /\ Reached \in now[Region] .. target
           /\ Reached \in Genesis .. MaxTime
  <1>1. Region \in RegionSet /\ now[Region] \in Genesis .. MaxTime
    <2>1. Region \in RegionSet
      BY RegionType DEF TimeInv
    <2> QED BY <2>1 DEF TimeInv
  <1>2. CASE StandingBatch
    <2>1. pending[Len(pending)] = Standing(Region)
      BY <1>2 DEF StandingBatch
    <2>2. Reached = now[Region]
      BY <2>1 DEF Reached, Standing
    <2> QED BY <1>1, <1>2, <2>2, AdvanceAssumption DEF BatchInv, StandingBatch, TimeInv
  <1>3. CASE LeadingBatch
    <2>1. pending # <<>> /\ Len(pending) \in DOMAIN pending
      BY <1>3 DEF LeadingBatch, BatchInv
    <2>2. pending[Len(pending)] = Boundary(Region, pending[Len(pending)].at)
      BY <1>3, <2>1 DEF LeadingBatch
    <2>3. Reached = pending[Len(pending)].at
      BY <2>2 DEF Reached, Boundary
    <2>4. Reached = cursor
      BY <1>3, <2>1, <2>3 DEF LeadingBatch
    <2> QED BY <1>1, <2>4, AdvanceAssumption DEF BatchInv, TimeInv
  <1> QED BY <1>2, <1>3 DEF BatchInv

\* A commit leaves nothing behind: what is scheduled up to where it ends has taken effect.
LEMMA CommitCovers ==
    ASSUME AdvanceInv, pc = "flush", CommitBatch, NEW c \in Scheduled(Region, plans), c.at <= Reached
    PROVE  \E d \in done'[Region] : d.kind = c.kind /\ d.key = c.key
  <1> USE DEF AdvanceInv
  <1>1. Region \in RegionSet /\ Reached = cursor /\ Reached \in now[Region] .. target
    BY ReachedFacts
  <1>2. done'[Region] = done[Region] \cup {e \in Effects : Fresh(e)}
    <2>1. done' = [done EXCEPT ![Region] = @ \cup {e \in Effects : Fresh(e)}]
      BY DEF CommitBatch
    <2>2. Region \in DOMAIN done
      BY <1>1 DEF TimeInv
    <2> QED BY <2>1, <2>2
  <1>3. now[Region] \in Nat /\ c.at \in Nat /\ cursor \in Nat
    BY <1>1, ScheduledTimes, AdvanceAssumption DEF TimeInv
  <1>4. ASSUME Taken(Region, c)
        PROVE  \E d \in done'[Region] : d.kind = c.kind /\ d.key = c.key
    BY <1>2, <1>4 DEF Taken
  <1>5. ASSUME NEW i \in DOMAIN pending, c \in Due(Region, pending[i].at)
        PROVE  \E d \in done'[Region] : d.kind = c.kind /\ d.key = c.key
    <2>1. PICK e \in Effects : e.kind = c.kind /\ e.key = c.key
      BY <1>5, EffectCovers
    <2>2. CASE Fresh(e)
      BY <1>2, <2>1, <2>2
    <2>3. CASE ~Fresh(e)
      <3>1. Taken(Region, c)
        BY <2>1, <2>3 DEF Fresh, Taken
      <3> QED BY <1>4, <3>1
    <2> QED BY <2>2, <2>3
  <1>6. CASE c.at < now[Region]
    <2>1. Taken(Region, c)
      BY <1>1, <1>6 DEF DoneInv, Overdue
    <2> QED BY <1>4, <2>1
  <1>7. CASE c.at >= now[Region]
    <2>1. c \in Due(Region, c.at)
      BY <1>1, <1>7, LoadedCovers
    <2>2. CASE StandingBatch
      <3>1. c.at = now[Region] /\ pending = <<Standing(Region)>>
        BY <1>1, <1>3, <1>7, <2>2 DEF StandingBatch
      <3>2. 1 \in DOMAIN pending /\ pending[1].at = now[Region]
        BY <3>1 DEF Standing
      <3> QED BY <1>5, <2>1, <3>1, <3>2
    <2>3. CASE LeadingBatch
      <3>1. CASE c.at = now[Region]
        <4>1. Taken(Region, c)
          BY <2>1, <2>3, <3>1 DEF LeadingBatch
        <4> QED BY <1>4, <4>1
      <3>2. CASE c.at # now[Region]
        <4>1. c.at \in now[Region] + 1 .. cursor
          BY <1>1, <1>3, <1>7, <3>2
        <4>2. PICK i \in DOMAIN pending : pending[i].at = c.at
          BY <2>1, <2>3, <4>1 DEF LeadingBatch
        <4> QED BY <1>5, <2>1, <4>2
      <3> QED BY <3>1, <3>2
    <2> QED BY <2>2, <2>3 DEF BatchInv
  <1> QED BY <1>3, <1>6, <1>7

\* A commit keeps the promise of every region.
LEMMA CommitDone ==
    ASSUME AdvanceInv, pc = "flush", CommitBatch, UNCHANGED plans, NEW r \in RegionSet
    PROVE  DoneInv(r)'
  <1> USE DEF AdvanceInv
  <1>1. Region \in RegionSet /\ Reached = cursor /\ Reached \in now[Region] .. target
    BY ReachedFacts
  <1>2. Scheduled(r, plans)' = Scheduled(r, plans)
    BY DEF Scheduled
  <1>3. DoneInv(r)
    OBVIOUS
  <1>4. CASE r # Region
    <2>1. done'[r] = done[r] /\ now'[r] = now[r]
      <3>1. done' = [done EXCEPT ![Region] = @ \cup {e \in Effects : Fresh(e)}]
            /\ now' = [now EXCEPT ![Region] = Reached]
        BY DEF CommitBatch
      <3>2. r \in DOMAIN done /\ r \in DOMAIN now
        BY DEF TimeInv
      <3> QED BY <1>4, <3>1, <3>2
    <2> QED BY <1>2, <1>3, <2>1 DEF DoneInv, Overdue, Taken
  <1>5. CASE r = Region
    <2>1. done'[r] = done[r] \cup {e \in Effects : Fresh(e)} /\ now'[r] = Reached
      <3>1. done' = [done EXCEPT ![Region] = @ \cup {e \in Effects : Fresh(e)}]
            /\ now' = [now EXCEPT ![Region] = Reached]
        BY DEF CommitBatch
      <3>2. r \in DOMAIN done /\ r \in DOMAIN now
        BY DEF TimeInv
      <3> QED BY <1>5, <3>1, <3>2
    <2>2. ASSUME NEW d \in done'[r] PROVE \E c \in Scheduled(r, plans) : Punctual(c, d)
      <3>1. CASE d \in done[r]
        BY <1>3, <3>1 DEF DoneInv
      <3>2. CASE d \in Effects /\ Fresh(d)
        BY <1>5, <3>2, EffectPunctual
      <3> QED BY <2>1, <3>1, <3>2
    <2>3. ASSUME NEW d \in done'[r], NEW e \in done'[r], d.kind = e.kind, d.key = e.key
          PROVE  d = e
      <3>1. CASE d \in done[r] /\ e \in done[r]
        BY <1>3, <2>3, <3>1 DEF DoneInv
      <3>2. CASE d \in Effects /\ e \in Effects
        BY <2>3, <3>2, EffectUnique
      <3>3. CASE d \in done[r] /\ Fresh(e)
        BY <1>5, <2>3, <3>3 DEF Fresh
      <3>4. CASE e \in done[r] /\ Fresh(d)
        BY <1>5, <2>3, <3>4 DEF Fresh
      <3> QED BY <2>1, <3>1, <3>2, <3>3, <3>4
    <2>4. ASSUME NEW c \in Scheduled(r, plans), Overdue(r, c)'
          PROVE  \E d \in done'[r] : d.kind = c.kind /\ d.key = c.key
      <3>1. c.at <= Reached
        <4>1. c.at \in Nat /\ Reached \in Nat
          BY <1>1, ScheduledTimes, AdvanceAssumption, ReachedFacts
        <4> QED BY <2>1, <2>4, <4>1 DEF Overdue
      <3> QED BY <1>5, <3>1, CommitCovers
    <2> QED BY <1>2, <2>2, <2>3, <2>4 DEF DoneInv, Taken, Punctual
  <1> QED BY <1>4, <1>5

-----------------------------------------------------------------------------
(* The steps. *)

\* The promise of a region speaks of heads, effects and plans only.
LEMMA DoneFrame ==
    ASSUME NEW r, DoneInv(r), UNCHANGED <<now, done, plans>>
    PROVE  DoneInv(r)'
  <1>1. Scheduled(r, plans)' = Scheduled(r, plans)
    BY DEF Scheduled
  <1> QED BY <1>1 DEF DoneInv, Overdue, Taken, Punctual

\* A step of the beat that leaves the database alone or commits the batch.
LEMMA BeatKeeps ==
    ASSUME AdvanceInv, pc # "idle", UNCHANGED <<clock, plans, loaded, order>>,
           UNCHANGED <<now, done>> \/ (pc = "flush" /\ CommitBatch)
    PROVE  /\ clock' \in Genesis .. MaxTime
           /\ now' \in [RegionSet -> Genesis .. MaxTime]
           /\ DOMAIN done' = RegionSet
           /\ PlanInv' /\ OrderInv' /\ LoadedInv'
           /\ \A r \in RegionSet : DoneInv(r)'
  <1> USE DEF AdvanceInv
  <1>1. clock' \in Genesis .. MaxTime
    BY DEF TimeInv
  <1>2. PlanInv'
    BY DEF PlanInv
  <1>3. OrderInv'
    BY DEF OrderInv, order
  <1>4. now \in [RegionSet -> Nat] /\ \A p \in plans : p.end \in Nat /\ p.regions \subseteq RegionSet
    BY AdvanceAssumption DEF TimeInv, PlanInv
  <1>5. CASE UNCHANGED <<now, done>>
    <2>1. now' \in [RegionSet -> Genesis .. MaxTime] /\ DOMAIN done' = RegionSet
      BY <1>5 DEF TimeInv
    <2>2. LoadedInv'
      BY <1>5 DEF LoadedInv
    <2>3. \A r \in RegionSet : DoneInv(r)'
      BY <1>5, DoneFrame
    <2> QED BY <1>1, <1>2, <1>3, <2>1, <2>2, <2>3
  <1>6. CASE pc = "flush" /\ CommitBatch
    <2>1. Region \in RegionSet /\ Reached \in Genesis .. MaxTime /\ Reached >= now[Region]
      BY <1>4, <1>6, ReachedFacts, AdvanceAssumption DEF TimeInv
    <2>2. now' \in [RegionSet -> Genesis .. MaxTime] /\ DOMAIN done' = RegionSet
      BY <1>6, <2>1 DEF CommitBatch, TimeInv
    <2>3. \A r \in RegionSet : now'[r] >= now[r]
      BY <1>4, <1>6, <2>1 DEF CommitBatch
    <2>4. LoadedInv'
      <3>1. now' \in [RegionSet -> Nat]
        BY <2>2, AdvanceAssumption
      <3> SUFFICES ASSUME NEW p \in plans \ loaded, NEW r \in p.regions PROVE p.end < now'[r]
        BY DEF LoadedInv
      <3>2. p.end < now[r] /\ r \in RegionSet
        BY <1>4 DEF LoadedInv
      <3>3. now[r] \in Nat /\ now'[r] \in Nat /\ p.end \in Nat
        BY <1>4, <3>1, <3>2
      <3> QED BY <2>3, <3>2, <3>3
    <2>5. \A r \in RegionSet : DoneInv(r)'
      BY <1>6, CommitDone
    <2> QED BY <1>1, <1>2, <1>3, <2>2, <2>4, <2>5
  <1> QED BY <1>5, <1>6

\* The region is left: by its end, its failure or a refusal.
LEMMA NextRegionStep ==
    ASSUME AdvanceInv, pc # "idle", UNCHANGED <<clock, plans, loaded, order>>, NextRegion,
           UNCHANGED <<now, done>> \/ (pc = "flush" /\ CommitBatch)
    PROVE  AdvanceInv' /\ SizeInv'
  <1>1. TimeInv'
    <2>1. target' \in Genesis .. MaxTime /\ turn' \in Nat \ {0}
      BY DEF AdvanceInv, TimeInv, NextRegion
    <2> QED BY <2>1, BeatKeeps DEF TimeInv, NextRegion
  <1>2. BatchInv' /\ SizeInv'
    BY DEF BatchInv, SizeInv, NextRegion
  <1> QED BY <1>1, <1>2, BeatKeeps DEF AdvanceInv

\* Nothing but the clock or the fault model changes.
LEMMA FrameStep ==
    ASSUME AdvanceInv, SizeInv, clock' \in Genesis .. MaxTime,
           UNCHANGED <<database, loaded, request, start, pc, locals>>
    PROVE  AdvanceInv' /\ SizeInv'
  <1> USE DEF database, locals
  <1>1. TimeInv' /\ PlanInv' /\ OrderInv' /\ LoadedInv'
    BY DEF AdvanceInv, TimeInv, PlanInv, OrderInv, LoadedInv
  <1>2. \A r \in RegionSet : DoneInv(r)'
    BY DoneFrame DEF AdvanceInv
  <1>3. Region' = Region /\ Boundaries' = Boundaries
    BY DEF Region, Boundaries, Boundary, Standing, Due, Scheduled
  <1>4. \A ms : Due(Region, ms)' = Due(Region, ms)
    BY <1>3 DEF Due, Scheduled
  <1>5. BatchInv'
    <2>1. StandingBatch => StandingBatch'
      BY <1>3 DEF StandingBatch, Standing, Due, Scheduled
    <2>2. LeadingBatch => LeadingBatch'
      BY <1>3, <1>4 DEF LeadingBatch, Boundary, Due, Scheduled, Taken
    <2> QED BY <1>3, <2>1, <2>2 DEF AdvanceInv, BatchInv
  <1>6. SizeInv'
    BY DEF SizeInv, BatchSize
  <1> QED BY <1>1, <1>2, <1>5, <1>6 DEF AdvanceInv

\* A beat starts: what refresh leaves out is over everywhere.
LEMMA StartCycleStep ==
    ASSUME AdvanceInv, StartCycle
    PROVE  AdvanceInv' /\ SizeInv'
  <1> USE DEF StartCycle, Exclusive, database, order
  <1>1. TimeInv'
    BY DEF AdvanceInv, TimeInv
  <1>2. PlanInv'
    BY DEF AdvanceInv, PlanInv
  <1>3. OrderInv'
    BY DEF AdvanceInv, OrderInv
  <1>4. LoadedInv'
    <2>1. loaded' \subseteq plans'
      OBVIOUS
    <2>2. ASSUME NEW p \in plans \ loaded', NEW r \in p.regions PROVE p.end < now[r]
      <3>1. r \in RegionSet /\ p.end \in Nat
        BY DEF AdvanceInv, PlanInv
      <3>2. now[r] \in Nat /\ r \in Peers(r)
        BY <3>1, AdvanceAssumption DEF AdvanceInv, TimeInv, Peers
      <3>3. ~(p.end >= now[r])
        BY <3>2
      <3> QED BY <3>1, <3>2, <3>3
    <2> QED BY <2>1, <2>2 DEF LoadedInv
  <1>5. BatchInv' /\ SizeInv'
    BY DEF BatchInv, SizeInv
  <1>6. \A r \in RegionSet : DoneInv(r)'
    BY DoneFrame DEF AdvanceInv
  <1> QED BY <1>1, <1>2, <1>3, <1>4, <1>5, <1>6 DEF AdvanceInv

\* A restart loses the beat and the order, not the promise.
LEMMA CrashStep ==
    ASSUME AdvanceInv, Crash
    PROVE  AdvanceInv' /\ SizeInv'
  <1> USE DEF Crash, database
  <1>1. TimeInv' /\ LoadedInv' /\ BatchInv' /\ SizeInv'
    BY DEF AdvanceInv, TimeInv, LoadedInv, BatchInv, SizeInv
  <1>2. PlanInv'
    BY DEF AdvanceInv, PlanInv
  <1>3. OrderInv'
    BY DEF AdvanceInv, OrderInv
  <1>4. \A r \in RegionSet : DoneInv(r)'
    BY DoneFrame DEF AdvanceInv
  <1> QED BY <1>1, <1>2, <1>3, <1>4 DEF AdvanceInv

\* The beat ends.
LEMMA EndCycleStep ==
    ASSUME AdvanceInv, EndCycle
    PROVE  AdvanceInv' /\ SizeInv'
  <1>1. pc # "idle" /\ UNCHANGED <<clock, plans, loaded, order>> /\ UNCHANGED <<now, done>>
    BY DEF EndCycle, database
  <1>2. TimeInv'
    BY <1>1, BeatKeeps DEF AdvanceInv, TimeInv, EndCycle
  <1>3. BatchInv' /\ SizeInv'
    BY DEF EndCycle, BatchInv, SizeInv
  <1> QED BY <1>1, <1>2, <1>3, BeatKeeps DEF AdvanceInv

-----------------------------------------------------------------------------
(* Orders. *)

\* The effective start lies behind nothing: not behind its own start, its time or a head.
LEMMA StartOfFacts ==
    ASSUME TimeInv, NEW q \in Requests, NEW t \in Genesis .. clock
    PROVE  /\ StartOf(q, t) \in Nat
           /\ Genesis <= StartOf(q, t)
           /\ \A r \in q.regions : now[r] <= StartOf(q, t)
  <1> DEFINE S == {q.start, t} \cup {now[r] : r \in q.regions}
             b == q.start + MaxTime
  <1>1. q.start \in Nat /\ q.regions \subseteq RegionSet /\ MaxTime \in Nat /\ Genesis \in Nat
    BY AdvanceAssumption
  <1>2. t \in Nat /\ t <= MaxTime /\ Genesis <= t
    BY <1>1 DEF TimeInv
  <1>3. \A r \in q.regions : now[r] \in Nat /\ now[r] <= MaxTime
    BY <1>1 DEF TimeInv
  <1>4. S \in SUBSET Nat /\ S # {} /\ b \in Nat /\ \A n \in S : n <= b
    BY <1>1, <1>2, <1>3
  <1>5. t \in S /\ \A r \in q.regions : now[r] \in S
    OBVIOUS
  <1> HIDE DEF S, b
  <1>6. Largest(S) \in S /\ \A n \in S : n <= Largest(S)
    BY <1>4, LargestFacts
  <1>7. StartOf(q, t) = Largest(S)
    BY DEF StartOf, S
  <1> HIDE DEF S
  <1>8. StartOf(q, t) \in Nat /\ t <= StartOf(q, t)
    BY <1>4, <1>5, <1>6, <1>7
  <1>9. \A r \in q.regions : now[r] <= StartOf(q, t)
    BY <1>5, <1>6, <1>7
  <1> QED BY <1>1, <1>2, <1>8, <1>9

\* An order is taken with a start no head has passed.
LEMMA OrderStep ==
    ASSUME AdvanceInv, NEW q \in Requests, NEW t \in Genesis .. clock, Order(q, t)
    PROVE  AdvanceInv' /\ SizeInv'
  <1> USE DEF database, locals
  <1>0. TimeInv /\ PlanInv /\ LoadedInv /\ pc = "idle"
    BY DEF AdvanceInv, Order, Exclusive
  <1>1. TimeInv' /\ PlanInv' /\ LoadedInv'
    BY <1>0 DEF TimeInv, PlanInv, LoadedInv, Order
  <1>2. OrderInv'
    BY <1>0, StartOfFacts DEF OrderInv, Order
  <1>3. BatchInv' /\ SizeInv'
    BY <1>0 DEF BatchInv, SizeInv, Order
  <1>4. \A r \in RegionSet : DoneInv(r)'
    BY DoneFrame DEF AdvanceInv, Order
  <1> QED BY <1>1, <1>2, <1>3, <1>4 DEF AdvanceInv

\* An order that fails leaves no trace.
LEMMA OrderFailsStep ==
    ASSUME AdvanceInv, OrderFails
    PROVE  AdvanceInv' /\ SizeInv'
  <1> USE DEF database, locals
  <1>0. TimeInv /\ PlanInv /\ LoadedInv /\ pc = "idle"
    BY DEF AdvanceInv, OrderInv, OrderFails
  <1>1. TimeInv' /\ PlanInv' /\ LoadedInv'
    BY <1>0 DEF TimeInv, PlanInv, LoadedInv, OrderFails
  <1>2. OrderInv'
    BY DEF OrderInv, OrderFails, CloseOrder
  <1>3. BatchInv' /\ SizeInv'
    BY <1>0 DEF BatchInv, SizeInv, OrderFails
  <1>4. \A r \in RegionSet : DoneInv(r)'
    BY DoneFrame DEF AdvanceInv, OrderFails
  <1> QED BY <1>1, <1>2, <1>3, <1>4 DEF AdvanceInv

\* A new plan brings nothing that should have happened already.
LEMMA SavePlanStep ==
    ASSUME AdvanceInv, SavePlan
    PROVE  AdvanceInv' /\ SizeInv'
  <1> DEFINE p == [key |-> request.key, start |-> start, end |-> request.end, regions |-> request.regions]
  <1>0. /\ TimeInv /\ PlanInv /\ LoadedInv
        /\ plans' = plans \cup {p}
        /\ UNCHANGED <<clock, now, done, loaded, pc, locals>>
    BY DEF AdvanceInv, SavePlan
  <1>1. /\ pc = "idle" /\ request \in Requests
        /\ start \in Nat /\ Genesis <= start /\ start < request.end
        /\ \A r \in request.regions : now[r] <= start
        /\ \A x \in plans : x.key # request.key
    BY DEF AdvanceInv, OrderInv, SavePlan
  <1>2. /\ p.key = request.key /\ p.start = start /\ p.end = request.end /\ p.regions = request.regions
        /\ p.end \in Nat /\ p.regions \subseteq RegionSet
    BY <1>1, AdvanceAssumption
  <1> HIDE DEF p
  <1>3. TimeInv'
    BY <1>0 DEF TimeInv, locals
  <1>4. PlanInv'
    <2>1. IsFiniteSet(plans')
      BY <1>0, FS_AddElement DEF PlanInv
    <2>2. \A x \in plans' : /\ x.start \in Nat /\ x.end \in Nat
                            /\ Genesis <= x.start /\ x.start < x.end
                            /\ x.regions \subseteq RegionSet
      BY <1>0, <1>1, <1>2 DEF PlanInv
    <2>3. \A x, y \in plans' : x.key = y.key => x = y
      BY <1>0, <1>1, <1>2 DEF PlanInv
    <2> QED BY <2>1, <2>2, <2>3 DEF PlanInv
  <1>5. OrderInv'
    BY DEF OrderInv, SavePlan, CloseOrder
  <1>6. LoadedInv' /\ BatchInv' /\ SizeInv'
    BY <1>0, <1>1 DEF LoadedInv, BatchInv, SizeInv
  <1>7. ASSUME NEW r \in RegionSet PROVE DoneInv(r)'
    <2>0. DoneInv(r) /\ now'[r] = now[r] /\ done'[r] = done[r] /\ now[r] \in Nat
      BY <1>0, AdvanceAssumption DEF AdvanceInv, TimeInv
    <2>1. Scheduled(r, plans) \subseteq Scheduled(r, plans')
      BY <1>0, ScheduledMonotone
    <2>2. ASSUME NEW c \in Scheduled(r, plans'), c.at < now[r] \/ (c.at = now[r] /\ c.kind # "activate")
          PROVE  c \in Scheduled(r, plans)
      <3>1. CASE \E b \in Base : b.region = r /\ c = [kind |-> b.kind, key |-> b.key, at |-> b.at]
        BY <3>1 DEF Scheduled
      <3>2. ASSUME NEW x \in plans', r \in x.regions, c = [kind |-> "activate", key |-> x.key, at |-> x.start]
            PROVE  c \in Scheduled(r, plans)
        <4>1. x # p
          BY <1>1, <1>2, <2>0, <2>2, <3>2
        <4>2. x \in plans
          BY <1>0, <4>1
        <4> QED BY <3>2, <4>2 DEF Scheduled
      <3>3. ASSUME NEW x \in plans', r \in x.regions, c = [kind |-> "clear", key |-> x.key, at |-> x.end]
            PROVE  c \in Scheduled(r, plans)
        <4>1. x # p
          BY <1>1, <1>2, <2>0, <2>2, <3>3
        <4>2. x \in plans
          BY <1>0, <4>1
        <4> QED BY <3>3, <4>2 DEF Scheduled
      <3> QED BY <3>1, <3>2, <3>3, ScheduledFacts
    <2>3. \A c \in Scheduled(r, plans') : Overdue(r, c)' => Taken(r, c)'
      <3> SUFFICES ASSUME NEW c \in Scheduled(r, plans'), Overdue(r, c)' PROVE Taken(r, c)'
        OBVIOUS
      <3>1. Overdue(r, c)
        BY <2>0 DEF Overdue
      <3>2. c \in Scheduled(r, plans)
        BY <2>2, <3>1 DEF Overdue
      <3> QED BY <2>0, <3>1, <3>2 DEF DoneInv, Taken
    <2>4. Scheduled(r, plans)' = Scheduled(r, plans')
      BY DEF Scheduled
    <2> QED BY <2>0, <2>1, <2>3, <2>4 DEF DoneInv, Punctual
  <1> QED BY <1>3, <1>4, <1>5, <1>6, <1>7 DEF AdvanceInv

-----------------------------------------------------------------------------
(* The batch grows and is committed. *)

\* A region begins with what is scheduled for the very time of its head, if there is anything.
LEMMA BeginRegionStep ==
    ASSUME AdvanceInv, SizeInv, BeginRegion
    PROVE  AdvanceInv' /\ SizeInv'
  <1>0. /\ TimeInv /\ PlanInv /\ LoadedInv /\ pc = "region" /\ pc # "idle"
        /\ UNCHANGED <<clock, plans, loaded, order>> /\ UNCHANGED <<now, done>>
        /\ turn \in Nat \ {0} /\ turn <= Len(Regions)
    BY DEF AdvanceInv, TimeInv, BeginRegion, database
  <1>1. CASE NextRegion
    BY <1>0, <1>1, NextRegionStep
  <1>2. CASE ~(target < now[Region] \/ Size(Standing(Region)) > BatchLimit)
    <2>1. /\ current' = now[Region] /\ cursor' = now[Region] /\ UNCHANGED <<target, turn>>
          /\ \/ Size(Standing(Region)) = 0 /\ pc' = "enqueue" /\ UNCHANGED pending
             \/ Size(Standing(Region)) # 0 /\ pc' = "flush" /\ pending' = <<Standing(Region)>>
      BY <1>2 DEF BeginRegion
    <2>2. Region \in RegionSet /\ Region' = Region /\ now[Region] \in Nat /\ target \in Nat
      <3>1. Region \in RegionSet
        BY <1>0, RegionType
      <3> QED BY <1>0, <2>1, <3>1, AdvanceAssumption DEF TimeInv, Region
    <2>3. now[Region] <= target /\ Size(Standing(Region)) \in Nat /\ Size(Standing(Region)) <= BatchLimit
      <3>1. Size(Standing(Region)) \in Nat
        BY <1>0, <2>2, SizeFacts
      <3> QED BY <1>2, <2>2, <3>1, AdvanceAssumption
    <2>4. TimeInv'
      BY <1>0, <2>1, BeatKeeps DEF TimeInv
    <2>5. pending = <<>>
      BY <1>0 DEF TimeInv
    <2>6. Boundaries' = Boundaries /\ Standing(Region)' = Standing(Region)
      BY <1>0, <2>2 DEF Boundaries, Boundary, Standing, Due, Scheduled
    <2>7. now' = now /\ now'[Region'] = now[Region]
      BY <1>0, <2>2
    <2>8. CASE Size(Standing(Region)) = 0
      <3>1. pc' = "enqueue" /\ pending' = <<>>
        BY <2>1, <2>5, <2>8
      <3>2. Due(Region, now[Region])' = {}
        <4>1. Due(Region, now[Region]) = {}
          BY <1>0, <2>2, <2>8, SizeFacts
        <4> QED BY <1>0, <2>2, <2>7, <4>1 DEF Due, Scheduled
      <3>3. LeadingBatch'
        BY <2>1, <2>2, <2>7, <3>1, <3>2 DEF LeadingBatch
      <3>4. BatchInv'
        BY <2>1, <2>2, <2>3, <2>7, <3>1, <3>3 DEF BatchInv
      <3>5. SizeInv'
        <4>1. pending' \in Seq({})
          BY <3>1
        <4>2. BatchSize' = Sum(pending')
          BY <4>1, BatchSizeIsSum
        <4>3. Sum(pending') = 0
          BY <3>1, SumOne
        <4> QED BY <4>2, <4>3, AdvanceAssumption DEF SizeInv
      <3> QED BY <1>0, <2>4, <3>4, <3>5, BeatKeeps DEF AdvanceInv
    <2>9. CASE Size(Standing(Region)) # 0
      <3>1. pc' = "flush" /\ pending' = <<Standing(Region)>>
        BY <2>1, <2>9
      <3>2. StandingBatch'
        BY <2>1, <2>2, <2>6, <2>7, <3>1 DEF StandingBatch
      <3>3. BatchInv'
        <4>1. pending' \in Seq(Boundaries')
          <5>1. Standing(Region) \in Boundaries
            BY DEF Boundaries
          <5> QED BY <2>6, <3>1, <5>1
        <4> QED BY <2>1, <2>2, <2>3, <2>7, <3>2, <4>1 DEF BatchInv
      <3>4. SizeInv'
        <4> DEFINE b == Standing(Region)
        <4>1. pending' = <<b>> /\ pending' \in Seq({b})
          BY <3>1
        <4>2. BatchSize' = Sum(pending')
          BY <4>1, BatchSizeIsSum
        <4>3. Sum(pending') = Size(b)
          BY <2>3, <4>1, SumOne
        <4> QED BY <2>3, <4>2, <4>3 DEF SizeInv
      <3> QED BY <1>0, <2>4, <3>3, <3>4, BeatKeeps DEF AdvanceInv
    <2> QED BY <2>8, <2>9
  <1> QED BY <1>1, <1>2 DEF BeginRegion

\* The next boundary.
LEMMA NextBoundary ==
    ASSUME TimeInv, BatchInv, pc = "enqueue", cursor < target
    PROVE  LET ms == Least(BoundaryTimes(Region)) IN
           /\ ms \in cursor + 1 .. target
           /\ ms \in Nat
           /\ \A n \in BoundaryTimes(Region) : ms <= n
           /\ \A n \in cursor + 1 .. ms - 1 : Due(Region, n) = {}
  <1> DEFINE T == BoundaryTimes(Region)
             ms == Least(T)
  <1>1. Region \in RegionSet /\ now[Region] \in Nat /\ target \in Nat /\ cursor \in Nat
    <2>1. Region \in RegionSet
      BY RegionType DEF TimeInv
    <2> QED BY <2>1, AdvanceAssumption DEF TimeInv, BatchInv
  <1>2. T \in SUBSET Nat /\ target \in T /\ T \subseteq cursor + 1 .. target
    BY <1>1 DEF BoundaryTimes
  <1>3. \A n \in cursor + 1 .. target : Due(Region, n) # {} => n \in T
    BY DEF BoundaryTimes
  <1> HIDE DEF T
  <1>4. ms \in T /\ \A n \in T : ms <= n
    BY <1>2, LeastFacts
  <1> HIDE DEF ms
  <1>5. ASSUME NEW n \in cursor + 1 .. ms - 1 PROVE Due(Region, n) = {}
    <2>1. n \in cursor + 1 .. target /\ ~(ms <= n)
      BY <1>1, <1>2, <1>4
    <2> QED BY <1>3, <1>4, <2>1
  <1>6. ms \in cursor + 1 .. target /\ ms \in Nat
    BY <1>2, <1>4
  <1> QED BY <1>4, <1>5, <1>6 DEF ms, T

\* A boundary joins the batch: no scheduled time lies between it and the cursor.
LEMMA AppendStep ==
    ASSUME AdvanceInv, SizeInv, pc = "enqueue", cursor < target,
           NEW ms, ms = Least(BoundaryTimes(Region)),
           pending # <<>> => BatchSize + Size(Boundary(Region, ms)) <= BatchLimit,
           Size(Boundary(Region, ms)) <= BatchLimit,
           ms - current <= Span,
           pending' = Append(pending, Boundary(Region, ms)), cursor' = ms,
           pc' \in {"enqueue", "flush"}, UNCHANGED <<target, turn, current>>,
           UNCHANGED <<clock, plans, loaded, order>>, UNCHANGED <<now, done>>
    PROVE  AdvanceInv' /\ SizeInv'
  <1> DEFINE b == Boundary(Region, ms)
             n == Len(pending)
  <1>0. TimeInv /\ PlanInv /\ LoadedInv /\ BatchInv
    BY DEF AdvanceInv
  <1>1. Region \in RegionSet /\ Region' = Region /\ now[Region] \in Nat /\ now'[Region'] = now[Region]
        /\ target \in Nat /\ cursor \in Nat /\ now[Region] <= cursor /\ current = now[Region]
    <2>1. Region \in RegionSet
      BY <1>0, RegionType DEF TimeInv
    <2> QED BY <1>0, <2>1, AdvanceAssumption, SMTT(30) DEF TimeInv, BatchInv, Region
  <1>2. /\ ms \in cursor + 1 .. target /\ ms \in Nat
        /\ \A k \in cursor + 1 .. ms - 1 : Due(Region, k) = {}
    BY <1>0, NextBoundary
  <1>3. TimeInv'
    BY <1>0, BeatKeeps DEF TimeInv
  <1>4. LeadingBatch /\ pending \in Seq(Boundaries)
    BY <1>0 DEF BatchInv, StandingBatch
  <1>5. /\ Boundaries' = Boundaries
        /\ \A k : Boundary(Region, k)' = Boundary(Region, k)
        /\ \A k : Due(Region, k)' = Due(Region, k)
    BY <1>1 DEF Boundaries, Boundary, Standing, Due, Scheduled
  <1>6. b \in Boundaries /\ b.at = ms
    BY <1>2 DEF Boundaries, Boundary
  <1> HIDE DEF b
  <1>7. /\ pending' \in Seq(Boundaries) /\ n \in Nat /\ Len(pending') = n + 1
        /\ DOMAIN pending = 1 .. n /\ DOMAIN pending' = 1 .. n + 1
        /\ pending'[n + 1] = b /\ \A i \in 1 .. n : pending'[i] = pending[i]
        /\ pending' # <<>>
    BY <1>4, <1>6 DEF b
  <1> HIDE DEF n
  <1>8. LeadingBatch'
    <2>1. ASSUME NEW i \in DOMAIN pending'
          PROVE  /\ pending'[i] = Boundary(Region, pending'[i].at)
                 /\ pending'[i].at \in now[Region] + 1 .. ms
                 /\ pending'[i].at - now[Region] <= Span
      <3>1. CASE i = n + 1
        BY <1>1, <1>2, <1>6, <1>7, <3>1 DEF b
      <3>2. CASE i # n + 1
        <4>1. i \in DOMAIN pending /\ pending'[i] = pending[i]
          BY <1>7, <3>2
        <4>2. /\ pending[i] = Boundary(Region, pending[i].at)
              /\ pending[i].at \in now[Region] + 1 .. cursor
              /\ pending[i].at - now[Region] <= Span
          BY <1>4, <4>1 DEF LeadingBatch
        <4> QED BY <1>1, <1>2, <4>1, <4>2
      <3> QED BY <3>1, <3>2
    <2>2. ASSUME NEW i \in DOMAIN pending', NEW k \in DOMAIN pending', i < k
          PROVE  pending'[i].at < pending'[k].at
      <3>1. i \in DOMAIN pending /\ pending'[i] = pending[i]
        BY <1>7, <2>2
      <3>2. CASE k = n + 1
        <4>1. pending[i].at \in now[Region] + 1 .. cursor
          BY <1>4, <3>1 DEF LeadingBatch
        <4> QED BY <1>1, <1>2, <1>6, <1>7, <3>1, <3>2, <4>1
      <3>3. CASE k # n + 1
        <4>1. k \in DOMAIN pending /\ pending'[k] = pending[k]
          BY <1>7, <3>3
        <4> QED BY <1>4, <2>2, <3>1, <4>1 DEF LeadingBatch
      <3> QED BY <3>2, <3>3
    <2>3. cursor' = pending'[Len(pending')].at
      BY <1>6, <1>7
    <2>4. ASSUME NEW m \in now[Region] + 1 .. ms, Due(Region, m) # {}
          PROVE  \E i \in DOMAIN pending' : pending'[i].at = m
      <3>1. CASE m = ms
        BY <1>6, <1>7, <3>1
      <3>2. CASE m # ms
        <4>1. m \in now[Region] + 1 .. cursor
          BY <1>1, <1>2, <2>4, <3>2
        <4>2. PICK i \in DOMAIN pending : pending[i].at = m
          BY <1>4, <2>4, <4>1 DEF LeadingBatch
        <4>3. i \in DOMAIN pending' /\ pending'[i] = pending[i]
          BY <1>7
        <4> QED BY <4>2, <4>3
      <3> QED BY <3>1, <3>2
    <2>5. ASSUME NEW c \in Due(Region, now[Region]) PROVE Taken(Region, c)'
      BY <1>1, <1>4, <2>5 DEF LeadingBatch, Taken
    <2>6. (\A i \in DOMAIN pending : /\ pending[i] = Boundary(Region, pending[i].at)
                                      /\ pending[i].at \in now[Region] + 1 .. cursor
                                      /\ pending[i].at - now[Region] <= Span)'
      BY <1>1, <1>5, <2>1
    <2>7. (\A m \in now[Region] + 1 .. cursor : Due(Region, m) # {}
             => \E i \in DOMAIN pending : pending[i].at = m)'
      BY <1>1, <1>5, <2>4
    <2>8. (\A c \in Due(Region, now[Region]) : Taken(Region, c))'
      BY <1>1, <1>5, <2>5
    <2> QED BY <1>7, <2>2, <2>3, <2>6, <2>7, <2>8 DEF LeadingBatch
  <1>9. BatchInv'
    BY <1>1, <1>2, <1>5, <1>7, <1>8 DEF BatchInv
  <1>10. SizeInv'
    <2>1. \A x \in Boundaries : Size(x) \in Nat
      BY <1>0, SizeFacts
    <2>2. BatchSize = Sum(pending) /\ BatchSize' = Sum(pending')
      BY <1>4, <1>7, BatchSizeIsSum
    <2>3. /\ Sum(pending) \in Nat /\ (pending = <<>> => Sum(pending) = 0)
          /\ Sum(pending') = Sum(pending) + Size(b)
      BY <1>4, <1>6, <2>1, SumFacts DEF b
    <2>4. Size(b) \in Nat /\ Size(b) <= BatchLimit /\ (pending # <<>> => BatchSize + Size(b) <= BatchLimit)
      BY <1>6, <2>1 DEF b
    <2> QED BY <2>2, <2>3, <2>4, AdvanceAssumption DEF SizeInv
  <1> QED BY <1>0, <1>3, <1>9, <1>10, BeatKeeps DEF AdvanceInv

\* The batch is closed.
LEMMA CloseStep ==
    ASSUME AdvanceInv, SizeInv, pc = "enqueue", pending # <<>>, pc' = "flush",
           UNCHANGED <<clock, database, loaded, order, locals>>
    PROVE  AdvanceInv' /\ SizeInv'
  <1> USE DEF database, locals
  <1>0. TimeInv /\ BatchInv /\ LeadingBatch
    BY DEF AdvanceInv, BatchInv, StandingBatch
  <1>1. Region' = Region /\ Boundaries' = Boundaries
    BY DEF Region, Boundaries, Boundary, Standing, Due, Scheduled
  <1>2. \A ms : Due(Region, ms)' = Due(Region, ms)
    BY <1>1 DEF Due, Scheduled
  <1>3. LeadingBatch'
    BY <1>0, <1>1, <1>2 DEF LeadingBatch, Boundary, Due, Scheduled, Taken
  <1>4. BatchInv'
    BY <1>0, <1>1, <1>3 DEF BatchInv
  <1>5. SizeInv'
    BY DEF SizeInv, BatchSize
  <1>6. TimeInv'
    BY <1>0 DEF TimeInv
  <1> QED BY <1>4, <1>5, <1>6, BeatKeeps DEF AdvanceInv

\* The three outcomes of enqueueBoundary.
LEMMA EnqueueStep ==
    ASSUME AdvanceInv, SizeInv, Enqueue
    PROVE  AdvanceInv' /\ SizeInv'
  <1> DEFINE ms == Least(BoundaryTimes(Region))
             b == Boundary(Region, ms)
  <1>0. /\ pc = "enqueue" /\ pc # "idle" /\ cursor < target
        /\ UNCHANGED <<clock, plans, loaded, order>> /\ UNCHANGED <<now, done>>
        /\ UNCHANGED <<clock, database, loaded, order>>
    BY DEF Enqueue, database
  <1>1. CASE pending # <<>> /\ pc' = "flush" /\ UNCHANGED locals
    BY <1>0, <1>1, CloseStep
  <1>2. CASE /\ pending # <<>> => BatchSize + Size(b) <= BatchLimit
             /\ Size(b) <= BatchLimit
             /\ b.at - current <= Span
             /\ pending' = Append(pending, b)
             /\ cursor' = b.at
             /\ pc' \in {"enqueue", "flush"}
             /\ UNCHANGED <<target, turn, current>>
    <2>1. b.at = ms
      BY DEF Boundary
    <2> QED BY <1>0, <1>2, <2>1, AppendStep
  <1>3. CASE NextRegion
    BY <1>0, <1>3, NextRegionStep
  <1> QED BY <1>1, <1>2, <1>3 DEF Enqueue

\* A committed batch leaves nothing to do at the new head.
LEMMA FlushStep ==
    ASSUME AdvanceInv, Flush
    PROVE  AdvanceInv' /\ SizeInv'
  <1>0. /\ TimeInv /\ BatchInv /\ pc = "flush" /\ pc # "idle" /\ CommitBatch
        /\ UNCHANGED <<clock, plans, loaded, order>> /\ UNCHANGED <<target, turn, cursor>>
        /\ current' = Reached /\ pending' = <<>> /\ pc' = "enqueue"
    BY DEF AdvanceInv, Flush
  <1>1. Region \in RegionSet /\ Region' = Region /\ Reached = cursor /\ Reached \in now[Region] .. target
        /\ Reached \in Genesis .. MaxTime
    BY <1>0, ReachedFacts DEF Region
  <1>2. now'[Region'] = Reached
    BY <1>0, <1>1 DEF CommitBatch, TimeInv
  <1>3. TimeInv'
    BY <1>0, BeatKeeps DEF TimeInv
  <1>4. LeadingBatch'
    <2>1. ASSUME NEW c \in Due(Region, now[Region])' PROVE Taken(Region, c)'
      <3>1. c \in Scheduled(Region, plans) /\ c.at = Reached
        <4>1. Due(Region, now[Region])' = {x \in Scheduled(Region, loaded) : x.at = Reached}
          BY <1>0, <1>1, <1>2 DEF Due, Scheduled
        <4>2. Scheduled(Region, loaded) \subseteq Scheduled(Region, plans)
          BY ScheduledMonotone DEF AdvanceInv, LoadedInv
        <4> QED BY <4>1, <4>2
      <3>2. c.at <= Reached
        BY <1>1, <3>1, AdvanceAssumption
      <3> QED BY <1>0, <1>1, <3>1, <3>2, CommitCovers DEF Taken
    <2>2. Reached \in Nat
      BY <1>1, AdvanceAssumption
    <2> QED BY <1>0, <1>1, <1>2, <2>1, <2>2 DEF LeadingBatch
  <1>5. BatchInv'
    <2>1. Reached \in Reached .. target
      BY <1>0, <1>1, AdvanceAssumption DEF TimeInv
    <2>2. pending' \in Seq(Boundaries')
      BY <1>0
    <2> QED BY <1>0, <1>1, <1>2, <1>4, <2>1, <2>2 DEF BatchInv
  <1>6. SizeInv'
    <2>1. pending' \in Seq({})
      BY <1>0
    <2>2. BatchSize' = Sum(pending')
      BY <2>1, BatchSizeIsSum
    <2>3. Sum(pending') = 0
      BY <1>0, SumOne
    <2> QED BY <2>2, <2>3, AdvanceAssumption DEF SizeInv
  <1> QED BY <1>0, <1>3, <1>5, <1>6, BeatKeeps DEF AdvanceInv

-----------------------------------------------------------------------------
(* The theorems. *)

\* The inductive invariant: the heads, plans and effects of every region agree with what is
\* scheduled, and the batch in hand leads on from the head without a gap.
THEOREM AdvanceInductive == Spec => [](AdvanceInv /\ SizeInv)
  <1>1. Init => AdvanceInv /\ SizeInv
    <2> SUFFICES ASSUME Init PROVE AdvanceInv /\ SizeInv
      OBVIOUS
    <2>1. TimeInv
      BY AdvanceAssumption DEF Init, TimeInv
    <2>2. PlanInv /\ OrderInv /\ LoadedInv
      BY FS_EmptySet DEF Init, PlanInv, OrderInv, LoadedInv
    <2>3. BatchInv /\ SizeInv
      BY DEF Init, BatchInv, SizeInv
    <2>4. ASSUME NEW r \in RegionSet PROVE DoneInv(r)
      <3>1. now[r] = Genesis /\ done[r] = {}
        BY DEF Init
      <3>2. \A c \in Scheduled(r, plans) : ~Overdue(r, c)
        BY <2>2, <3>1, ScheduledTimes, AdvanceAssumption DEF Overdue
      <3> QED BY <3>1, <3>2 DEF DoneInv
    <2> QED BY <2>1, <2>2, <2>3, <2>4 DEF AdvanceInv
  <1>2. AdvanceInv /\ SizeInv /\ [Next]_vars => (AdvanceInv /\ SizeInv)'
    <2> SUFFICES ASSUME AdvanceInv, SizeInv, [Next]_vars PROVE AdvanceInv' /\ SizeInv'
      OBVIOUS
    <2>1. CASE StartCycle
      BY <2>1, StartCycleStep
    <2>2. CASE BeginRegion
      BY <2>2, BeginRegionStep
    <2>3. CASE Enqueue
      BY <2>3, EnqueueStep
    <2>4. CASE FlushRest
      BY <2>4, CloseStep DEF FlushRest
    <2>5. CASE CompleteRegion
      BY <2>5, NextRegionStep DEF CompleteRegion, database
    <2>6. CASE Flush
      BY <2>6, FlushStep
    <2>7. CASE FlushRefused
      BY <2>7, NextRegionStep DEF FlushRefused, database
    <2>8. CASE EndCycle
      BY <2>8, EndCycleStep
    <2>9. CASE SavePlan
      BY <2>9, SavePlanStep
    <2>10. CASE OrderFails
      BY <2>10, OrderFailsStep
    <2>11. ASSUME NEW q \in Requests, NEW t \in Genesis .. clock, Order(q, t)
           PROVE  AdvanceInv' /\ SizeInv'
      BY <2>11, OrderStep
    <2>12. CASE Tick
      <3>1. clock' \in Genesis .. MaxTime
        BY <2>12, AdvanceAssumption DEF Tick, AdvanceInv, TimeInv
      <3> QED BY <2>12, <3>1, FrameStep DEF Tick, order
    <2>13. CASE RegionFails
      BY <2>13, NextRegionStep DEF RegionFails, database
    <2>14. CASE FlushThrowsLate
      BY <2>14, NextRegionStep DEF FlushThrowsLate
    <2>15. CASE Crash
      BY <2>15, CrashStep
    <2>16. CASE UNCHANGED vars \/ \E r \in RegionSet : CalmDown(r)
      <3>1. clock' \in Genesis .. MaxTime
        BY <2>16 DEF vars, CalmDown, AdvanceInv, TimeInv
      <3> QED BY <2>16, <3>1, FrameStep DEF vars, CalmDown, database, order, locals
    <2> QED BY <2>1, <2>2, <2>3, <2>4, <2>5, <2>6, <2>7, <2>8, <2>9, <2>10, <2>11, <2>12,
               <2>13, <2>14, <2>15, <2>16 DEF Next, Beat, Ordering, Faults
  <1> QED BY <1>1, <1>2, PTL DEF Spec

\* Type correctness, with the limits of a batch: whatever is scheduled together and however
\* the boundaries lie, what advanceRegionalSimulations has pending lies behind the head, in
\* order, within REGIONAL_SIMULATION_BATCH_COMMAND_LIMIT and REGIONAL_SIMULATION_BATCH_SPAN_MS.
THEOREM AdvanceTypeCorrect == Spec => []TypeOK
  <1>1. AdvanceInv /\ SizeInv => TypeOK
    <2> SUFFICES ASSUME AdvanceInv, SizeInv PROVE TypeOK
      OBVIOUS
    <2>1. TimeInv /\ BatchInv
      BY DEF AdvanceInv
    <2>2. ASSUME pc = "flush" PROVE pending # <<>>
      BY <2>1, <2>2 DEF BatchInv, StandingBatch, LeadingBatch
    <2>3. ASSUME pc \in {"enqueue", "flush"}
          PROVE  /\ current = now[Region]
                 /\ \A i \in DOMAIN pending : pending[i].at >= current /\ pending[i].at <= cursor
                 /\ \A i \in DOMAIN pending : pending[i].at - current <= Span
                 /\ \A i \in 1 .. Len(pending) - 1 : pending[i].at < pending[i + 1].at
      <3>1. Region \in RegionSet
        BY <2>1, <2>3, RegionType DEF TimeInv
      <3>2. now[Region] \in Nat /\ cursor \in Nat /\ current = now[Region] /\ now[Region] <= cursor
        BY <2>1, <2>3, <3>1, AdvanceAssumption DEF TimeInv, BatchInv
      <3>3. CASE StandingBatch
        <4>1. /\ DOMAIN pending = {1} /\ Len(pending) = 1 /\ pending[1].at = now[Region]
          BY <3>3 DEF StandingBatch, Standing
        <4> QED BY <3>2, <4>1, AdvanceAssumption
      <3>4. CASE LeadingBatch
        <4>1. \A i \in DOMAIN pending : pending[i].at >= current /\ pending[i].at <= cursor
          BY <3>2, <3>4 DEF LeadingBatch
        <4>2. \A i \in DOMAIN pending : pending[i].at - current <= Span
          BY <3>2, <3>4 DEF LeadingBatch
        <4>3. ASSUME NEW i \in 1 .. Len(pending) - 1 PROVE pending[i].at < pending[i + 1].at
          <5>1. pending \in Seq(Boundaries)
            BY <2>1, <2>3 DEF BatchInv
          <5>2. i \in DOMAIN pending /\ i + 1 \in DOMAIN pending /\ i < i + 1
            BY <5>1
          <5> QED BY <3>4, <5>2 DEF LeadingBatch
        <4> QED BY <3>2, <4>1, <4>2, <4>3
      <3> QED BY <2>1, <2>3, <3>3, <3>4 DEF BatchInv
    <2>4. /\ \A p \in plans : p.start < p.end /\ p.regions \subseteq RegionSet
          /\ loaded \subseteq plans /\ request \in Requests \cup {NoRequest}
      BY DEF AdvanceInv, PlanInv, LoadedInv, OrderInv
    <2> QED BY <2>1, <2>2, <2>3, <2>4 DEF TypeOK, TimeInv, SizeInv
  <1> QED BY <1>1, AdvanceInductive, PTL

\* Every scheduled command takes effect exactly once and at its time, and no region passes
\* it by, for any deployment and any orders: through failed regions, refused and late
\* batches, restarts, and disruptions ordered between the beats.
THEOREM CommandsOnTime == Spec => []OnTime
  <1>1. AdvanceInv => OnTime
    <2> SUFFICES ASSUME AdvanceInv, NEW r \in RegionSet, NEW c \in Scheduled(r, plans)
                 PROVE  LET taken == {d \in done[r] : d.kind = c.kind /\ d.key = c.key}
                        IN  /\ c.at < now[r] => taken # {}
                            /\ Cardinality(taken) <= 1
                            /\ \A d \in taken : IF c.kind = "queue" /\ c.at > Genesis THEN d.at < c.at
                                                                                      ELSE d.at = c.at
      BY DEF OnTime
    <2> DEFINE taken == {d \in done[r] : d.kind = c.kind /\ d.key = c.key}
    <2>1. DoneInv(r) /\ PlanInv
      BY DEF AdvanceInv
    <2>2. c.at < now[r] => taken # {}
      BY <2>1 DEF DoneInv, Overdue, Taken
    <2>3. Cardinality(taken) <= 1
      <3>1. CASE taken = {}
        <4>1. Cardinality(taken) = 0
          BY <3>1, FS_EmptySet
        <4> QED BY <4>1
      <3>2. CASE taken # {}
        <4>1. PICK d : taken = {d}
          BY <2>1, <3>2 DEF DoneInv
        <4>2. Cardinality(taken) = 1
          <5> HIDE DEF taken
          <5> QED BY <4>1, FS_Singleton
        <4> QED BY <4>2
      <3> QED BY <3>1, <3>2
    <2>4. ASSUME NEW d \in taken
          PROVE  IF c.kind = "queue" /\ c.at > Genesis THEN d.at < c.at ELSE d.at = c.at
      <3>1. PICK x \in Scheduled(r, plans) : Punctual(x, d)
        BY <2>1 DEF DoneInv
      <3>2. x = c
        BY <2>1, <3>1, ScheduledUnique DEF Punctual
      <3> QED BY <3>1, <3>2 DEF Punctual
    <2> QED BY <2>2, <2>3, <2>4
  <1> QED BY <1>1, AdvanceInductive, PTL

\* A region that stands at the end of a manual disruption or behind it has cleared it.
THEOREM DisruptionsEnd == Spec => []NeverOutlivesEnd
  <1>1. AdvanceInv => NeverOutlivesEnd
    <2> SUFFICES ASSUME AdvanceInv, NEW r \in RegionSet, NEW p \in plans, r \in p.regions, now[r] >= p.end
                 PROVE  \E d \in done[r] : d.kind = "clear" /\ d.key = p.key
      BY DEF NeverOutlivesEnd
    <2> DEFINE c == [kind |-> "clear", key |-> p.key, at |-> p.end]
    <2>1. c \in Scheduled(r, plans)
      BY DEF Scheduled
    <2>2. /\ p.start \in Nat /\ p.end \in Nat /\ Genesis <= p.start /\ p.start < p.end
          /\ now[r] \in Nat /\ Genesis \in Nat
      BY AdvanceAssumption DEF AdvanceInv, PlanInv, TimeInv
    <2>3. Overdue(r, c)
      BY <2>2 DEF Overdue
    <2>4. Taken(r, c)
      BY <2>1, <2>3 DEF AdvanceInv, DoneInv
    <2> QED BY <2>4 DEF Taken
  <1> QED BY <1>1, AdvanceInductive, PTL

\* The error for a boundary beyond the window is unreachable: the absolute checkpoints lie
\* within any span, wherever the head stands.
THEOREM WindowHolds == Spec => []WindowNeverExceeded
  <1>1. AdvanceInv => WindowNeverExceeded
    <2> SUFFICES ASSUME AdvanceInv, pc = "enqueue", cursor < target, pending = <<>>
                 PROVE  Least(BoundaryTimes(Region)) - current <= Span
      BY DEF WindowNeverExceeded
    <2> DEFINE ms == Least(BoundaryTimes(Region))
    <2>1. TimeInv /\ BatchInv /\ LeadingBatch
      BY DEF AdvanceInv, BatchInv, StandingBatch
    <2>2. Region \in RegionSet
      BY <2>1, RegionType DEF TimeInv
    <2>3. current = cursor /\ cursor \in Nat /\ target \in Nat /\ Span \in Nat \ {0}
      BY <2>1, <2>2, AdvanceAssumption DEF TimeInv, BatchInv, LeadingBatch
    <2>4. ms \in cursor + 1 .. target /\ ms \in Nat /\ \A n \in BoundaryTimes(Region) : ms <= n
      BY <2>1, NextBoundary
    <2> HIDE DEF ms
    <2>5. PICK m \in cursor + 1 .. cursor + Span : m % Span = 0
      BY <2>3, NextCheckpoint
    <2>6. CASE m <= target
      <3>1. m \in BoundaryTimes(Region)
        BY <2>3, <2>5, <2>6 DEF BoundaryTimes
      <3> QED BY <2>3, <2>4, <2>5, <3>1 DEF ms
    <2>7. CASE ~(m <= target)
      BY <2>3, <2>4, <2>5, <2>7 DEF ms
    <2> QED BY <2>6, <2>7
  <1> QED BY <1>1, AdvanceInductive, PTL
=============================================================================
