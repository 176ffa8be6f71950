----------------------- MODULE WorldParticipationProofs -----------------------
(***************************************************************************)
(* Proofs about WorldParticipation, for any number of customers, places,    *)
(* payments and faults, and jobs in any order.                              *)
(***************************************************************************)
EXTENDS WorldParticipation, FiniteSetTheorems, SequenceTheorems, TLAPS

-----------------------------------------------------------------------------
(* The inductive invariant. *)

Outcomes == {"active", "rejected", "refunded"}
Jobs == [cust : Customers, action : {"provision", "refund"}]
Commands == [key : Keys, st : {"pending", "working", "leased"}]

\* Odoo's tables. A job is only written for a record that is bound to a payment, so that
\* the command built from it later has a key.
OdooInv ==
    /\ rec \in [Customers -> [state : {Nothing, "provisioning", "active", "rejected",
                                       "refund_pending", "refunded"}, pay : 0..MaxPayments]]
    /\ reversed \in [Customers -> SUBSET Payments]
    /\ jobs \in Seq(Jobs)
    /\ \A i \in DOMAIN jobs : rec[jobs[i].cust].pay >= 1
    /\ failed \subseteq Jobs
    /\ \A job \in failed : rec[job.cust].pay >= 1

\* The Game's queue and outbox.
QueueInv ==
    /\ received \subseteq Keys
    /\ queue \in Seq(Commands)
    /\ outbox \subseteq [key : Keys, state : Outcomes]
    /\ open \in BOOLEAN /\ faults \in 0..MaxFaults

\* The worker has the result of the one command it works on, or it works on none.
WorkInv ==
    \/ current = {} /\ \A i \in DOMAIN queue : queue[i].st # "working"
    \/ \E i \in DOMAIN queue, s \in Outcomes :
         /\ queue[i].st = "working"
         /\ current = {Result(queue[i].key, s)}
         /\ \A j \in DOMAIN queue : queue[j].st = "working" => j = i

\* A participation without a command that was applied to it is not there at all.
PartInv ==
    /\ part \in [Customers -> [state : {Nothing} \cup Outcomes, key : Keys \cup {<<>>}]]
    /\ \A c \in Customers : part[c].key # <<>> => part[c].state # Nothing
    /\ access \in [Customers -> {Nothing, "active", "revoked"}]

ParticipationInv == OdooInv /\ QueueInv /\ WorkInv /\ PartInv /\ CapacityRespected

-----------------------------------------------------------------------------
(* Lemmas. *)

\* RemoveAt drops one element and keeps the others in their order.
LEMMA RemoveAtFacts ==
    ASSUME NEW S, NEW s \in Seq(S), NEW i \in DOMAIN s
    PROVE  /\ RemoveAt(s, i) \in Seq(S)
           /\ Len(RemoveAt(s, i)) = Len(s) - 1
           /\ \A k \in DOMAIN RemoveAt(s, i) :
                RemoveAt(s, i)[k] = IF k < i THEN s[k] ELSE s[k + 1]
  <1>0. Len(s) \in Nat /\ i \in 1 .. Len(s) /\ \A k \in 1 .. Len(s) : s[k] \in S
    OBVIOUS
  <1> DEFINE a == SubSeq(s, 1, i - 1)
             b == SubSeq(s, i + 1, Len(s))
  <1>1. /\ a \in Seq(S) /\ Len(a) = i - 1
        /\ \A k \in 1 .. i - 1 : a[k] = s[k]
    BY <1>0, SubSeqProperties
  <1>2. /\ b \in Seq(S) /\ Len(b) = Len(s) - i
        /\ \A k \in 1 .. Len(s) - i : b[k] = s[k + i]
    BY <1>0, SubSeqProperties
  <1> HIDE DEF a, b
  <1>3. /\ a \o b \in Seq(S) /\ Len(a \o b) = Len(s) - 1
        /\ \A k \in 1 .. Len(s) - 1 : (a \o b)[k] = IF k <= i - 1 THEN a[k] ELSE b[k - (i - 1)]
    <2>1. /\ a \o b \in Seq(S) /\ Len(a \o b) = Len(a) + Len(b)
          /\ \A k \in 1 .. Len(a) + Len(b) :
               (a \o b)[k] = IF k <= Len(a) THEN a[k] ELSE b[k - Len(a)]
      BY <1>1, <1>2, ConcatProperties, Zenon
    <2>2. Len(a) + Len(b) = Len(s) - 1
      BY <1>0, <1>1, <1>2
    <2> QED BY <1>1, <2>1, <2>2, Zenon
  <1>4. RemoveAt(s, i) = a \o b
    BY DEF RemoveAt, a, b
  <1>5. DOMAIN RemoveAt(s, i) = 1 .. Len(s) - 1
    BY <1>0, <1>3, <1>4
  <1>6. ASSUME NEW k \in 1 .. Len(s) - 1
        PROVE  (a \o b)[k] = IF k < i THEN s[k] ELSE s[k + 1]
    <2>1. CASE k < i
      BY <1>0, <1>1, <1>3, <2>1
    <2>2. CASE ~(k < i)
      <3>1. k - (i - 1) \in 1 .. Len(s) - i
        BY <1>0, <2>2
      <3>2. b[k - (i - 1)] = s[(k - (i - 1)) + i]
        BY <1>2, <3>1
      <3>3. (k - (i - 1)) + i = k + 1
        BY <1>0
      <3> QED BY <1>0, <1>3, <2>2, <3>2, <3>3
    <2> QED BY <2>1, <2>2
  <1> QED BY <1>3, <1>4, <1>5, <1>6

\* A key is never the empty one.
LEMMA KeyFacts ==
    ASSUME NEW k \in Keys
    PROVE  /\ k # <<>>
           /\ k[1] \in Customers /\ k[2] \in Payments /\ k[3] \in {"provision", "refund"}
  BY SMTT(30) DEF Keys

\* If nobody becomes active the capacity stays respected.
LEMMA NobodyAdmitted ==
    ASSUME CapacityRespected,
           \A c \in Customers : part'[c].state = "active" => part[c].state = "active"
    PROVE  CapacityRespected'
  <1> DEFINE A == {c \in Customers : part[c].state = "active"}
             B == {c \in Customers : part'[c].state = "active"}
  <1>1. IsFiniteSet(A)
    BY ParticipationAssumption, FS_Subset
  <1>2. B \in SUBSET A
    OBVIOUS
  <1>3. Cardinality(A) \in Nat /\ Cardinality(B) \in Nat /\ Cardinality(B) <= Cardinality(A)
    BY <1>1, <1>2, FS_Subset, FS_CardinalityType
  <1>4. Cardinality(A) <= Capacity
    BY DEF CapacityRespected
  <1>5. Cardinality(B) <= Capacity
    BY <1>3, <1>4, ParticipationAssumption
  <1> QED BY <1>5 DEF CapacityRespected

\* A customer who is admitted takes a place that is free.
LEMMA OneAdmitted ==
    ASSUME NEW c \in Customers, Admissible(c),
           \A d \in Customers \ {c} : part'[d] = part[d]
    PROVE  CapacityRespected'
  <1> DEFINE O == Occupied(c)
             B == {d \in Customers : part'[d].state = "active"}
  <1>1. O \in SUBSET Customers /\ c \notin O
    BY DEF Occupied
  <1>2. IsFiniteSet(O) /\ Cardinality(O) \in Nat
    BY <1>1, ParticipationAssumption, FS_Subset, FS_CardinalityType
  <1>3. IsFiniteSet(O \cup {c}) /\ Cardinality(O \cup {c}) = Cardinality(O) + 1
    BY <1>1, <1>2, FS_AddElement
  <1>4. B \in SUBSET (O \cup {c})
    BY DEF Occupied
  <1> HIDE DEF B
  <1>5. Cardinality(B) \in Nat /\ Cardinality(B) <= Cardinality(O) + 1
    BY <1>3, <1>4, FS_Subset, FS_CardinalityType
  <1>6. Cardinality(O) < Capacity
    BY DEF Admissible
  <1> HIDE DEF O
  <1>7. Cardinality(B) <= Capacity
    BY <1>2, <1>5, <1>6, ParticipationAssumption
  <1> QED BY <1>7 DEF CapacityRespected, B

\* The elements of the two queues.
LEMMA ElementFacts ==
    ASSUME OdooInv, QueueInv
    PROVE  /\ \A i \in DOMAIN jobs : /\ jobs[i].cust \in Customers
                                     /\ jobs[i].action \in {"provision", "refund"}
           /\ \A i \in DOMAIN queue : /\ queue[i].key \in Keys
                                      /\ queue[i].st \in {"pending", "working", "leased"}
  <1>1. \A i \in DOMAIN jobs : jobs[i] \in Jobs
    BY DEF OdooInv
  <1>2. \A i \in DOMAIN queue : queue[i] \in Commands
    BY DEF QueueInv
  <1> QED BY <1>1, <1>2 DEF Jobs, Commands

\* A command changes its status and nothing else.
LEMMA StatusChanged ==
    ASSUME queue \in Seq(Commands), NEW i \in DOMAIN queue,
           NEW st \in {"pending", "working", "leased"}, queue' = [queue EXCEPT ![i].st = st]
    PROVE  /\ queue' \in Seq(Commands)
           /\ DOMAIN queue' = DOMAIN queue
           /\ queue'[i].st = st /\ queue'[i].key = queue[i].key
           /\ \A k \in DOMAIN queue : k # i => queue'[k] = queue[k]
  <1>1. queue \in [1 .. Len(queue) -> Commands] /\ Len(queue) \in Nat
    OBVIOUS
  <1>2. queue[i] \in Commands
    BY <1>1
  <1>3. /\ queue'[i] = [queue[i] EXCEPT !.st = st]
        /\ \A k \in DOMAIN queue : k # i => queue'[k] = queue[k]
        /\ DOMAIN queue' = DOMAIN queue
    BY <1>1
  <1>4. queue'[i] \in Commands /\ queue'[i].st = st /\ queue'[i].key = queue[i].key
    BY <1>2, <1>3 DEF Commands
  <1>5. queue' \in [1 .. Len(queue) -> Commands]
    BY <1>1, <1>3, <1>4
  <1> QED BY <1>1, <1>3, <1>4, <1>5

\* A job that is done or has failed leaves every other one as it was.
LEMMA JobDropped ==
    ASSUME OdooInv, NEW i \in DOMAIN jobs, jobs' = RemoveAt(jobs, i), rec' = rec, reversed' = reversed,
           failed' \subseteq failed \union {jobs[i]}
    PROVE  OdooInv'
  <1>1. jobs \in Seq(Jobs)
    BY DEF OdooInv
  <1>2. /\ jobs' \in Seq(Jobs) /\ Len(jobs') = Len(jobs) - 1
        /\ \A k \in DOMAIN jobs' : jobs'[k] = IF k < i THEN jobs[k] ELSE jobs[k + 1]
    BY <1>1, RemoveAtFacts
  <1>3. \A k \in DOMAIN jobs' : \E n \in DOMAIN jobs : jobs'[k] = jobs[n]
    <2> SUFFICES ASSUME NEW k \in DOMAIN jobs'
                 PROVE  \E n \in DOMAIN jobs : jobs'[k] = jobs[n]
      OBVIOUS
    <2>1. k \in DOMAIN jobs /\ k + 1 \in DOMAIN jobs
      BY <1>1, <1>2
    <2> QED BY <1>2, <2>1
  <1>4. \A k \in DOMAIN jobs' : rec'[jobs'[k].cust].pay >= 1
    BY <1>3 DEF OdooInv
  <1>5. jobs[i] \in Jobs
    BY <1>1
  <1>6. failed' \subseteq Jobs /\ \A job \in failed' : rec'[job.cust].pay >= 1
    BY <1>5 DEF OdooInv
  <1> QED BY <1>2, <1>4, <1>6 DEF OdooInv

\* A job that is added is for a record bound to a payment.
LEMMA JobAdded ==
    ASSUME OdooInv, NEW c \in Customers, NEW a \in {"provision", "refund"},
           jobs' = Append(jobs, [cust |-> c, action |-> a]),
           rec' \in [Customers -> [state : {Nothing, "provisioning", "active", "rejected",
                                            "refund_pending", "refunded"}, pay : 0..MaxPayments]],
           \A d \in Customers : rec'[d].pay >= rec[d].pay,
           rec'[c].pay >= 1,
           failed' \subseteq failed,
           reversed' \in [Customers -> SUBSET Payments]
    PROVE  OdooInv'
  <1> USE ParticipationAssumption
  <1> DEFINE j == [cust |-> c, action |-> a]
  <1>1. j \in Jobs /\ j.cust = c
    BY DEF Jobs
  <1>2. jobs \in Seq(Jobs) /\ \A k \in DOMAIN jobs : rec[jobs[k].cust].pay >= 1
    BY DEF OdooInv
  <1>3. \A k \in DOMAIN jobs : jobs[k].cust \in Customers
    <2>1. \A k \in DOMAIN jobs : jobs[k] \in Jobs
      BY <1>2
    <2> QED BY <2>1 DEF Jobs
  <1> HIDE DEF j
  <1>4. jobs' = Append(jobs, j)
    BY DEF j
  <1>5. /\ jobs' \in Seq(Jobs) /\ Len(jobs') = Len(jobs) + 1
        /\ \A k \in 1 .. Len(jobs) : jobs'[k] = jobs[k]
        /\ jobs'[Len(jobs) + 1] = j
    BY <1>1, <1>2, <1>4, AppendProperties
  <1>6. ASSUME NEW k \in DOMAIN jobs'
        PROVE  rec'[jobs'[k].cust].pay >= 1
    <2>1. CASE k = Len(jobs) + 1
      BY <1>1, <1>5, <2>1
    <2>2. CASE k # Len(jobs) + 1
      <3>1. k \in DOMAIN jobs
        BY <1>2, <1>5, <2>2
      <3>2. rec[jobs[k].cust].pay >= 1 /\ jobs[k].cust \in Customers
        BY <1>2, <1>3, <3>1
      <3>3. jobs'[k] = jobs[k]
        BY <1>2, <1>5, <3>1
      <3>4. rec[jobs[k].cust].pay \in Nat /\ rec'[jobs[k].cust].pay \in Nat
        BY <3>2 DEF OdooInv
      <3>5. rec'[jobs[k].cust].pay >= rec[jobs[k].cust].pay
        BY <3>2
      <3> QED BY <3>2, <3>3, <3>4, <3>5
    <2> QED BY <2>1, <2>2
  <1>7. failed' \subseteq Jobs
    BY DEF OdooInv
  <1>8. ASSUME NEW job \in failed'
        PROVE  rec'[job.cust].pay >= 1
    <2>1. job.cust \in Customers /\ rec[job.cust].pay >= 1
      BY <1>7 DEF OdooInv, Jobs
    <2>2. rec[job.cust].pay \in Nat /\ rec'[job.cust].pay \in Nat
      BY <2>1 DEF OdooInv
    <2> QED BY <2>1, <2>2
  <1> QED BY <1>5, <1>6, <1>7, <1>8 DEF OdooInv

\* Every step keeps Odoo's tables in order.
LEMMA OdooStep ==
    ASSUME OdooInv, QueueInv, [Next]_vars
    PROVE  OdooInv'
  <1> USE ParticipationAssumption
  <1>1. ASSUME NEW c \in Customers, Pay(c)
        PROVE  OdooInv'
    <2>1. /\ rec' \in [Customers -> [state : {Nothing, "provisioning", "active", "rejected",
                                              "refund_pending", "refunded"}, pay : 0..MaxPayments]]
          /\ rec'[c].pay = rec[c].pay + 1 /\ rec[c].pay \in Nat
          /\ \A d \in Customers : d # c => rec'[d] = rec[d]
      BY <1>1 DEF Pay, OdooInv
    <2>2. \A d \in Customers : rec'[d].pay >= rec[d].pay
      <3>1. \A d \in Customers : rec[d].pay \in Nat
        BY DEF OdooInv
      <3> QED BY <2>1, <3>1
    <2>3. jobs' = Append(jobs, [cust |-> c, action |-> "provision"]) /\ UNCHANGED <<reversed, failed>>
      BY <1>1 DEF Pay
    <2>4. reversed' \in [Customers -> SUBSET Payments]
      BY <2>3 DEF OdooInv
    <2>5. rec'[c].pay >= 1
      BY <2>1
    <2> QED BY <2>1, <2>2, <2>3, <2>4, <2>5, JobAdded
  <1>2. ASSUME NEW c \in Customers, NEW p \in Payments, ReversePayment(c, p)
        PROVE  OdooInv'
    <2>1. reversed' \in [Customers -> SUBSET Payments]
      BY <1>2 DEF ReversePayment, OdooInv
    <2>2. CASE UNCHANGED <<rec, jobs>>
      BY <1>2, <2>1, <2>2 DEF ReversePayment, OdooInv
    <2>3. CASE /\ rec' = [rec EXCEPT ![c].state = "refund_pending"]
               /\ jobs' = Append(jobs, [cust |-> c, action |-> "refund"])
      <3>1. rec[c].pay >= 1
        BY <1>2 DEF ReversePayment, OdooInv
      <3>2. /\ rec' \in [Customers -> [state : {Nothing, "provisioning", "active", "rejected",
                                               "refund_pending", "refunded"}, pay : 0..MaxPayments]]
            /\ \A d \in Customers : rec'[d].pay = rec[d].pay
        BY <2>3 DEF OdooInv
      <3>3. \A d \in Customers : rec'[d].pay >= rec[d].pay
        BY <3>2 DEF OdooInv
      <3>4. failed' = failed
        BY <1>2 DEF ReversePayment
      <3> QED BY <2>1, <2>3, <3>1, <3>2, <3>3, <3>4, JobAdded
    <2> QED BY <1>2, <2>2, <2>3 DEF ReversePayment
  <1>3. ASSUME NEW i \in DOMAIN jobs, RunJob(i)
        PROVE  OdooInv'
    BY <1>3, JobDropped DEF RunJob
  <1>4. ASSUME NEW i \in DOMAIN jobs, RunJobRefused(i)
        PROVE  OdooInv'
    BY <1>4, JobDropped DEF RunJobRefused
  <1>5. ASSUME NEW m \in outbox, Deliver(m)
        PROVE  OdooInv'
    <2>1. m.state \in Outcomes /\ m.key[1] \in Customers
      BY KeyFacts DEF QueueInv
    <2>2. UNCHANGED <<reversed, jobs, failed>>
      BY <1>5 DEF Deliver
    <2>3. CASE rec' = rec
      BY <2>2, <2>3 DEF OdooInv
    <2>4. CASE rec' = [rec EXCEPT ![m.key[1]].state = m.state]
      <3>1. rec' \in [Customers -> [state : {Nothing, "provisioning", "active", "rejected",
                                             "refund_pending", "refunded"}, pay : 0..MaxPayments]]
        BY <2>1, <2>4 DEF OdooInv, Outcomes
      <3>2. \A d \in Customers : rec'[d].pay = rec[d].pay
        BY <2>1, <2>4 DEF OdooInv
      <3>3. \A k \in DOMAIN jobs : jobs[k].cust \in Customers
        BY ElementFacts
      <3>4. \A job \in failed : job.cust \in Customers
        BY DEF OdooInv, Jobs
      <3> QED BY <2>2, <3>1, <3>2, <3>3, <3>4 DEF OdooInv
    <2> QED BY <1>5, <2>3, <2>4 DEF Deliver
  <1>6. CASE UNCHANGED odooVars
    BY <1>6 DEF odooVars, OdooInv
  <1>7. ASSUME NEW i \in DOMAIN jobs, JobFails(i)
        PROVE  OdooInv'
    BY <1>7, JobDropped DEF JobFails
  <1>8. ASSUME NEW job \in failed, Requeue(job)
        PROVE  OdooInv'
    <2>1. job \in Jobs /\ rec[job.cust].pay >= 1
      BY DEF OdooInv
    <2>2. /\ job.cust \in Customers /\ job.action \in {"provision", "refund"}
          /\ job = [cust |-> job.cust, action |-> job.action]
      BY <2>1 DEF Jobs
    <2>3. jobs' = Append(jobs, [cust |-> job.cust, action |-> job.action])
      BY <1>8, <2>2 DEF Requeue
    <2>4. rec' = rec /\ reversed' = reversed /\ failed' \subseteq failed
      BY <1>8 DEF Requeue
    <2>5. \A d \in Customers : rec'[d].pay >= rec[d].pay
      BY <2>4 DEF OdooInv
    <2>6. /\ rec' \in [Customers -> [state : {Nothing, "provisioning", "active", "rejected",
                                              "refund_pending", "refunded"}, pay : 0..MaxPayments]]
          /\ reversed' \in [Customers -> SUBSET Payments]
      BY <2>4 DEF OdooInv
    <2>7. rec'[job.cust].pay >= 1
      BY <2>1, <2>4
    <2> QED BY <2>2, <2>3, <2>4, <2>5, <2>6, <2>7, JobAdded
  <1> QED
    BY <1>1, <1>2, <1>3, <1>4, <1>5, <1>6, <1>7, <1>8
       DEF Next, Odoo, Dispatch, Worker, Handle, Settle, HandlerFails, Crash, LeaseExpires, CloseAdmission, vars, odooVars

\* Every step keeps the Game's queue and outbox in order.
LEMMA QueueStep ==
    ASSUME OdooInv, QueueInv, WorkInv, [Next]_vars
    PROVE  QueueInv'
  <1> USE ParticipationAssumption
  <1>1. ASSUME NEW i \in DOMAIN jobs, RunJob(i) \/ JobFails(i)
        PROVE  QueueInv'
    <2> DEFINE key == Key(jobs[i])
    <2>1. key \in Keys
      <3>1. jobs[i].cust \in Customers /\ jobs[i].action \in {"provision", "refund"}
        BY ElementFacts
      <3>2. rec[jobs[i].cust].pay \in Payments
        BY <3>1 DEF OdooInv, Payments
      <3> QED BY <3>1, <3>2 DEF Key, Keys
    <2>2. [key |-> key, st |-> "pending"] \in Commands
      BY <2>1 DEF Commands
    <2>3. queue' \in Seq(Commands)
      BY <1>1, <2>2, SMTT(30) DEF RunJob, JobFails, QueueInv
    <2>4. received' \subseteq Keys
      BY <1>1, <2>1 DEF RunJob, JobFails, QueueInv
    <2>5. faults' \in 0..MaxFaults
      BY <1>1 DEF RunJob, JobFails, QueueInv, Fault
    <2>6. UNCHANGED <<outbox, open>>
      BY <1>1 DEF RunJob, JobFails, gameVars
    <2> QED BY <2>3, <2>4, <2>5, <2>6 DEF QueueInv
  <1>2. ASSUME NEW i \in DOMAIN queue, Handle(i)
        PROVE  QueueInv'
    <2>1. queue' \in Seq(Commands)
      BY <1>2, StatusChanged DEF Handle, QueueInv
    <2>2. UNCHANGED <<received, outbox, faults, open>>
      BY <1>2 DEF Handle, Replay, Provision, Refund, gameVars
    <2> QED BY <2>1, <2>2 DEF QueueInv
  <1>3. ASSUME NEW i \in DOMAIN queue, Settle(i)
        PROVE  QueueInv'
    <2>1. queue' \in Seq(Commands)
      BY <1>3, RemoveAtFacts DEF Settle, QueueInv
    <2>2. current \subseteq [key : Keys, state : Outcomes]
      BY ElementFacts DEF WorkInv, Result
    <2>3. outbox' \subseteq [key : Keys, state : Outcomes]
      BY <1>3, <2>2 DEF Settle, QueueInv
    <2>4. UNCHANGED <<received, faults, open>>
      BY <1>3 DEF Settle, gameVars
    <2> QED BY <2>1, <2>3, <2>4 DEF QueueInv
  <1>4. ASSUME NEW i \in DOMAIN queue, HandlerFails(i)
        PROVE  QueueInv'
    <2>1. queue' \in Seq(Commands)
      BY <1>4, RemoveAtFacts DEF HandlerFails, QueueInv
    <2>2. Result(queue[i].key, "rejected") \in [key : Keys, state : Outcomes]
      BY ElementFacts DEF Result, Outcomes
    <2>3. outbox' \subseteq [key : Keys, state : Outcomes]
      BY <1>4, <2>2 DEF HandlerFails, QueueInv
    <2>4. faults' \in 0..MaxFaults
      BY <1>4 DEF HandlerFails, QueueInv, Fault
    <2>5. UNCHANGED <<received, open>>
      BY <1>4 DEF HandlerFails, gameVars
    <2> QED BY <2>1, <2>3, <2>4, <2>5 DEF QueueInv
  <1>5. ASSUME NEW i \in DOMAIN queue, Crash(i)
        PROVE  QueueInv'
    <2>1. queue' \in Seq(Commands)
      BY <1>5, StatusChanged DEF Crash, QueueInv
    <2>2. faults' \in 0..MaxFaults
      BY <1>5 DEF Crash, QueueInv, Fault
    <2>3. UNCHANGED <<received, outbox, open>>
      BY <1>5 DEF Crash, gameVars
    <2> QED BY <2>1, <2>2, <2>3 DEF QueueInv
  <1>6. ASSUME NEW i \in DOMAIN queue, LeaseExpires(i)
        PROVE  QueueInv'
    <2>1. queue' \in Seq(Commands)
      BY <1>6, StatusChanged DEF LeaseExpires, QueueInv
    <2>2. UNCHANGED <<received, outbox, open, faults>>
      BY <1>6 DEF LeaseExpires, gameVars
    <2> QED BY <2>1, <2>2 DEF QueueInv
  <1>7. ASSUME NEW m \in outbox, Deliver(m)
        PROVE  QueueInv'
    BY <1>7 DEF Deliver, QueueInv, gameVars
  <1>8. CASE CloseAdmission
    BY <1>8 DEF CloseAdmission, QueueInv
  <1>9. CASE UNCHANGED <<received, queue, outbox, open, faults>>
    BY <1>9 DEF QueueInv
  <1> QED
    BY <1>1, <1>2, <1>3, <1>4, <1>5, <1>6, <1>7, <1>8, <1>9
       DEF Next, Odoo, Dispatch, Worker, Pay, ReversePayment, RunJobRefused, Requeue, vars, gameVars

\* The handler has an outcome for the command it is given.
LEMMA HandlerFacts ==
    ASSUME PartInv, NEW k \in Keys, Replay(k) \/ Provision(k) \/ Refund(k)
    PROVE  \E s \in Outcomes : current' = {Result(k, s)}
  <1>1. CASE Replay(k)
    <2>1. k # <<>> /\ k[1] \in Customers
      BY KeyFacts
    <2>2. part[k[1]].state \in Outcomes
      BY <1>1, <2>1 DEF Replay, PartInv, Outcomes, Nothing
    <2> QED BY <1>1, <2>2 DEF Replay
  <1>2. CASE Provision(k)
    BY <1>2 DEF Provision, Outcomes
  <1>3. CASE Refund(k)
    BY <1>3 DEF Refund, Outcomes
  <1> QED BY <1>1, <1>2, <1>3

\* A command that leaves the queue was the one worked on, or none is.
LEMMA CommandDropped ==
    ASSUME QueueInv, NEW i \in DOMAIN queue, queue' = RemoveAt(queue, i),
           \A j \in DOMAIN queue : queue[j].st = "working" => j = i,
           current' = {}
    PROVE  WorkInv'
  <1>1. queue \in Seq(Commands)
    BY DEF QueueInv
  <1>2. /\ queue' \in Seq(Commands) /\ Len(queue') = Len(queue) - 1
        /\ \A k \in DOMAIN queue' : queue'[k] = IF k < i THEN queue[k] ELSE queue[k + 1]
    BY <1>1, RemoveAtFacts
  <1>3. ASSUME NEW k \in DOMAIN queue' PROVE queue'[k].st # "working"
    <2>1. /\ k \in DOMAIN queue /\ k + 1 \in DOMAIN queue
          /\ i \in Nat /\ k \in Nat
      BY <1>1, <1>2
    <2>2. CASE k < i
      BY <1>2, <2>1, <2>2
    <2>3. CASE ~(k < i)
      <3>1. k + 1 # i
        BY <2>1, <2>3
      <3> QED BY <1>2, <2>1, <2>3, <3>1
    <2> QED BY <2>2, <2>3
  <1> QED BY <1>3 DEF WorkInv

\* Every step leaves the worker with at most one command and its result.
LEMMA WorkStep ==
    ASSUME OdooInv, QueueInv, WorkInv, PartInv, [Next]_vars
    PROVE  WorkInv'
  <1>0. queue \in Seq(Commands) /\ Len(queue) \in Nat
    BY DEF QueueInv
  <1>1. ASSUME NEW key, current' = current, queue' = Append(queue, [key |-> key, st |-> "pending"])
        PROVE  WorkInv'
    <2> DEFINE new == [key |-> key, st |-> "pending"]
    <2>1. /\ queue' = Append(queue, new) /\ current' = current
          /\ new.st # "working"
      BY <1>1
    <2> HIDE DEF new
    <2>2. /\ Len(queue') = Len(queue) + 1 /\ DOMAIN queue' = 1 .. Len(queue) + 1
          /\ DOMAIN queue = 1 .. Len(queue)
          /\ \A k \in DOMAIN queue : queue'[k] = queue[k]
          /\ queue'[Len(queue) + 1] = new
      BY <1>0, <2>1
    <2>3. \A k \in DOMAIN queue' : k \in DOMAIN queue \/ queue'[k].st # "working"
      BY <1>0, <2>1, <2>2
    <2>4. DOMAIN queue \subseteq DOMAIN queue'
      BY <1>0, <2>2
    <2>5. CASE current = {} /\ \A k \in DOMAIN queue : queue[k].st # "working"
      BY <2>1, <2>2, <2>3, <2>5 DEF WorkInv
    <2>6. ASSUME NEW k \in DOMAIN queue, NEW s \in Outcomes, queue[k].st = "working",
                 current = {Result(queue[k].key, s)},
                 \A j \in DOMAIN queue : queue[j].st = "working" => j = k
          PROVE  WorkInv'
      <3>1. k \in DOMAIN queue' /\ queue'[k] = queue[k]
        BY <2>2, <2>4
      <3>2. \A j \in DOMAIN queue' : queue'[j].st = "working" => j = k
        BY <2>2, <2>3, <2>6
      <3>3. current' = {Result(queue'[k].key, s)}
        BY <2>1, <2>6, <3>1
      <3> QED BY <2>6, <3>1, <3>2, <3>3 DEF WorkInv
    <2> QED BY <2>5, <2>6 DEF WorkInv
  <1>2. ASSUME NEW i \in DOMAIN queue, Handle(i)
        PROVE  WorkInv'
    <2>1. PICK s \in Outcomes : current' = {Result(queue[i].key, s)}
      BY <1>2, ElementFacts, HandlerFacts DEF Handle
    <2>2. \A k \in DOMAIN queue : queue[k].st # "working"
      BY <1>2 DEF Handle, WorkInv, Result
    <2>3. /\ DOMAIN queue' = DOMAIN queue
          /\ queue'[i].st = "working" /\ queue'[i].key = queue[i].key
          /\ \A k \in DOMAIN queue : k # i => queue'[k] = queue[k]
      BY <1>0, <1>2, StatusChanged DEF Handle
    <2>4. \A k \in DOMAIN queue' : queue'[k].st = "working" => k = i
      BY <2>2, <2>3
    <2>5. current' = {Result(queue'[i].key, s)}
      BY <2>1, <2>3
    <2> QED BY <2>3, <2>4, <2>5 DEF WorkInv
  <1>3. ASSUME NEW i \in DOMAIN queue, Settle(i)
        PROVE  WorkInv'
    <2>1. \A k \in DOMAIN queue : queue[k].st = "working" => k = i
      BY <1>3 DEF Settle, WorkInv
    <2> QED BY <1>3, <2>1, CommandDropped DEF Settle
  <1>4. ASSUME NEW i \in DOMAIN queue, HandlerFails(i)
        PROVE  WorkInv'
    <2>1. \A k \in DOMAIN queue : queue[k].st # "working"
      BY <1>4 DEF HandlerFails, WorkInv
    <2> QED BY <1>4, <2>1, CommandDropped DEF HandlerFails
  <1>5. ASSUME NEW i \in DOMAIN queue, Crash(i)
        PROVE  WorkInv'
    <2>1. \A k \in DOMAIN queue : queue[k].st = "working" => k = i
      BY <1>5 DEF Crash, WorkInv
    <2>2. /\ DOMAIN queue' = DOMAIN queue /\ queue'[i].st = "leased"
          /\ \A k \in DOMAIN queue : k # i => queue'[k] = queue[k]
      BY <1>0, <1>5, StatusChanged DEF Crash
    <2> QED BY <1>5, <2>1, <2>2 DEF Crash, WorkInv
  <1>6. ASSUME NEW i \in DOMAIN queue, LeaseExpires(i)
        PROVE  WorkInv'
    <2>1. queue[i].st # "working" /\ current' = current
      BY <1>6 DEF LeaseExpires
    <2>2. /\ DOMAIN queue' = DOMAIN queue /\ queue'[i].st = "pending"
          /\ \A k \in DOMAIN queue : k # i => queue'[k] = queue[k]
      BY <1>0, <1>6, StatusChanged DEF LeaseExpires
    <2>3. \A k \in DOMAIN queue : queue'[k].st = "working" => queue[k].st = "working"
      BY <2>2
    <2>4. \A k \in DOMAIN queue : queue[k].st = "working" => queue'[k] = queue[k]
      BY <2>1, <2>2
    <2> QED BY <2>1, <2>2, <2>3, <2>4 DEF WorkInv
  <1>7. CASE UNCHANGED <<queue, current>>
    BY <1>7 DEF WorkInv
  <1> QED
    BY <1>1, <1>2, <1>3, <1>4, <1>5, <1>6, <1>7
       DEF Next, Odoo, Dispatch, Worker, Pay, ReversePayment, RunJob, JobFails, RunJobRefused, Requeue, Deliver, CloseAdmission, vars

\* Only the handler touches the participations, one at a time, and no handler admits
\* a customer for whom there is no place.
LEMMA PartStep ==
    ASSUME OdooInv, QueueInv, PartInv, CapacityRespected, [Next]_vars
    PROVE  PartInv' /\ CapacityRespected'
  <1>1. ASSUME NEW i \in DOMAIN queue, Handle(i)
        PROVE  PartInv' /\ CapacityRespected'
    <2> DEFINE k == queue[i].key
               c == k[1]
    <2>0. k \in Keys
      BY ElementFacts
    <2>1. k \in Keys /\ k # <<>> /\ c \in Customers
      BY <2>0, KeyFacts
    <2>2. Replay(k) \/ Provision(k) \/ Refund(k)
      BY <1>1 DEF Handle
    <2> HIDE DEF k
    <2>3. CASE UNCHANGED <<part, access>>
      BY <2>3, NobodyAdmitted DEF PartInv
    <2>4. ASSUME NEW s \in Outcomes, part' = [part EXCEPT ![c] = [state |-> s, key |-> k]]
          PROVE  /\ part' \in [Customers -> [state : {Nothing} \cup Outcomes, key : Keys \cup {<<>>}]]
                 /\ \A d \in Customers : part'[d].key # <<>> => part'[d].state # Nothing
                 /\ part'[c].state = s
                 /\ \A d \in Customers \ {c} : part'[d] = part[d]
      <3>1. [state |-> s, key |-> k] \in [state : {Nothing} \cup Outcomes, key : Keys \cup {<<>>}]
        BY <2>1
      <3>2. s # Nothing
        BY DEF Outcomes, Nothing
      <3>3. part'[c] = [state |-> s, key |-> k] /\ \A d \in Customers \ {c} : part'[d] = part[d]
        BY <2>1, <2>4 DEF PartInv
      <3>4. part' \in [Customers -> [state : {Nothing} \cup Outcomes, key : Keys \cup {<<>>}]]
        BY <2>1, <2>4, <3>1 DEF PartInv
      <3> QED BY <3>2, <3>3, <3>4 DEF PartInv
    <2>5. access' \in [Customers -> {Nothing, "active", "revoked"}]
      BY <2>1, <2>2 DEF Replay, Provision, Refund, PartInv, gameVars
    <2>6. CASE Provision(k) /\ Admissible(c)
      <3>1. part' = [part EXCEPT ![c] = [state |-> "active", key |-> k]]
        BY <2>6 DEF Provision
      <3>2. "active" \in Outcomes
        BY DEF Outcomes
      <3> QED BY <2>1, <2>4, <2>5, <2>6, <3>1, <3>2, OneAdmitted DEF PartInv
    <2>7. ASSUME NEW s \in {"rejected", "refunded"}, part' = [part EXCEPT ![c] = [state |-> s, key |-> k]]
          PROVE  PartInv' /\ CapacityRespected'
      <3>1. s \in Outcomes /\ s # "active"
        BY DEF Outcomes
      <3>2. \A d \in Customers : part'[d].state = "active" => part[d].state = "active"
        BY <2>4, <2>7, <3>1
      <3> QED BY <2>4, <2>5, <2>7, <3>1, <3>2, NobodyAdmitted DEF PartInv
    <2> QED BY <2>2, <2>3, <2>6, <2>7 DEF Replay, Provision, Refund, gameVars
  <1>2. CASE UNCHANGED <<part, access>>
    BY <1>2, NobodyAdmitted DEF PartInv
  <1> QED
    BY <1>1, <1>2
       DEF Next, Odoo, Dispatch, Worker, Pay, ReversePayment, RunJob, JobFails, RunJobRefused, Requeue, Settle, HandlerFails, Crash,
           LeaseExpires, Deliver, CloseAdmission, vars, gameVars

\* The initial state satisfies the invariant.
LEMMA InitParticipation == Init => ParticipationInv
  <1> SUFFICES ASSUME Init PROVE ParticipationInv
    OBVIOUS
  <1> USE ParticipationAssumption
  <1>1. OdooInv
    BY DEF Init, OdooInv, Jobs
  <1>2. QueueInv
    BY DEF Init, QueueInv
  <1>3. WorkInv
    BY DEF Init, WorkInv
  <1>4. PartInv
    BY DEF Init, PartInv
  <1>5. {c \in Customers : part[c].state = "active"} = {}
    BY DEF Init, Nothing
  <1>6. CapacityRespected
    BY <1>5, FS_EmptySet DEF CapacityRespected
  <1> QED BY <1>1, <1>2, <1>3, <1>4, <1>6 DEF ParticipationInv

-----------------------------------------------------------------------------
(* Theorems. *)

\* In every reachable state a job belongs to a bound record, the worker has the result of
\* the one command it works on, and no participation without a command is there.
THEOREM ParticipationInductive == Spec => []ParticipationInv
  <1>1. ParticipationInv /\ [Next]_vars => ParticipationInv'
    BY OdooStep, QueueStep, WorkStep, PartStep DEF ParticipationInv
  <1> QED BY <1>1, InitParticipation, PTL DEF Spec

\* Whatever Odoo pays, reverses, dispatches and repeats, and wherever the worker crashes,
\* every table keeps its type and the worker holds exactly the result of its command.
THEOREM ParticipationTypeCorrect == Spec => []TypeOK
  <1>1. ParticipationInv => TypeOK
    <2> SUFFICES ASSUME ParticipationInv PROVE TypeOK
      OBVIOUS
    <2> USE DEF ParticipationInv
    <2>1. /\ Cardinality({i \in DOMAIN queue : queue[i].st = "working"}) = Cardinality(current)
          /\ \A i \in DOMAIN queue, r \in current : queue[i].st = "working" => queue[i].key = r.key
      <3> DEFINE W == {i \in DOMAIN queue : queue[i].st = "working"}
      <3>1. CASE current = {} /\ \A i \in DOMAIN queue : queue[i].st # "working"
        <4>1. W = {}
          BY <3>1
        <4> QED BY <3>1, <4>1
      <3>2. ASSUME NEW i \in DOMAIN queue, NEW s \in Outcomes, queue[i].st = "working",
                   current = {Result(queue[i].key, s)},
                   \A j \in DOMAIN queue : queue[j].st = "working" => j = i
            PROVE  Cardinality(W) = Cardinality(current)
                   /\ \A j \in DOMAIN queue, r \in current : queue[j].st = "working" => queue[j].key = r.key
        <4>1. W = {i}
          BY <3>2
        <4>2. Cardinality({i}) = 1 /\ Cardinality({Result(queue[i].key, s)}) = 1
          BY FS_Singleton
        <4>3. Result(queue[i].key, s).key = queue[i].key
          BY DEF Result
        <4> HIDE DEF W
        <4> QED BY <3>2, <4>1, <4>2, <4>3
      <3> QED BY <3>1, <3>2 DEF WorkInv
    <2>2. \A c \in Customers : /\ part[c].state \in {Nothing, "active", "rejected", "refunded"}
                               /\ access[c] \in {Nothing, "active", "revoked"}
      BY DEF PartInv, Outcomes
    <2> QED BY <2>1, <2>2 DEF TypeOK, OdooInv, QueueInv, Outcomes, Jobs, Commands
  <1> QED BY <1>1, ParticipationInductive, PTL

\* No interleaving of payments, refunds, retries, lost answers and crashes gives away more
\* places than the world has: the capacity check and the write are one transaction.
THEOREM PlacesNeverOversold == Spec => []CapacityRespected
  <1>1. ParticipationInv => CapacityRespected
    BY DEF ParticipationInv
  <1> QED BY <1>1, ParticipationInductive, PTL
=============================================================================
