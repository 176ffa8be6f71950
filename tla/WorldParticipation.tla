------------------------- MODULE WorldParticipation -------------------------
(***************************************************************************)
(* A paid place in a game world, from the invoice in Odoo to the access in *)
(* the Game and back:                                                      *)
(*   odoo/addons/zugfolge_admin/models/{account_move,participation}.py,    *)
(*   the command queue of packages/commerce/src/store.ts,                  *)
(*   apps/game-api/src/odoo-world-participation.ts (the handler) and       *)
(*   the outbox that returns its result to Odoo.                           *)
(*                                                                         *)
(* The queue is the one of OdooCommands, reduced to what this protocol can *)
(* tell: a command waits, is worked on by the one worker, or waits for the *)
(* lease of an attempt that died, with or without its effect.              *)
(***************************************************************************)
EXTENDS Naturals, Sequences, FiniteSets, SequencesExt

CONSTANTS
    Customers,      \* Keycloak subjects with a portal profile
    Capacity,       \* blueprint.admission.capacity
    MaxPayments,    \* bound: invoices a customer pays for the world
    MaxFaults,      \* bound: crashes, lost requests and answers, technical errors
    Overtaking      \* may queue_job run a job before an older one?

ASSUME ParticipationAssumption ==
    /\ IsFiniteSet(Customers)
    /\ Capacity \in Nat /\ MaxPayments \in Nat /\ MaxFaults \in Nat
    /\ Overtaking \in BOOLEAN

Payments == 1..MaxPayments
Nothing == "nothing"

VARIABLES
    rec,        \* Odoo: zugfolge.world.participation of each customer
    reversed,   \* Odoo: the customer's payments that have been reversed
    jobs,       \* Odoo: queue_job dispatches, oldest first
    failed,     \* Odoo: dispatches that have failed and stay so until somebody requeues them
    received,   \* Game: receipts of the events <<customer, payment, action>>
    queue,      \* Game: the commands not settled yet, oldest first
    current,    \* Game: the result of the command being worked on, if any
    part,       \* Game: world_participations
    access,     \* Game: world_accesses
    open,       \* Game: the world admits participants
    outbox,     \* Game: results Odoo has not accepted
    grants,     \* how often a payment has turned the access of its customer on
    faults

odooVars == <<rec, reversed, jobs, failed>>
gameVars == <<part, access, open, grants>>
vars == <<odooVars, received, queue, current, gameVars, outbox, faults>>

Init ==
    /\ rec = [c \in Customers |-> [state |-> Nothing, pay |-> 0]]
    /\ reversed = [c \in Customers |-> {}]
    /\ jobs = <<>>
    /\ failed = {}
    /\ received = {}
    /\ queue = <<>>
    /\ current = {}
    /\ part = [c \in Customers |-> [state |-> Nothing, key |-> <<>>]]
    /\ access = [c \in Customers |-> Nothing]
    /\ open = TRUE
    /\ outbox = {}
    /\ grants = [c \in Customers |-> [p \in Payments |-> 0]]
    /\ faults = 0

Fault == faults < MaxFaults /\ faults' = faults + 1

(***************************************************************************)
(* Odoo: _sync_zugfolge_world_participation and the dispatching jobs       *)
(***************************************************************************)

\* A new invoice is paid.  An active participation makes the hook raise; any
\* other one is rebound to the new payment and provisioned again.
Pay(c) ==
    /\ rec[c].pay < MaxPayments /\ rec[c].state # "active"
    /\ rec' = [rec EXCEPT ![c] = [state |-> "provisioning", pay |-> @.pay + 1]]
    /\ jobs' = Append(jobs, [cust |-> c, action |-> "provision"])
    /\ UNCHANGED <<reversed, failed, received, queue, current, gameVars, outbox, faults>>

\* A payment is reversed or a credit note is written; the hooks run again whenever
\* one of the two moves on.  The participation is found by customer and world,
\* whatever payment it is bound to by then.
ReversePayment(c, p) ==
    /\ p \in 1..rec[c].pay
    /\ reversed' = [reversed EXCEPT ![c] = @ \union {p}]
    /\ IF rec[c].state \in {"refund_pending", "refunded"}
       THEN UNCHANGED <<rec, jobs>>
       ELSE /\ rec' = [rec EXCEPT ![c].state = "refund_pending"]
            /\ jobs' = Append(jobs, [cust |-> c, action |-> "refund"])
    /\ UNCHANGED <<failed, received, queue, current, gameVars, outbox, faults>>

\* _dispatch builds the command when the job runs, from the record as it is then.
Key(job) == <<job.cust, rec[job.cust].pay, job.action>>

Runs(i) == i = 1 \/ Overtaking

\* The Game has seen no command of this key: it is queued.
RunJob(i) ==
    /\ Runs(i) /\ Key(jobs[i]) \notin received
    /\ received' = received \union {Key(jobs[i])}
    /\ queue' = Append(queue, [key |-> Key(jobs[i]), st |-> "pending"])
    /\ jobs' = RemoveAt(jobs, i)
    /\ UNCHANGED <<rec, reversed, failed, current, gameVars, outbox, faults>>

\* The request or its answer is lost.  The error is no RetryableJobError: the job has
\* failed, whether the Game has the command or not.
JobFails(i) ==
    /\ Runs(i) /\ Fault
    /\ \/ UNCHANGED <<received, queue>>
       \/ /\ Key(jobs[i]) \notin received
          /\ received' = received \union {Key(jobs[i])}
          /\ queue' = Append(queue, [key |-> Key(jobs[i]), st |-> "pending"])
    /\ jobs' = RemoveAt(jobs, i) /\ failed' = failed \union {jobs[i]}
    /\ UNCHANGED <<rec, reversed, current, gameVars, outbox>>

\* A second delivery carries a new requestedAt under the same event ID: the
\* receiver refuses it, and the job has failed.
RunJobRefused(i) ==
    /\ Runs(i) /\ Key(jobs[i]) \in received
    /\ jobs' = RemoveAt(jobs, i) /\ failed' = failed \union {jobs[i]}
    /\ UNCHANGED <<rec, reversed, received, queue, current, gameVars, outbox, faults>>

\* Somebody looks into queue_job and has a failed job run again.
Requeue(job) ==
    /\ failed' = failed \ {job}
    /\ jobs' = Append(jobs, job)
    /\ UNCHANGED <<rec, reversed, received, queue, current, gameVars, outbox, faults>>

(***************************************************************************)
(* Game: the handler, one transaction under the lock of the world          *)
(***************************************************************************)

Result(key, state) == [key |-> key, state |-> state]

Occupied(c) == {d \in Customers \ {c} : part[d].state \in {"provisioning", "active"}}

\* A plausible mistake: a customer who already has a row needs no free place.
AdmissibleAgain(c) ==
    open /\ (part[c].state # Nothing \/ Cardinality(Occupied(c)) < Capacity)

Admissible(c) == open /\ Cardinality(Occupied(c)) < Capacity

\* The last command of this key has been applied: its outcome is repeated.
Replay(key) ==
    /\ part[key[1]].key = key
    /\ current' = {Result(key, part[key[1]].state)}
    /\ UNCHANGED gameVars

Provision(key) ==
    LET c == key[1] IN
    /\ key[3] = "provision" /\ part[c].key # key
    /\ \/ /\ Admissible(c)
          /\ part' = [part EXCEPT ![c] = [state |-> "active", key |-> key]]
          /\ access' = [access EXCEPT ![c] = "active"]
          /\ grants' = [grants EXCEPT ![c][key[2]] = @ + IF access[c] = "active" THEN 0 ELSE 1]
          /\ current' = {Result(key, "active")}
       \/ /\ ~Admissible(c)
          /\ part' = [part EXCEPT ![c] = [state |-> "rejected", key |-> key]]
          /\ current' = {Result(key, "rejected")}
          /\ UNCHANGED <<access, grants>>
    /\ UNCHANGED open

Refund(key) ==
    LET c == key[1] IN
    /\ key[3] = "refund" /\ part[c].key # key
    /\ \/ /\ part[c].state = Nothing
          /\ current' = {Result(key, "rejected")}
          /\ UNCHANGED <<part, access>>
       \/ /\ part[c].state # Nothing
          /\ part' = [part EXCEPT ![c] = [state |-> "refunded", key |-> key]]
          /\ access' = [access EXCEPT ![c] = IF @ = "active" THEN "revoked" ELSE @]
          /\ current' = {Result(key, "refunded")}
    /\ UNCHANGED <<open, grants>>

\* Phase, profile or life cycle of the world end its admission.
CloseAdmission ==
    /\ open /\ open' = FALSE
    /\ UNCHANGED <<odooVars, received, queue, current, part, access, grants, outbox, faults>>

(***************************************************************************)
(* Game: the worker of the command queue                                   *)
(***************************************************************************)

\* Position i holds the oldest command that may be claimed.
Oldest(i) == queue[i].st = "pending" /\ \A j \in 1..(i - 1) : queue[j].st # "pending"

Handle(i) ==
    /\ current = {} /\ Oldest(i)
    /\ queue' = [queue EXCEPT ![i].st = "working"]
    /\ Replay(queue[i].key) \/ Provision(queue[i].key) \/ Refund(queue[i].key)
    /\ UNCHANGED <<odooVars, received, outbox, faults>>

\* A plausible mistake: only a success is worth a message.
SettleForgetsResult(i) ==
    /\ queue[i].st = "working"
    /\ queue' = RemoveAt(queue, i)
    /\ outbox' = outbox \union {r \in current : r.state # "rejected"}
    /\ current' = {}
    /\ UNCHANGED <<odooVars, received, gameVars, faults>>

\* A plausible mistake: the outcome is still there when the next command is claimed.
SettleKeepsResult(i) ==
    /\ queue[i].st = "working"
    /\ queue' = RemoveAt(queue, i)
    /\ outbox' = outbox \union current
    /\ UNCHANGED <<odooVars, received, current, gameVars, faults>>

\* Queue row and result in one transaction.
Settle(i) ==
    /\ queue[i].st = "working"
    /\ queue' = RemoveAt(queue, i)
    /\ outbox' = outbox \union current
    /\ current' = {}
    /\ UNCHANGED <<odooVars, received, gameVars, faults>>

\* The handler fails technically; the command is settled as rejected.
HandlerFails(i) ==
    /\ current = {} /\ Oldest(i) /\ Fault
    /\ queue' = RemoveAt(queue, i)
    /\ outbox' = outbox \union {Result(queue[i].key, "rejected")}
    /\ UNCHANGED <<odooVars, received, current, gameVars>>

\* The worker dies with a command claimed, before or after the handler's commit.
Crash(i) ==
    /\ queue[i].st = "working" \/ (current = {} /\ Oldest(i))
    /\ Fault
    /\ queue' = [queue EXCEPT ![i].st = "leased"]
    /\ current' = {}
    /\ UNCHANGED <<odooVars, received, gameVars, outbox>>

LeaseExpires(i) ==
    /\ queue[i].st = "leased"
    /\ queue' = [queue EXCEPT ![i].st = "pending"]
    /\ UNCHANGED <<odooVars, received, current, gameVars, outbox, faults>>

(***************************************************************************)
(* Odoo: ingest of world.participation.result                              *)
(***************************************************************************)

Required(action) == IF action = "provision" THEN "provisioning" ELSE "refund_pending"

\* A result of an earlier payment names a correlation the record no longer has
\* and is accepted without effect.  Any other one must fit the record's state.
Deliver(m) ==
    LET c == m.key[1] IN
    /\ m.key[2] = rec[c].pay => rec[c].state = Required(m.key[3])
    /\ rec' = IF m.key[2] = rec[c].pay THEN [rec EXCEPT ![c].state = m.state] ELSE rec
    /\ outbox' = outbox \ {m}
    /\ UNCHANGED <<reversed, jobs, failed, received, queue, current, gameVars, faults>>

(***************************************************************************)
(* Specification                                                           *)
(***************************************************************************)

Dispatch(c, a) ==
    \E i \in DOMAIN jobs : /\ jobs[i] = [cust |-> c, action |-> a]
                           /\ RunJob(i) \/ RunJobRefused(i) \/ JobFails(i)

Odoo ==
    \/ \E c \in Customers : Pay(c) \/ \E p \in Payments : ReversePayment(c, p)
    \/ \E c \in Customers, a \in {"provision", "refund"} : Dispatch(c, a)
    \/ \E job \in failed : Requeue(job)

Worker == \E i \in DOMAIN queue : Handle(i) \/ Settle(i)

Next ==
    \/ Odoo
    \/ Worker
    \/ \E i \in DOMAIN queue : HandlerFails(i) \/ Crash(i) \/ LeaseExpires(i)
    \/ \E m \in outbox : Deliver(m)
    \/ CloseAdmission

Spec == Init /\ [][Next]_vars

\* queue_job runs each of its jobs, with whatever success, the commerce cycle its commands,
\* leases run out, and the bridge tries every message again until Odoo accepts it.
\* Nobody has to look after a failed job.
FairSpec ==
    /\ Spec
    /\ \A c \in Customers, a \in {"provision", "refund"} : WF_vars(Dispatch(c, a))
    /\ WF_vars(Worker)
    /\ WF_vars(\E i \in DOMAIN queue : LeaseExpires(i))
    /\ \A c \in Customers, p \in Payments, a \in {"provision", "refund"},
          s \in {"active", "rejected", "refunded"} :
          WF_vars(Result(<<c, p, a>>, s) \in outbox /\ Deliver(Result(<<c, p, a>>, s)))

(***************************************************************************)
(* Properties                                                              *)
(***************************************************************************)

Keys == Customers \X Payments \X {"provision", "refund"}

\* Every variable keeps its type; the worker has a result exactly for the one
\* command it works on.
TypeOK ==
    /\ rec \in [Customers -> [state : {Nothing, "provisioning", "active", "rejected",
                                       "refund_pending", "refunded"}, pay : 0..MaxPayments]]
    /\ reversed \in [Customers -> SUBSET Payments]
    /\ jobs \in Seq([cust : Customers, action : {"provision", "refund"}])
    /\ failed \subseteq [cust : Customers, action : {"provision", "refund"}]
    /\ received \subseteq Keys
    /\ queue \in Seq([key : Keys, st : {"pending", "working", "leased"}])
    /\ Cardinality({i \in DOMAIN queue : queue[i].st = "working"}) = Cardinality(current)
    /\ \A i \in DOMAIN queue, r \in current : queue[i].st = "working" => queue[i].key = r.key
    /\ \A c \in Customers : /\ part[c].state \in {Nothing, "active", "rejected", "refunded"}
                            /\ access[c] \in {Nothing, "active", "revoked"}
    /\ outbox \subseteq [key : Keys, state : {"active", "rejected", "refunded"}]
    /\ open \in BOOLEAN /\ faults \in 0..MaxFaults

\* However payments, refunds, retries and crashes interleave, no more customers
\* hold a place than the world has (the capacity check under the world lock).
CapacityRespected ==
    Cardinality({c \in Customers : part[c].state = "active"}) <= Capacity

\* Nothing is on its way for the customer, and to run a failed job again is of no use.
Quiet(c) ==
    /\ \A i \in DOMAIN jobs : jobs[i].cust # c
    /\ \A job \in failed : job.cust = c => Key(job) \in received
    /\ \A i \in DOMAIN queue : queue[i].key[1] # c

\* Once everything on its way has been dealt with, a customer whose every payment
\* has been reversed has no access (the refund branch of account_move.py).
ReversedHasNoAccess ==
    \A c \in Customers : Quiet(c) /\ reversed[c] = 1..rec[c].pay => access[c] # "active"

\* ADR 0030: commands with the same payment key take effect at most once.
GrantedOnce ==
    \A c \in Customers, p \in Payments : grants[c][p] <= 1

\* Odoo's record waits for the answer to this command.
Waiting(k) == rec[k[1]].pay = k[2] /\ rec[k[1]].state = Required(k[3])

\* A provisioning or a refund that Odoo has begun ends (the state chain of
\* odoo-betrieb.md): a command the Game has taken is answered, even if its own job has
\* failed over a lost answer, and no other one waits without a failed job to show for it.
EveryRequestIsAnswered ==
    \A k \in Keys :
        /\ (\E i \in DOMAIN queue : queue[i].key = k) ~> ~Waiting(k)
        /\ Waiting(k) ~> ~Waiting(k) \/ \E job \in failed : job.cust = k[1] /\ job.action = k[3]

\* The same without the failed jobs (MCWorldParticipationWaits.cfg).
NoRequestIsLeft ==
    \A k \in Keys : Waiting(k) ~> ~Waiting(k)

\* Every result in the outbox is accepted by Odoo in the end.
ResultsArrive ==
    \A k \in Keys, s \in {"active", "rejected", "refunded"} :
        Result(k, s) \in outbox ~> Result(k, s) \notin outbox
=============================================================================
