---------------------------- MODULE OdooCommands ----------------------------
(***************************************************************************)
(* The Game side of the Odoo bridge: packages/commerce/src/store.ts with   *)
(* the commerce cycle of apps/game-api/src/server.ts.                      *)
(*                                                                         *)
(* Odoo posts signed commands; the receiver queues each of them once.  A   *)
(* cycle of a worker claims the oldest command that is pending or whose    *)
(* lease has run out, lets the handler of its kind work, and settles the   *)
(* command in one transaction with its result for Odoo.  Only when no      *)
(* command is left does the cycle send the results from the outbox.  A     *)
(* crash, a lost lease or a failing database may interrupt every step.     *)
(*                                                                         *)
(* One game world, the main world of the server.  Archiving it fences      *)
(* every later write of a row that names it (0032_world_writer_guard.sql). *)
(***************************************************************************)
EXTENDS Naturals, Sequences, FiniteSets

CONSTANTS
    Commands,       \* the commands Odoo sends
    Kind,           \* the kind of each command
    Foreign,        \* commands of a world this server is not responsible for
    Before,         \* pairs <<b, c>>: Odoo sends b before c
    Workers         \* processes running the commerce cycle

Kinds == {"admin", "close", "deploy", "participation", "entitlement", "demand"}
None == "none"

ASSUME CommandsAssumption ==
    /\ Kind \in [Commands -> Kinds]
    /\ Foreign \subseteq {c \in Commands : Kind[c] # "entitlement"}
    /\ Before \subseteq Commands \X Commands
    /\ None \notin Commands \union Workers

VARIABLES
    queue,      \* row of each command: status, holder of the claim, lease
    arrivals,   \* the commands in the order of their receivedAt
    request,    \* the persisted admin request of each command
    world,      \* life cycle of the main world
    effect,     \* has the handler's own transaction taken effect?
    results,    \* outcomes written to the outbox for each command
    sent,       \* how many of them have been delivered
    worker,     \* program counter and volatile state of each worker
    calm,       \* no further faults
    blind       \* history: rejected by an attempt that had not come to its request

vars == <<queue, arrivals, request, world, effect, results, sent, worker, calm, blind>>

Settled == {"completed", "rejected"}
AdminKinds == {"admin", "close", "deploy"}
Busy == {"claimed", "prepared", "handling", "applied", "settling", "sealing", "failed"}
Resting == [pc |-> "rest", cmd |-> None, bound |-> FALSE, done |-> FALSE, outcome |-> None]

(***************************************************************************)
(* State formulae                                                          *)
(***************************************************************************)

\* claimScope: the row is being processed under this worker's token.
Owns(w, c) == queue[c].status = "processing" /\ queue[c].holder = w

\* The trigger zugfolge_enforce_world_writer_guard refuses the row.
Fenced(c) == world = "archived" /\ Kind[c] # "entitlement" /\ c \notin Foreign

\* A plausible mistake: the command of a dead worker is nobody's.
EligiblePendingOnly(c) == queue[c].status = "pending"

Eligible(c) ==
    \/ queue[c].status = "pending"
    \/ queue[c].status = "processing" /\ queue[c].lease = "expired"

\* The oldest eligible row; None when the queue is drained.
Candidate ==
    LET open == {i \in DOMAIN arrivals : Eligible(arrivals[i])}
    IN  IF open = {} THEN None
        ELSE arrivals[CHOOSE i \in open : \A j \in open : i <= j]

Undelivered == {c \in Commands : sent[c] < Len(results[c])}

\* The result of an accepted world_close is bound to the global scope.
WorldUndelivered ==
    {c \in Undelivered : ~(Kind[c] = "close" /\ results[c] = <<"accepted">>)}

Row(status) == [status |-> status, holder |-> None, lease |-> None]
Held(w) == [status |-> "processing", holder |-> w, lease |-> "live"]

(***************************************************************************)
(* Init                                                                    *)
(***************************************************************************)

Init ==
    /\ queue = [c \in Commands |-> Row("absent")]
    /\ arrivals = <<>>
    /\ request = [c \in Commands |-> None]
    /\ world = IF \E c \in Commands : Kind[c] = "deploy" THEN "absent" ELSE "active"
    /\ effect = [c \in Commands |-> FALSE]
    /\ results = [c \in Commands |-> <<>>]
    /\ sent = [c \in Commands |-> 0]
    /\ worker = [w \in Workers |-> Resting]
    /\ calm = FALSE
    /\ blind = {}

(***************************************************************************)
(* Receiver and leases                                                     *)
(***************************************************************************)

\* OdooWebhookReceiptStore.receive: receipt and row in one transaction.  Only a
\* deployment and an entitlement need no world; a foreign row is historical,
\* accepted before the server was bound to its world.
Receive(c) ==
    /\ queue[c].status = "absent"
    /\ \A b \in Commands : <<b, c>> \in Before => queue[b].status # "absent"
    /\ Kind[c] \in {"deploy", "entitlement"} \/ c \in Foreign \/ world # "absent"
    /\ ~Fenced(c)
    /\ queue' = [queue EXCEPT ![c] = Row("pending")]
    /\ arrivals' = Append(arrivals, c)
    /\ UNCHANGED <<request, world, effect, results, sent, worker, calm, blind>>

\* claimExpiresAt passes.  Once the system is calm heartbeats keep the lease of
\* every command that a worker still holds.
LeaseExpires(c) ==
    /\ queue[c].status = "processing" /\ queue[c].lease = "live"
    /\ calm => \A w \in Workers : worker[w].cmd # c
    /\ queue' = [queue EXCEPT ![c].lease = "expired"]
    /\ UNCHANGED <<arrivals, request, world, effect, results, sent, worker, calm, blind>>

(***************************************************************************)
(* The commerce cycle                                                      *)
(***************************************************************************)

StartCycle(w) ==
    /\ worker[w].pc = "rest"
    /\ worker' = [worker EXCEPT ![w].pc = "claim"]
    /\ UNCHANGED <<queue, arrivals, request, world, effect, results, sent, calm, blind>>

Claim(w) ==
    /\ worker[w].pc = "claim"
    /\ Candidate # None /\ ~Fenced(Candidate)
    /\ queue' = [queue EXCEPT ![Candidate] = Held(w)]
    /\ worker' = [worker EXCEPT ![w] = [Resting EXCEPT !.pc = "claimed", !.cmd = Candidate]]
    /\ UNCHANGED <<arrivals, request, world, effect, results, sent, calm, blind>>

\* The claiming UPDATE of a row of the archived world raises; the whole cycle ends.
ClaimFenced(w) ==
    /\ worker[w].pc = "claim"
    /\ Candidate # None /\ Fenced(Candidate)
    /\ worker' = [worker EXCEPT ![w] = Resting]
    /\ UNCHANGED <<queue, arrivals, request, world, effect, results, sent, calm, blind>>

QueueDrained(w) ==
    /\ worker[w].pc = "claim" /\ Candidate = None
    /\ worker' = [worker EXCEPT ![w].pc = "dispatch"]
    /\ UNCHANGED <<queue, arrivals, request, world, effect, results, sent, calm, blind>>

\* A plausible mistake: only worlds the runtime has active are served.
DispatchActiveWorlds(w) ==
    /\ worker[w].pc = "dispatch"
    /\ \E delivered \in SUBSET (Undelivered \ Foreign) :
        /\ world = "absent" => delivered = {}
        /\ calm => delivered = Undelivered \ Foreign \/ world = "absent"
        /\ sent' = [c \in Commands |-> IF c \in delivered THEN Len(results[c]) ELSE sent[c]]
    /\ worker' = [worker EXCEPT ![w] = Resting]
    /\ UNCHANGED <<queue, arrivals, request, world, effect, results, calm, blind>>

\* dispatchOdooProjectionOutbox: each message is delivered or stays; an answer
\* that is lost leaves it too.  Only rows of the own world and the global scope.
DispatchOutbox(w) ==
    /\ worker[w].pc = "dispatch"
    /\ \E delivered \in SUBSET (Undelivered \ Foreign) :
        /\ calm => delivered = Undelivered \ Foreign
        /\ sent' = [c \in Commands |-> IF c \in delivered THEN Len(results[c]) ELSE sent[c]]
    /\ worker' = [worker EXCEPT ![w] = Resting]
    /\ UNCHANGED <<queue, arrivals, request, world, effect, results, calm, blind>>

(***************************************************************************)
(* processNextOdooCommand after the claim.  Settle, reject and release all *)
(* check the claim in their own transaction.                               *)
(***************************************************************************)

\* The worker goes on with the next command.
NextCommand(w) == worker' = [worker EXCEPT ![w] = [Resting EXCEPT !.pc = "claim"]]

\* The error leaves processNextOdooCommand and with it the cycle.
Rethrow(w) == worker' = [worker EXCEPT ![w] = Resting]

\* A misrouted historical row is rejected without a result.
RejectForeign(w) ==
    LET c == worker[w].cmd IN
    /\ worker[w].pc = "claimed" /\ c \in Foreign /\ Owns(w, c)
    /\ queue' = [queue EXCEPT ![c] = Row("rejected")]
    /\ NextCommand(w)
    /\ UNCHANGED <<arrivals, request, world, effect, results, sent, calm, blind>>

\* Entitlement and queue row in one transaction, without a result for Odoo.
ApplyEntitlement(w) ==
    LET c == worker[w].cmd IN
    /\ worker[w].pc = "claimed" /\ Kind[c] = "entitlement" /\ Owns(w, c)
    /\ effect' = [effect EXCEPT ![c] = TRUE]
    /\ queue' = [queue EXCEPT ![c] = Row("completed")]
    /\ NextCommand(w)
    /\ UNCHANGED <<arrivals, request, world, results, sent, calm, blind>>

EntitlementFails(w) ==
    /\ worker[w].pc = "claimed" /\ Kind[worker[w].cmd] = "entitlement" /\ ~calm
    /\ worker' = [worker EXCEPT ![w].pc = "failed"]
    /\ UNCHANGED <<queue, arrivals, request, world, effect, results, sent, calm, blind>>

\* processDemandDataCommand: data, queue row and result in one transaction.
ApplyDemandData(w) ==
    LET c == worker[w].cmd IN
    /\ worker[w].pc = "claimed" /\ Kind[c] = "demand" /\ c \notin Foreign
    /\ Owns(w, c) /\ ~Fenced(c)
    /\ \E outcome \in {"accepted", "rejected"} :
        /\ effect' = [effect EXCEPT ![c] = outcome = "accepted"]
        /\ queue' = [queue EXCEPT ![c] = Row(IF outcome = "accepted" THEN "completed" ELSE "rejected")]
        /\ results' = [results EXCEPT ![c] = Append(@, outcome)]
    /\ NextCommand(w)
    /\ UNCHANGED <<arrivals, request, world, sent, calm, blind>>

\* Everything of that transaction is rolled back; the row is released.
DemandDataFails(w) ==
    LET c == worker[w].cmd IN
    /\ worker[w].pc = "claimed" /\ Kind[c] = "demand" /\ c \notin Foreign /\ ~calm
    /\ Owns(w, c) /\ ~Fenced(c)
    /\ queue' = [queue EXCEPT ![c] = Row("pending")]
    /\ Rethrow(w)
    /\ UNCHANGED <<arrivals, request, world, effect, results, sent, calm, blind>>

\* An admin request is persisted before its effect.  A deployment has no world
\* to bind its request to yet and finds only the one of an earlier attempt.  From
\* here on the attempt knows its adminRequestId.
Prepare(w) ==
    LET c == worker[w].cmd IN
    /\ worker[w].pc = "claimed" /\ c \notin Foreign /\ ~Fenced(c)
    /\ Kind[c] \in {"admin", "close", "deploy", "participation"}
    /\ request' = IF Kind[c] \in {"admin", "close"} /\ request[c] = None
                  THEN [request EXCEPT ![c] = "approved"] ELSE request
    /\ worker' = [worker EXCEPT ![w].pc = "prepared", ![w].bound = TRUE]
    /\ UNCHANGED <<queue, arrivals, world, effect, results, sent, calm, blind>>

\* A query of that step fails, the select of an earlier request or the insert,
\* whose commit may have come through: the attempt does not know its request.
PrepareFails(w) ==
    LET c == worker[w].cmd IN
    /\ worker[w].pc = "claimed" /\ c \notin Foreign /\ Kind[c] \in AdminKinds /\ ~calm
    /\ \/ UNCHANGED request
       \/ /\ Kind[c] \in {"admin", "close"} /\ request[c] = None /\ ~Fenced(c)
          /\ request' = [request EXCEPT ![c] = "approved"]
    /\ worker' = [worker EXCEPT ![w].pc = "failed"]
    /\ UNCHANGED <<queue, arrivals, world, effect, results, sent, calm, blind>>

\* A plausible mistake: a request that was dispatched before is taken as executed.
BeginHandlerOnce(w) ==
    LET c == worker[w].cmd IN
    /\ worker[w].pc = "prepared" /\ Owns(w, c) /\ ~Fenced(c)
    /\ request[c] \in {None, "approved", "dispatched"}
    /\ request' = IF request[c] = None THEN request ELSE [request EXCEPT ![c] = "dispatched"]
    /\ queue' = [queue EXCEPT ![c] = Held(w)]
    /\ worker' = [worker EXCEPT ![w].pc = IF request[c] = "dispatched" THEN "settling" ELSE "handling",
                                ![w].outcome = "accepted", ![w].done = request[c] = "dispatched"]
    /\ UNCHANGED <<arrivals, world, effect, results, sent, calm, blind>>

\* The request is marked dispatched under the claim, then the first renewal of
\* runWithClaimHeartbeat precedes the handler.
BeginHandler(w) ==
    LET c == worker[w].cmd IN
    /\ worker[w].pc = "prepared" /\ Owns(w, c) /\ ~Fenced(c)
    /\ request[c] \in {None, "approved", "dispatched"}
    /\ request' = IF request[c] = None THEN request ELSE [request EXCEPT ![c] = "dispatched"]
    /\ queue' = [queue EXCEPT ![c] = Held(w)]
    /\ worker' = [worker EXCEPT ![w].pc = "handling"]
    /\ UNCHANGED <<arrivals, world, effect, results, sent, calm, blind>>

\* The dispatching transaction or the first renewal fails.
BeginHandlerFails(w) ==
    /\ worker[w].pc = "prepared" /\ ~calm
    /\ worker' = [worker EXCEPT ![w].pc = "failed"]
    /\ UNCHANGED <<queue, arrivals, request, world, effect, results, sent, calm, blind>>

\* renew: the heartbeat of a running handler.
Heartbeat(w) ==
    LET c == worker[w].cmd IN
    /\ worker[w].pc \in {"handling", "applied"} /\ Owns(w, c) /\ ~Fenced(c)
    /\ queue[c].lease = "expired"
    /\ queue' = [queue EXCEPT ![c].lease = "live"]
    /\ UNCHANGED <<arrivals, request, world, effect, results, sent, worker, calm, blind>>

(***************************************************************************)
(* Handlers.  None of them checks the claim; each is idempotent under the  *)
(* stable key of its command.                                              *)
(***************************************************************************)

\* The handler's own transaction commits (manual disruption, policy, access
\* revocation, sanction, participation).
HandlerApplies(w) ==
    LET c == worker[w].cmd IN
    /\ worker[w].pc = "handling" /\ Kind[c] \in {"admin", "participation"} /\ ~Fenced(c)
    /\ effect' = [effect EXCEPT ![c] = TRUE]
    /\ worker' = [worker EXCEPT ![w].pc = "applied", ![w].outcome = "accepted"]
    /\ UNCHANGED <<queue, arrivals, request, world, results, sent, calm, blind>>

\* A participation the world does not admit: a regular result without effect.
HandlerDeclines(w) ==
    LET c == worker[w].cmd IN
    /\ worker[w].pc = "handling" /\ Kind[c] = "participation" /\ ~Fenced(c) /\ ~effect[c]
    /\ worker' = [worker EXCEPT ![w].pc = "applied", ![w].outcome = "rejected"]
    /\ UNCHANGED <<queue, arrivals, request, world, effect, results, sent, calm, blind>>

\* world_deploy inserts the world as provisioning and fills it ...
DeployCreatesWorld(w) ==
    /\ worker[w].pc = "handling" /\ Kind[worker[w].cmd] = "deploy" /\ world = "absent"
    /\ world' = "provisioning"
    /\ UNCHANGED <<queue, arrivals, request, effect, results, sent, worker, calm, blind>>

\* ... and activates it when everything stands; markEffectApplied follows.
DeployActivatesWorld(w) ==
    LET c == worker[w].cmd IN
    /\ worker[w].pc = "handling" /\ Kind[c] = "deploy" /\ world \in {"provisioning", "active"}
    /\ world' = "active"
    /\ effect' = [effect EXCEPT ![c] = TRUE]
    /\ worker' = [worker EXCEPT ![w].pc = "applied", ![w].outcome = "accepted", ![w].done = TRUE]
    /\ UNCHANGED <<queue, arrivals, request, results, sent, calm, blind>>

\* The process-local registration of the started world fails after the effect.
RegistrationFails(w) ==
    /\ worker[w].pc = "applied" /\ Kind[worker[w].cmd] = "deploy" /\ ~calm
    /\ worker' = [worker EXCEPT ![w].pc = "failed"]
    /\ UNCHANGED <<queue, arrivals, request, world, effect, results, sent, calm, blind>>

\* The handler refuses the command or fails before its transaction commits.
HandlerThrows(w) ==
    LET c == worker[w].cmd IN
    /\ worker[w].pc = "handling"
    /\ calm => Fenced(c) \/ (~effect[c] /\ (Kind[c] = "deploy" => world = "absent"))
    /\ worker' = [worker EXCEPT ![w].pc = "failed"]
    /\ UNCHANGED <<queue, arrivals, request, world, effect, results, sent, calm, blind>>

\* The last renewal of runWithClaimHeartbeat succeeds; handlerCompleted is set.
HandlerReturns(w) ==
    LET c == worker[w].cmd IN
    /\ worker[w].pc = "applied" /\ Owns(w, c) /\ ~Fenced(c)
    /\ queue' = [queue EXCEPT ![c] = Held(w)]
    /\ worker' = [worker EXCEPT ![w].pc = "settling", ![w].done = TRUE]
    /\ UNCHANGED <<arrivals, request, world, effect, results, sent, calm, blind>>

\* world_close only hands back the atomic effect.
CloseHandlerReturns(w) ==
    LET c == worker[w].cmd IN
    /\ worker[w].pc = "handling" /\ Kind[c] = "close" /\ Owns(w, c) /\ ~Fenced(c)
    /\ queue' = [queue EXCEPT ![c] = Held(w)]
    /\ worker' = [worker EXCEPT ![w].pc = "sealing"]
    /\ UNCHANGED <<arrivals, request, world, effect, results, sent, calm, blind>>

(***************************************************************************)
(* Settling                                                                *)
(***************************************************************************)

\* A plausible mistake: whoever has finished the handler settles the command.
SettleUnclaimed(w) ==
    LET c == worker[w].cmd IN
    /\ worker[w].pc = "settling" /\ ~Fenced(c)
    /\ queue' = [queue EXCEPT ![c] = Row(IF worker[w].outcome = "accepted" THEN "completed" ELSE "rejected")]
    /\ request' = IF Kind[c] \in AdminKinds THEN [request EXCEPT ![c] = "completed"] ELSE request
    /\ results' = [results EXCEPT ![c] = Append(@, worker[w].outcome)]
    /\ NextCommand(w)
    /\ UNCHANGED <<arrivals, world, effect, sent, calm, blind>>

\* A plausible mistake: the settled row keeps its claim.
SettleKeepsClaim(w) ==
    LET c == worker[w].cmd IN
    /\ worker[w].pc = "settling" /\ Owns(w, c) /\ ~Fenced(c)
    /\ queue' = [queue EXCEPT ![c].status = IF worker[w].outcome = "accepted" THEN "completed" ELSE "rejected"]
    /\ request' = IF Kind[c] \in AdminKinds THEN [request EXCEPT ![c] = "completed"] ELSE request
    /\ results' = [results EXCEPT ![c] = Append(@, worker[w].outcome)]
    /\ NextCommand(w)
    /\ UNCHANGED <<arrivals, world, effect, sent, calm, blind>>

\* Request, audit event, queue row and result in one transaction.
Settle(w) ==
    LET c == worker[w].cmd IN
    /\ worker[w].pc = "settling" /\ Owns(w, c) /\ ~Fenced(c)
    /\ queue' = [queue EXCEPT ![c] = Row(IF worker[w].outcome = "accepted" THEN "completed" ELSE "rejected")]
    /\ request' = IF Kind[c] \in AdminKinds THEN [request EXCEPT ![c] = "completed"] ELSE request
    /\ results' = [results EXCEPT ![c] = Append(@, worker[w].outcome)]
    /\ NextCommand(w)
    /\ UNCHANGED <<arrivals, world, effect, sent, calm, blind>>

SettleFails(w) ==
    /\ worker[w].pc = "settling" /\ ~calm
    /\ worker' = [worker EXCEPT ![w].pc = "failed"]
    /\ UNCHANGED <<queue, arrivals, request, world, effect, results, sent, calm, blind>>

\* A plausible mistake: the world is sealed before its command is settled, which
\* the fence then refuses.
SealFirst(w) ==
    LET c == worker[w].cmd IN
    /\ worker[w].pc = "sealing" /\ Owns(w, c)
    /\ world = "active" /\ request[c] = "dispatched" /\ WorldUndelivered = {}
    /\ world' = "archived"
    /\ effect' = [effect EXCEPT ![c] = TRUE]
    /\ Rethrow(w)
    /\ UNCHANGED <<queue, arrivals, request, results, sent, calm, blind>>

\* WorldEndService.close inside the transaction that settles the command; the
\* trigger lets no world be archived with an undelivered projection.
Seal(w) ==
    LET c == worker[w].cmd IN
    /\ worker[w].pc = "sealing" /\ Owns(w, c)
    /\ world = "active" /\ request[c] = "dispatched" /\ WorldUndelivered = {}
    /\ world' = "archived"
    /\ effect' = [effect EXCEPT ![c] = TRUE]
    /\ queue' = [queue EXCEPT ![c] = Row("completed")]
    /\ request' = [request EXCEPT ![c] = "completed"]
    /\ results' = [results EXCEPT ![c] = Append(@, "accepted")]
    /\ NextCommand(w)
    /\ UNCHANGED <<arrivals, sent, calm, blind>>

\* The world may not be closed (not running, not in its last period, no operator).
SealRefused(w) ==
    /\ worker[w].pc = "sealing"
    /\ worker' = [worker EXCEPT ![w].pc = "failed"]
    /\ UNCHANGED <<queue, arrivals, request, world, effect, results, sent, calm, blind>>

\* Any other error, the pending projections among them: the request is approved
\* again and the command released.
SealBlocked(w) ==
    LET c == worker[w].cmd IN
    /\ worker[w].pc = "sealing" /\ Owns(w, c) /\ ~Fenced(c) /\ request[c] = "dispatched"
    /\ WorldUndelivered # {} \/ ~calm
    /\ request' = [request EXCEPT ![c] = "approved"]
    /\ queue' = [queue EXCEPT ![c] = Row("pending")]
    /\ Rethrow(w)
    /\ UNCHANGED <<arrivals, world, effect, results, sent, calm, blind>>

\* handlerCompleted: the effect stands, the command is released for a retry.
ReleaseApplied(w) ==
    LET c == worker[w].cmd IN
    /\ worker[w].pc = "failed" /\ worker[w].done /\ Owns(w, c) /\ ~Fenced(c)
    /\ queue' = [queue EXCEPT ![c] = Row("pending")]
    /\ Rethrow(w)
    /\ UNCHANGED <<arrivals, request, world, effect, results, sent, calm, blind>>

\* A deployment that left a provisioning world keeps its request and is retried,
\* if the attempt knows its adminRequestId.
ReleasePartialWorld(w) ==
    LET c == worker[w].cmd IN
    /\ worker[w].pc = "failed" /\ ~worker[w].done /\ Owns(w, c)
    /\ Kind[c] = "deploy" /\ world = "provisioning" /\ worker[w].bound
    /\ request' = IF request[c] = None THEN [request EXCEPT ![c] = "approved"] ELSE request
    /\ queue' = [queue EXCEPT ![c] = Row("pending")]
    /\ Rethrow(w)
    /\ UNCHANGED <<arrivals, world, effect, results, sent, calm, blind>>

\* A plausible mistake: the error path does not look for a partial world.
RejectAlways(w) ==
    LET c == worker[w].cmd IN
    /\ worker[w].pc = "failed" /\ ~worker[w].done /\ Owns(w, c) /\ ~Fenced(c)
    /\ queue' = [queue EXCEPT ![c] = Row("rejected")]
    /\ request' = IF Kind[c] \in AdminKinds /\ worker[w].bound /\ (request[c] # None \/ world # "absent")
                  THEN [request EXCEPT ![c] = "failed"] ELSE request
    /\ results' = IF Kind[c] = "entitlement" THEN results
                  ELSE [results EXCEPT ![c] = Append(@, "rejected")]
    /\ blind' = IF Kind[c] \in AdminKinds /\ ~worker[w].bound THEN blind \union {c} ELSE blind
    /\ NextCommand(w)
    /\ UNCHANGED <<arrivals, world, effect, sent, calm>>

\* Every other error settles the command as rejected; a request the attempt has not
\* come to is left as it is.
Reject(w) ==
    LET c == worker[w].cmd IN
    /\ worker[w].pc = "failed" /\ ~worker[w].done /\ Owns(w, c) /\ ~Fenced(c)
    /\ ~(Kind[c] = "deploy" /\ world = "provisioning" /\ worker[w].bound)
    /\ queue' = [queue EXCEPT ![c] = Row("rejected")]
    /\ request' = IF Kind[c] \in AdminKinds /\ worker[w].bound /\ (request[c] # None \/ world # "absent")
                  THEN [request EXCEPT ![c] = "failed"] ELSE request
    /\ results' = IF Kind[c] = "entitlement" THEN results
                  ELSE [results EXCEPT ![c] = Append(@, "rejected")]
    /\ blind' = IF Kind[c] \in AdminKinds /\ ~worker[w].bound THEN blind \union {c} ELSE blind
    /\ NextCommand(w)
    /\ UNCHANGED <<arrivals, world, effect, sent, calm>>

\* OdooCommandClaimLostError, or a write the fence refuses in both the attempt
\* and its error path: the row stays as it is.
LoseClaim(w) ==
    LET c == worker[w].cmd IN
    /\ worker[w].pc \in Busy \ {"handling"}
    /\ ~Owns(w, c) \/ Fenced(c)
    /\ Rethrow(w)
    /\ UNCHANGED <<queue, arrivals, request, world, effect, results, sent, calm, blind>>

\* The process dies, or a database error ends the attempt in its error path.
Abandon(w) ==
    /\ ~calm /\ worker[w].pc # "rest"
    /\ Rethrow(w)
    /\ UNCHANGED <<queue, arrivals, request, world, effect, results, sent, calm, blind>>

\* From here on nothing fails and Odoo answers.
CalmDown ==
    /\ ~calm /\ calm' = TRUE
    /\ UNCHANGED <<queue, arrivals, request, world, effect, results, sent, worker, blind>>

(***************************************************************************)
(* Specification                                                           *)
(***************************************************************************)

Handler(w) ==
    \/ HandlerApplies(w) \/ HandlerDeclines(w) \/ DeployCreatesWorld(w)
    \/ DeployActivatesWorld(w) \/ HandlerThrows(w) \/ HandlerReturns(w)
    \/ CloseHandlerReturns(w) \/ Seal(w) \/ SealRefused(w) \/ SealBlocked(w)

Work(w) ==
    \/ StartCycle(w) \/ Claim(w) \/ ClaimFenced(w) \/ QueueDrained(w) \/ DispatchOutbox(w)
    \/ RejectForeign(w) \/ ApplyEntitlement(w) \/ ApplyDemandData(w)
    \/ Prepare(w) \/ BeginHandler(w) \/ Handler(w)
    \/ Settle(w) \/ ReleaseApplied(w) \/ ReleasePartialWorld(w) \/ Reject(w) \/ LoseClaim(w)

Fault(w) ==
    \/ EntitlementFails(w) \/ DemandDataFails(w) \/ PrepareFails(w) \/ BeginHandlerFails(w)
    \/ RegistrationFails(w) \/ SettleFails(w) \/ Abandon(w)

Next ==
    \/ \E c \in Commands : Receive(c) \/ LeaseExpires(c)
    \/ \E w \in Workers : Work(w) \/ Fault(w) \/ Heartbeat(w)
    \/ CalmDown

Spec == Init /\ [][Next]_vars

\* The interval timer starts a cycle every five seconds and a cycle runs to its
\* end; an unattended lease runs out; faults stop at some point.
FairSpec ==
    /\ Spec
    /\ \A w \in Workers : WF_vars(Work(w))
    /\ \A c \in Commands : WF_vars(LeaseExpires(c))
    /\ WF_vars(CalmDown)

(***************************************************************************)
(* Properties                                                              *)
(***************************************************************************)

\* Every variable keeps its type.
TypeOK ==
    /\ queue \in [Commands -> [status : {"absent", "pending", "processing"} \union Settled,
                               holder : Workers \union {None}, lease : {None, "live", "expired"}]]
    /\ \A c \in Commands : queue[c].holder # None <=> queue[c].status = "processing"
    /\ arrivals \in Seq(Commands)
    /\ request \in [Commands -> {None, "approved", "dispatched", "completed", "failed"}]
    /\ world \in {"absent", "provisioning", "active", "archived"}
    /\ effect \in [Commands -> BOOLEAN]
    /\ results \in [Commands -> Seq({"accepted", "rejected"})]
    /\ sent \in [Commands -> Nat] /\ \A c \in Commands : sent[c] <= Len(results[c])
    /\ worker \in [Workers -> [pc : {"rest", "claim", "dispatch"} \union Busy,
                               cmd : Commands \union {None}, bound : BOOLEAN, done : BOOLEAN,
                               outcome : {None, "accepted", "rejected"}]]
    /\ calm \in BOOLEAN
    /\ blind \subseteq Commands

\* However often a command is attempted, and by however many workers, Odoo is
\* told one outcome, the one the queue row and the admin request record, and
\* none before (claimScope in every settling transaction of store.ts).  Only an
\* attempt that fails before it has read its request leaves that one behind.
ToldOnce ==
    \A c \in Commands :
        LET told == [absent |-> <<>>, pending |-> <<>>, processing |-> <<>>,
                     completed |-> <<"accepted">>, rejected |-> <<"rejected">>]
        IN  /\ results[c] = IF Kind[c] = "entitlement" \/ c \in Foreign THEN <<>>
                            ELSE told[queue[c].status]
            /\ request[c] = "completed" <=> Kind[c] \in AdminKinds /\ queue[c].status = "completed"
            /\ request[c] = "failed" => queue[c].status = "rejected"
            /\ queue[c].status = "rejected" => request[c] \in {None, "failed"} \/ c \in blind

\* What Odoo is told to be done has been done: no retry takes the traces of an
\* earlier attempt (a dispatched request, a released row) for its effect.
AcceptedMeansApplied ==
    \A c \in Commands : queue[c].status = "completed" => effect[c]

\* The world is archived exactly when a world_close is settled as completed,
\* with its result in the outbox (AtomicWorldSealAdminEffect): no crash separates
\* the seal from its receipt, which nobody could write afterwards.
SealedWithReceipt ==
    (world = "archived") <=>
        \E c \in Commands : /\ Kind[c] = "close"
                            /\ queue[c].status = "completed"
                            /\ results[c] = <<"accepted">>

\* A deployment that failed half-way is continued: a provisioning world has an
\* unsettled deployment (the partialWorld branch of the error path).  It is given up
\* in one case only, when a retry fails before it has read its request.
PartialWorldIsRetried ==
    world = "provisioning" =>
        \E c \in Commands : Kind[c] = "deploy" /\ (queue[c].status \in {"pending", "processing"} \/ c \in blind)

\* The same without the exception (MCOdooCommandsBlind.cfg shows how it fails).
PartialWorldNeverGivenUp ==
    world = "provisioning" =>
        \E c \in Commands : Kind[c] = "deploy" /\ queue[c].status \in {"pending", "processing"}

\* The comment above the handlerCompleted branch: an effect that has taken place
\* is never reported as rejected because of a later error.
AppliedNeverRejected ==
    \A c \in Commands : effect[c] => queue[c].status # "rejected"

\* Every command the receiver has acknowledged is settled in the end, also when
\* the worker that claimed it dies.
EventuallySettled ==
    \A c \in Commands : queue[c].status = "pending" ~> queue[c].status \in Settled

\* Every result in the outbox reaches Odoo in the end.
ResultsArrive ==
    \A c \in Commands : Len(results[c]) > 0 ~> sent[c] = Len(results[c])

\* An entitlement, which names no world, is settled in the end.
EntitlementsAreServed ==
    \A c \in Commands : Kind[c] = "entitlement" /\ queue[c].status = "pending"
                            ~> queue[c].status \in Settled
=============================================================================
