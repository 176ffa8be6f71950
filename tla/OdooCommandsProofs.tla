-------------------------- MODULE OdooCommandsProofs --------------------------
(***************************************************************************)
(* Proofs about OdooCommands, for any set of commands of any kinds and any  *)
(* set of workers.                                                          *)
(***************************************************************************)
EXTENDS OdooCommands, SequenceTheorems, WellFoundedInduction, TLAPS

-----------------------------------------------------------------------------
(* The inductive invariant. *)

\* The kinds whose handler has a transaction of its own.
HandledKinds == {"admin", "close", "deploy", "participation"}
Handling == {"prepared", "handling", "applied", "settling", "sealing"}

\* What a worker knows at each step of an attempt. Its claim may be lost at any of them.
Attempt(w) ==
    LET c == worker[w].cmd IN
    /\ worker[w].pc \in Busy => c \in Commands
    /\ worker[w].pc \in Handling => c \notin Foreign /\ Kind[c] \in HandledKinds
    /\ worker[w].pc = "failed" => c \notin Foreign /\ Kind[c] \in HandledKinds \cup {"entitlement"}
    /\ worker[w].pc = "claimed" => ~worker[w].bound
    /\ worker[w].pc \in Handling => worker[w].bound
    /\ worker[w].pc \in Handling \cup {"failed"} /\ worker[w].bound /\ Kind[c] \in {"admin", "close"} =>
         request[c] # None
    /\ worker[w].pc = "sealing" => Kind[c] = "close"
    /\ worker[w].pc \in {"applied", "settling"} =>
         /\ Kind[c] # "close"
         /\ \/ worker[w].outcome = "accepted" /\ effect[c]
            \/ worker[w].outcome = "rejected" /\ Kind[c] = "participation"

\* What the rows of a command say about each other.
Rows(c) ==
    /\ request[c] # None => Kind[c] \in AdminKinds /\ c \notin Foreign
    /\ c \in Foreign => queue[c].status # "completed"
    /\ Kind[c] \in {"admin", "close"} /\ c \notin Foreign /\ queue[c].status \in Settled =>
         request[c] # None \/ c \in blind
    /\ (request[c] = "completed") <=> (Kind[c] \in AdminKinds /\ queue[c].status = "completed")
    /\ request[c] = "failed" => queue[c].status = "rejected"
    /\ queue[c].status = "rejected" => request[c] \in {None, "failed"} \/ c \in blind
    /\ queue[c].status = "completed" => effect[c]
    /\ results[c] = IF Kind[c] = "entitlement" \/ c \in Foreign THEN <<>>
                    ELSE IF queue[c].status = "completed" THEN <<"accepted">>
                    ELSE IF queue[c].status = "rejected" THEN <<"rejected">>
                    ELSE <<>>

\* Only a completed close seals the world.
Sealed == (world = "archived") <=> \E c \in Commands : Kind[c] = "close" /\ queue[c].status = "completed"

QueueInv ==
    /\ TypeOK
    /\ \A w \in Workers : Attempt(w)
    /\ \A c \in Commands : Rows(c)
    /\ Sealed

\* The parts of TypeOK.
RowTypes ==
    /\ queue \in [Commands -> [status : {"absent", "pending", "processing"} \union Settled,
                               holder : Workers \union {None}, lease : {None, "live", "expired"}]]
    /\ \A c \in Commands : queue[c].holder # None <=> queue[c].status = "processing"
WorkerRecords == [pc : {"rest", "claim", "dispatch"} \union Busy,
                  cmd : Commands \union {None}, bound : BOOLEAN, done : BOOLEAN,
                  outcome : {None, "accepted", "rejected"}]
WorkerTypes == worker \in [Workers -> WorkerRecords]
OutboxTypes ==
    /\ results \in [Commands -> Seq({"accepted", "rejected"})]
    /\ sent \in [Commands -> Nat] /\ \A c \in Commands : sent[c] <= Len(results[c])
OtherTypes ==
    /\ arrivals \in Seq(Commands)
    /\ request \in [Commands -> {None, "approved", "dispatched", "completed", "failed"}]
    /\ world \in {"absent", "provisioning", "active", "archived"}
    /\ effect \in [Commands -> BOOLEAN]
    /\ calm \in BOOLEAN
    /\ blind \subseteq Commands

-----------------------------------------------------------------------------
(* Lemmas. *)

\* Every nonempty set of natural numbers has a least element.
LEMMA LeastNumber ==
    ASSUME NEW S \in SUBSET Nat, S # {}
    PROVE  \E m \in S : \A n \in S : m <= n
  <1> DEFINE R == OpToRel(<, Nat)
  <1>1. IsWellFoundedOn(R, Nat)
    BY NatLessThanWellFounded
  <1>2. \A m, n \in Nat : m < n => <<m, n>> \in R
    BY DEF OpToRel
  <1> HIDE DEF R
  <1>3. PICK m \in S : \A n \in S : ~ (<<n, m>> \in R)
    BY <1>1, WFMin
  <1>4. \A n \in S : ~ (n < m)
    BY <1>2, <1>3, Zenon
  <1>5. \A n \in S : m <= n
    BY <1>4, SMT
  <1> QED BY <1>5

\* The claim takes a received command that is pending or whose lease has run out.
LEMMA CandidateFacts ==
    ASSUME arrivals \in Seq(Commands), Candidate # None
    PROVE  Candidate \in Commands /\ Eligible(Candidate)
  <1> DEFINE open == {i \in DOMAIN arrivals : Eligible(arrivals[i])}
  <1>1. open # {} /\ open \in SUBSET Nat
    BY DEF Candidate
  <1>2. \E i \in open : \A j \in open : i <= j
    BY <1>1, LeastNumber
  <1>3. (CHOOSE i \in open : \A j \in open : i <= j) \in open
    BY <1>2
  <1>4. Candidate = arrivals[CHOOSE i \in open : \A j \in open : i <= j]
    BY <1>1 DEF Candidate
  <1> QED BY <1>3, <1>4

\* A worker that is past its claim works on a command.
LEMMA BusyHasCommand ==
    ASSUME NEW w \in Workers, Attempt(w), worker[w].pc \in Busy
    PROVE  worker[w].cmd \in Commands
  BY DEF Attempt

\* A step that moves one worker on, and at most writes a request, keeps the types.
LEMMA MoveKeepsTypes ==
    ASSUME TypeOK, NEW w \in Workers, NEW p \in {"rest", "claim", "dispatch"} \union Busy,
           worker' = [worker EXCEPT ![w].pc = p],
           request' \in [Commands -> {None, "approved", "dispatched", "completed", "failed"}],
           UNCHANGED <<queue, arrivals, world, effect, results, sent, calm, blind>>
    PROVE  TypeOK'
  <1>1. WorkerTypes
    BY DEF TypeOK, WorkerTypes, WorkerRecords
  <1>2. worker'[w] \in WorkerRecords
    BY <1>1 DEF WorkerTypes, WorkerRecords
  <1>3. WorkerTypes'
    BY <1>1, <1>2 DEF WorkerTypes
  <1>4. RowTypes' /\ OutboxTypes' /\ OtherTypes'
    BY DEF TypeOK, RowTypes, OutboxTypes, OtherTypes
  <1> QED BY <1>3, <1>4 DEF TypeOK, RowTypes, WorkerTypes, WorkerRecords, OutboxTypes, OtherTypes

\* Every step keeps the types.
LEMMA TypeStep ==
    ASSUME TypeOK, \A w \in Workers : Attempt(w), [Next]_vars
    PROVE  TypeOK'
  <1> USE CommandsAssumption
  <1>1. ASSUME NEW c \in Commands, Receive(c)
        PROVE  TypeOK'
    BY <1>1 DEF Receive, Row, TypeOK, Settled, Busy
  <1>2. ASSUME NEW c \in Commands, LeaseExpires(c)
        PROVE  TypeOK'
    <2>1. RowTypes'
      <3>1. RowTypes /\ queue' = [queue EXCEPT ![c].lease = "expired"]
        BY <1>2 DEF LeaseExpires, TypeOK, RowTypes
      <3> QED BY <1>2, <3>1 DEF RowTypes, LeaseExpires, Settled
    <2>2. WorkerTypes' /\ OutboxTypes' /\ OtherTypes'
      BY <1>2 DEF LeaseExpires, TypeOK, WorkerTypes, WorkerRecords, OutboxTypes, OtherTypes
    <2> QED BY <2>1, <2>2 DEF TypeOK, RowTypes, WorkerTypes, WorkerRecords, OutboxTypes, OtherTypes
  <1>3. ASSUME NEW w \in Workers, StartCycle(w)
        PROVE  TypeOK'
    BY <1>3, MoveKeepsTypes DEF StartCycle, TypeOK, Busy
  <1>4. ASSUME NEW w \in Workers, Claim(w)
        PROVE  TypeOK'
    <2>1. Candidate \in Commands
      BY <1>4, CandidateFacts DEF Claim, TypeOK
    <2> HIDE DEF Candidate
    <2> QED BY <1>4, <2>1 DEF Claim, Held, Resting, TypeOK, Settled, Busy
  <1>5. ASSUME NEW w \in Workers, ClaimFenced(w)
        PROVE  TypeOK'
    BY <1>5 DEF ClaimFenced, Resting, TypeOK, Settled, Busy
  <1>6. ASSUME NEW w \in Workers, QueueDrained(w)
        PROVE  TypeOK'
    BY <1>6, MoveKeepsTypes DEF QueueDrained, TypeOK, Busy
  <1>7. ASSUME NEW w \in Workers, DispatchOutbox(w)
        PROVE  TypeOK'
    BY <1>7 DEF DispatchOutbox, Resting, TypeOK, Settled, Busy
  <1>8. ASSUME NEW w \in Workers, RejectForeign(w)
        PROVE  TypeOK'
    BY <1>8 DEF RejectForeign, Owns, Row, NextCommand, Resting, TypeOK, Settled, Busy
  <1>9. ASSUME NEW w \in Workers, ApplyEntitlement(w)
        PROVE  TypeOK'
    BY <1>9 DEF ApplyEntitlement, Owns, Row, NextCommand, Resting, TypeOK, Settled, Busy
  <1>10. ASSUME NEW w \in Workers, EntitlementFails(w)
        PROVE  TypeOK'
    BY <1>10, MoveKeepsTypes DEF EntitlementFails, TypeOK, Busy
  <1>11. ASSUME NEW w \in Workers, ApplyDemandData(w)
        PROVE  TypeOK'
    <2>1. worker[w].cmd \in Commands
      BY <1>11, BusyHasCommand DEF ApplyDemandData, Busy
    <2>2. RowTypes'
      BY <1>11, <2>1 DEF ApplyDemandData, Owns, Row, NextCommand, Resting, TypeOK, RowTypes, Settled
    <2>3. WorkerTypes'
      <3>1. WorkerTypes
        BY DEF TypeOK, WorkerTypes, WorkerRecords
      <3> QED BY <1>11, <3>1 DEF ApplyDemandData, Owns, Row, NextCommand, Resting, WorkerTypes,
                 WorkerRecords, Busy
    <2>4. OutboxTypes'
      BY <1>11, <2>1 DEF ApplyDemandData, Owns, Row, NextCommand, Resting, TypeOK, OutboxTypes, Attempt
    <2>5. OtherTypes'
      BY <1>11, <2>1 DEF ApplyDemandData, Owns, Row, NextCommand, Resting, TypeOK, OtherTypes
    <2> QED BY <2>2, <2>3, <2>4, <2>5 DEF TypeOK, RowTypes, WorkerTypes, WorkerRecords, OutboxTypes, OtherTypes
  <1>12. ASSUME NEW w \in Workers, DemandDataFails(w)
        PROVE  TypeOK'
    BY <1>12 DEF DemandDataFails, Owns, Row, Rethrow, Resting, TypeOK, Settled, Busy
  <1>13. ASSUME NEW w \in Workers, Prepare(w)
        PROVE  TypeOK'
    <2>1. RowTypes' /\ OutboxTypes' /\ OtherTypes'
      BY <1>13 DEF Prepare, TypeOK, RowTypes, OutboxTypes, OtherTypes
    <2>2. WorkerTypes'
      <3>1. WorkerTypes
        BY DEF TypeOK, WorkerTypes, WorkerRecords
      <3>2. worker' = [worker EXCEPT ![w].pc = "prepared", ![w].bound = TRUE]
        BY <1>13 DEF Prepare
      <3>3. worker'[w] \in WorkerRecords
        BY <3>1, <3>2 DEF WorkerTypes, WorkerRecords, Busy
      <3> QED BY <3>1, <3>2, <3>3 DEF WorkerTypes
    <2> QED BY <2>1, <2>2 DEF TypeOK, RowTypes, WorkerTypes, WorkerRecords, OutboxTypes, OtherTypes
  <1>14. ASSUME NEW w \in Workers, BeginHandler(w)
        PROVE  TypeOK'
    <2>1. worker[w].cmd \in Commands
      BY <1>14, BusyHasCommand DEF BeginHandler, Busy
    <2>2. RowTypes'
      BY <1>14, <2>1 DEF BeginHandler, Owns, Held, TypeOK, RowTypes, Settled
    <2>3. WorkerTypes'
      <3>1. WorkerTypes
        BY DEF TypeOK, WorkerTypes, WorkerRecords
      <3> QED BY <1>14, <3>1 DEF BeginHandler, Owns, Held, WorkerTypes, WorkerRecords, Busy
    <2>4. OutboxTypes'
      BY <1>14, <2>1 DEF BeginHandler, Owns, Held, TypeOK, OutboxTypes, Attempt
    <2>5. OtherTypes'
      BY <1>14, <2>1 DEF BeginHandler, Owns, Held, TypeOK, OtherTypes
    <2> QED BY <2>2, <2>3, <2>4, <2>5 DEF TypeOK, RowTypes, WorkerTypes, WorkerRecords, OutboxTypes, OtherTypes
  <1>15. ASSUME NEW w \in Workers, Heartbeat(w)
        PROVE  TypeOK'
    <2>1. worker[w].cmd \in Commands
      BY <1>15, BusyHasCommand DEF Heartbeat, Busy
    <2>2. RowTypes'
      <3>1. RowTypes
        BY DEF TypeOK, RowTypes
      <3>2. queue' = [queue EXCEPT ![worker[w].cmd].lease = "live"]
        BY <1>15 DEF Heartbeat
      <3> QED BY <2>1, <3>1, <3>2 DEF RowTypes, Settled
    <2>3. WorkerTypes'
      <3>1. WorkerTypes
        BY DEF TypeOK, WorkerTypes, WorkerRecords
      <3> QED BY <1>15, <3>1 DEF Heartbeat, Owns, WorkerTypes, WorkerRecords, Busy
    <2>4. OutboxTypes'
      BY <1>15, <2>1 DEF Heartbeat, Owns, TypeOK, OutboxTypes, Attempt
    <2>5. OtherTypes'
      BY <1>15, <2>1 DEF Heartbeat, Owns, TypeOK, OtherTypes
    <2> QED BY <2>2, <2>3, <2>4, <2>5 DEF TypeOK, RowTypes, WorkerTypes, WorkerRecords, OutboxTypes, OtherTypes
  <1>16. ASSUME NEW w \in Workers, HandlerApplies(w)
        PROVE  TypeOK'
    <2>1. worker[w].cmd \in Commands
      BY <1>16, BusyHasCommand DEF HandlerApplies, Busy
    <2>2. RowTypes'
      BY <1>16, <2>1 DEF HandlerApplies, TypeOK, RowTypes, Settled
    <2>3. WorkerTypes'
      <3>1. WorkerTypes
        BY DEF TypeOK, WorkerTypes, WorkerRecords
      <3>2. worker' = [worker EXCEPT ![w].pc = "applied", ![w].outcome = "accepted"]
        BY <1>16 DEF HandlerApplies
      <3>3. worker'[w] \in WorkerRecords
        BY <3>1, <3>2 DEF WorkerTypes, WorkerRecords, Busy
      <3> QED BY <3>1, <3>2, <3>3 DEF WorkerTypes
    <2>4. OutboxTypes'
      BY <1>16, <2>1 DEF HandlerApplies, TypeOK, OutboxTypes, Attempt
    <2>5. OtherTypes'
      BY <1>16, <2>1 DEF HandlerApplies, TypeOK, OtherTypes
    <2> QED BY <2>2, <2>3, <2>4, <2>5 DEF TypeOK, RowTypes, WorkerTypes, WorkerRecords, OutboxTypes, OtherTypes
  <1>17. ASSUME NEW w \in Workers, HandlerDeclines(w)
        PROVE  TypeOK'
    <2>1. worker[w].cmd \in Commands
      BY <1>17, BusyHasCommand DEF HandlerDeclines, Busy
    <2>2. RowTypes'
      BY <1>17, <2>1 DEF HandlerDeclines, TypeOK, RowTypes, Settled
    <2>3. WorkerTypes'
      <3>1. WorkerTypes
        BY DEF TypeOK, WorkerTypes, WorkerRecords
      <3>2. worker' = [worker EXCEPT ![w].pc = "applied", ![w].outcome = "rejected"]
        BY <1>17 DEF HandlerDeclines
      <3>3. worker'[w] \in WorkerRecords
        BY <3>1, <3>2 DEF WorkerTypes, WorkerRecords, Busy
      <3> QED BY <3>1, <3>2, <3>3 DEF WorkerTypes
    <2>4. OutboxTypes'
      BY <1>17, <2>1 DEF HandlerDeclines, TypeOK, OutboxTypes, Attempt
    <2>5. OtherTypes'
      BY <1>17, <2>1 DEF HandlerDeclines, TypeOK, OtherTypes
    <2> QED BY <2>2, <2>3, <2>4, <2>5 DEF TypeOK, RowTypes, WorkerTypes, WorkerRecords, OutboxTypes, OtherTypes
  <1>18. ASSUME NEW w \in Workers, DeployCreatesWorld(w)
        PROVE  TypeOK'
    BY <1>18 DEF DeployCreatesWorld, TypeOK, Settled, Busy
  <1>19. ASSUME NEW w \in Workers, DeployActivatesWorld(w)
        PROVE  TypeOK'
    <2>1. worker[w].cmd \in Commands
      BY <1>19, BusyHasCommand DEF DeployActivatesWorld, Busy
    <2>2. RowTypes'
      BY <1>19, <2>1 DEF DeployActivatesWorld, TypeOK, RowTypes, Settled
    <2>3. WorkerTypes'
      <3>1. WorkerTypes
        BY DEF TypeOK, WorkerTypes, WorkerRecords
      <3>2. worker' = [worker EXCEPT ![w].pc = "applied", ![w].outcome = "accepted", ![w].done = TRUE]
        BY <1>19 DEF DeployActivatesWorld
      <3>3. worker'[w] \in WorkerRecords
        BY <3>1, <3>2 DEF WorkerTypes, WorkerRecords, Busy
      <3> QED BY <3>1, <3>2, <3>3 DEF WorkerTypes
    <2>4. OutboxTypes'
      BY <1>19, <2>1 DEF DeployActivatesWorld, TypeOK, OutboxTypes, Attempt
    <2>5. OtherTypes'
      BY <1>19, <2>1 DEF DeployActivatesWorld, TypeOK, OtherTypes
    <2> QED BY <2>2, <2>3, <2>4, <2>5 DEF TypeOK, RowTypes, WorkerTypes, WorkerRecords, OutboxTypes, OtherTypes
  <1>20. ASSUME NEW w \in Workers, RegistrationFails(w)
        PROVE  TypeOK'
    BY <1>20, MoveKeepsTypes DEF RegistrationFails, TypeOK, Busy
  <1>21. ASSUME NEW w \in Workers, HandlerThrows(w)
        PROVE  TypeOK'
    BY <1>21, MoveKeepsTypes DEF HandlerThrows, TypeOK, Busy
  <1>22. ASSUME NEW w \in Workers, HandlerReturns(w)
        PROVE  TypeOK'
    <2>1. worker[w].cmd \in Commands
      BY <1>22, BusyHasCommand DEF HandlerReturns, Busy
    <2>2. RowTypes'
      BY <1>22, <2>1 DEF HandlerReturns, Owns, Held, TypeOK, RowTypes, Settled
    <2>3. WorkerTypes'
      <3>1. WorkerTypes
        BY DEF TypeOK, WorkerTypes, WorkerRecords
      <3>2. worker' = [worker EXCEPT ![w].pc = "settling", ![w].done = TRUE]
        BY <1>22 DEF HandlerReturns
      <3>3. worker'[w] \in WorkerRecords
        BY <3>1, <3>2 DEF WorkerTypes, WorkerRecords, Busy
      <3> QED BY <3>1, <3>2, <3>3 DEF WorkerTypes
    <2>4. OutboxTypes'
      BY <1>22, <2>1 DEF HandlerReturns, Owns, Held, TypeOK, OutboxTypes, Attempt
    <2>5. OtherTypes'
      BY <1>22, <2>1 DEF HandlerReturns, Owns, Held, TypeOK, OtherTypes
    <2> QED BY <2>2, <2>3, <2>4, <2>5 DEF TypeOK, RowTypes, WorkerTypes, WorkerRecords, OutboxTypes, OtherTypes
  <1>23. ASSUME NEW w \in Workers, CloseHandlerReturns(w)
        PROVE  TypeOK'
    <2>1. worker[w].cmd \in Commands
      BY <1>23, BusyHasCommand DEF CloseHandlerReturns, Busy
    <2>2. RowTypes'
      BY <1>23, <2>1 DEF CloseHandlerReturns, Owns, Held, TypeOK, RowTypes, Settled
    <2>3. WorkerTypes'
      <3>1. WorkerTypes
        BY DEF TypeOK, WorkerTypes, WorkerRecords
      <3> QED BY <1>23, <3>1 DEF CloseHandlerReturns, Owns, Held, WorkerTypes, WorkerRecords, Busy
    <2>4. OutboxTypes'
      BY <1>23, <2>1 DEF CloseHandlerReturns, Owns, Held, TypeOK, OutboxTypes, Attempt
    <2>5. OtherTypes'
      BY <1>23, <2>1 DEF CloseHandlerReturns, Owns, Held, TypeOK, OtherTypes
    <2> QED BY <2>2, <2>3, <2>4, <2>5 DEF TypeOK, RowTypes, WorkerTypes, WorkerRecords, OutboxTypes, OtherTypes
  <1>24. ASSUME NEW w \in Workers, Settle(w)
        PROVE  TypeOK'
    <2>1. worker[w].cmd \in Commands
      BY <1>24, BusyHasCommand DEF Settle, Busy
    <2>2. RowTypes'
      BY <1>24, <2>1 DEF Settle, Owns, Row, NextCommand, Resting, TypeOK, RowTypes, Settled
    <2>3. WorkerTypes'
      <3>1. WorkerTypes
        BY DEF TypeOK, WorkerTypes, WorkerRecords
      <3> QED BY <1>24, <3>1 DEF Settle, Owns, Row, NextCommand, Resting, WorkerTypes, WorkerRecords, Busy
    <2>4. OutboxTypes'
      BY <1>24, <2>1 DEF Settle, Owns, Row, NextCommand, Resting, TypeOK, OutboxTypes, Attempt
    <2>5. OtherTypes'
      BY <1>24, <2>1 DEF Settle, Owns, Row, NextCommand, Resting, TypeOK, OtherTypes
    <2> QED BY <2>2, <2>3, <2>4, <2>5 DEF TypeOK, RowTypes, WorkerTypes, WorkerRecords, OutboxTypes, OtherTypes
  <1>25. ASSUME NEW w \in Workers, SettleFails(w)
        PROVE  TypeOK'
    BY <1>25, MoveKeepsTypes DEF SettleFails, TypeOK, Busy
  <1>26. ASSUME NEW w \in Workers, Seal(w)
        PROVE  TypeOK'
    <2>1. worker[w].cmd \in Commands
      BY <1>26, BusyHasCommand DEF Seal, Busy
    <2>2. RowTypes'
      BY <1>26, <2>1 DEF Seal, Owns, Row, NextCommand, Resting, TypeOK, RowTypes, Settled
    <2>3. WorkerTypes'
      <3>1. WorkerTypes
        BY DEF TypeOK, WorkerTypes, WorkerRecords
      <3> QED BY <1>26, <3>1 DEF Seal, Owns, Row, NextCommand, Resting, WorkerTypes, WorkerRecords, Busy
    <2>4. OutboxTypes'
      BY <1>26, <2>1 DEF Seal, Owns, Row, NextCommand, Resting, TypeOK, OutboxTypes, Attempt
    <2>5. OtherTypes'
      BY <1>26, <2>1 DEF Seal, Owns, Row, NextCommand, Resting, TypeOK, OtherTypes
    <2> QED BY <2>2, <2>3, <2>4, <2>5 DEF TypeOK, RowTypes, WorkerTypes, WorkerRecords, OutboxTypes, OtherTypes
  <1>27. ASSUME NEW w \in Workers, SealRefused(w)
        PROVE  TypeOK'
    BY <1>27, MoveKeepsTypes DEF SealRefused, TypeOK, Busy
  <1>28. ASSUME NEW w \in Workers, SealBlocked(w)
        PROVE  TypeOK'
    BY <1>28 DEF SealBlocked, Owns, Row, Rethrow, Resting, TypeOK, Settled, Busy
  <1>29. ASSUME NEW w \in Workers, ReleaseApplied(w)
        PROVE  TypeOK'
    BY <1>29 DEF ReleaseApplied, Owns, Row, Rethrow, Resting, TypeOK, Settled, Busy
  <1>30. ASSUME NEW w \in Workers, ReleasePartialWorld(w)
        PROVE  TypeOK'
    BY <1>30 DEF ReleasePartialWorld, Owns, Row, Rethrow, Resting, TypeOK, Settled, Busy
  <1>31. ASSUME NEW w \in Workers, Reject(w)
        PROVE  TypeOK'
    <2>1. worker[w].cmd \in Commands
      BY <1>31, BusyHasCommand DEF Reject, Busy
    <2>2. RowTypes'
      BY <1>31, <2>1 DEF Reject, Owns, Row, NextCommand, Resting, TypeOK, RowTypes, Settled
    <2>3. WorkerTypes'
      <3>1. WorkerTypes
        BY DEF TypeOK, WorkerTypes, WorkerRecords
      <3> QED BY <1>31, <3>1 DEF Reject, Owns, Row, NextCommand, Resting, WorkerTypes, WorkerRecords, Busy
    <2>4. OutboxTypes'
      BY <1>31, <2>1 DEF Reject, Owns, Row, NextCommand, Resting, TypeOK, OutboxTypes, Attempt
    <2>5. OtherTypes'
      BY <1>31, <2>1 DEF Reject, Owns, Row, NextCommand, Resting, TypeOK, OtherTypes
    <2> QED BY <2>2, <2>3, <2>4, <2>5 DEF TypeOK, RowTypes, WorkerTypes, WorkerRecords, OutboxTypes, OtherTypes
  <1>32. ASSUME NEW w \in Workers, LoseClaim(w)
        PROVE  TypeOK'
    BY <1>32 DEF LoseClaim, Rethrow, Resting, TypeOK, Settled, Busy
  <1>33. ASSUME NEW w \in Workers, Abandon(w)
        PROVE  TypeOK'
    BY <1>33 DEF Abandon, Rethrow, Resting, TypeOK, Settled, Busy
  <1>34. CASE CalmDown
    BY <1>34 DEF CalmDown, TypeOK, Settled, Busy
  <1>35. CASE UNCHANGED vars
    BY <1>35 DEF vars, TypeOK, Settled, Busy
  <1>36. ASSUME NEW w \in Workers, PrepareFails(w)
        PROVE  TypeOK'
    <2>1. request' \in [Commands -> {None, "approved", "dispatched", "completed", "failed"}]
      BY <1>36 DEF PrepareFails, TypeOK
    <2> QED BY <1>36, <2>1, MoveKeepsTypes DEF PrepareFails, Busy
  <1>37. ASSUME NEW w \in Workers, BeginHandlerFails(w)
        PROVE  TypeOK'
    BY <1>37, MoveKeepsTypes DEF BeginHandlerFails, TypeOK, Busy
  <1> QED BY <1>1, <1>2, <1>3, <1>4, <1>5, <1>6, <1>7, <1>8, <1>9, <1>10, <1>11, <1>12, <1>13, <1>14, <1>15,
             <1>16, <1>17, <1>18, <1>19, <1>20, <1>21, <1>22, <1>23, <1>24, <1>25, <1>26, <1>27, <1>28,
             <1>29, <1>30, <1>31, <1>32, <1>33, <1>34, <1>35,
             <1>36, <1>37 DEF Next, Work, Handler, Fault

\* No step takes a request back, nor the effect of a handler.
LEMMA NothingTakenBack ==
    ASSUME TypeOK, \A w \in Workers : Attempt(w), [Next]_vars, NEW k \in Commands
    PROVE  /\ request[k] # None => request'[k] # None
           /\ effect[k] /\ Kind[k] # "demand" => effect'[k]
  <1> USE CommandsAssumption DEF TypeOK, None
  <1>1. ASSUME NEW c \in Commands, Receive(c)
        PROVE  /\ request[k] # None => request'[k] # None
               /\ effect[k] /\ Kind[k] # "demand" => effect'[k]
    BY <1>1 DEF Receive
  <1>2. ASSUME NEW c \in Commands, LeaseExpires(c)
        PROVE  /\ request[k] # None => request'[k] # None
               /\ effect[k] /\ Kind[k] # "demand" => effect'[k]
    BY <1>2 DEF LeaseExpires
  <1>3. ASSUME NEW w \in Workers, StartCycle(w)
        PROVE  /\ request[k] # None => request'[k] # None
               /\ effect[k] /\ Kind[k] # "demand" => effect'[k]
    BY <1>3 DEF StartCycle
  <1>4. ASSUME NEW w \in Workers, Claim(w)
        PROVE  /\ request[k] # None => request'[k] # None
               /\ effect[k] /\ Kind[k] # "demand" => effect'[k]
    BY <1>4 DEF Claim
  <1>5. ASSUME NEW w \in Workers, ClaimFenced(w)
        PROVE  /\ request[k] # None => request'[k] # None
               /\ effect[k] /\ Kind[k] # "demand" => effect'[k]
    BY <1>5 DEF ClaimFenced
  <1>6. ASSUME NEW w \in Workers, QueueDrained(w)
        PROVE  /\ request[k] # None => request'[k] # None
               /\ effect[k] /\ Kind[k] # "demand" => effect'[k]
    BY <1>6 DEF QueueDrained
  <1>7. ASSUME NEW w \in Workers, DispatchOutbox(w)
        PROVE  /\ request[k] # None => request'[k] # None
               /\ effect[k] /\ Kind[k] # "demand" => effect'[k]
    BY <1>7 DEF DispatchOutbox
  <1>8. ASSUME NEW w \in Workers, RejectForeign(w)
        PROVE  /\ request[k] # None => request'[k] # None
               /\ effect[k] /\ Kind[k] # "demand" => effect'[k]
    BY <1>8 DEF RejectForeign
  <1>9. ASSUME NEW w \in Workers, ApplyEntitlement(w)
        PROVE  /\ request[k] # None => request'[k] # None
               /\ effect[k] /\ Kind[k] # "demand" => effect'[k]
    BY <1>9 DEF ApplyEntitlement
  <1>10. ASSUME NEW w \in Workers, EntitlementFails(w)
        PROVE  /\ request[k] # None => request'[k] # None
               /\ effect[k] /\ Kind[k] # "demand" => effect'[k]
    BY <1>10 DEF EntitlementFails
  <1>11. ASSUME NEW w \in Workers, ApplyDemandData(w)
        PROVE  /\ request[k] # None => request'[k] # None
               /\ effect[k] /\ Kind[k] # "demand" => effect'[k]
    BY <1>11 DEF ApplyDemandData
  <1>12. ASSUME NEW w \in Workers, DemandDataFails(w)
        PROVE  /\ request[k] # None => request'[k] # None
               /\ effect[k] /\ Kind[k] # "demand" => effect'[k]
    BY <1>12 DEF DemandDataFails
  <1>13. ASSUME NEW w \in Workers, Prepare(w)
        PROVE  /\ request[k] # None => request'[k] # None
               /\ effect[k] /\ Kind[k] # "demand" => effect'[k]
    BY <1>13 DEF Prepare
  <1>14. ASSUME NEW w \in Workers, BeginHandler(w)
        PROVE  /\ request[k] # None => request'[k] # None
               /\ effect[k] /\ Kind[k] # "demand" => effect'[k]
    BY <1>14 DEF BeginHandler
  <1>15. ASSUME NEW w \in Workers, Heartbeat(w)
        PROVE  /\ request[k] # None => request'[k] # None
               /\ effect[k] /\ Kind[k] # "demand" => effect'[k]
    BY <1>15 DEF Heartbeat
  <1>16. ASSUME NEW w \in Workers, HandlerApplies(w)
        PROVE  /\ request[k] # None => request'[k] # None
               /\ effect[k] /\ Kind[k] # "demand" => effect'[k]
    BY <1>16 DEF HandlerApplies
  <1>17. ASSUME NEW w \in Workers, HandlerDeclines(w)
        PROVE  /\ request[k] # None => request'[k] # None
               /\ effect[k] /\ Kind[k] # "demand" => effect'[k]
    BY <1>17 DEF HandlerDeclines
  <1>18. ASSUME NEW w \in Workers, DeployCreatesWorld(w)
        PROVE  /\ request[k] # None => request'[k] # None
               /\ effect[k] /\ Kind[k] # "demand" => effect'[k]
    BY <1>18 DEF DeployCreatesWorld
  <1>19. ASSUME NEW w \in Workers, DeployActivatesWorld(w)
        PROVE  /\ request[k] # None => request'[k] # None
               /\ effect[k] /\ Kind[k] # "demand" => effect'[k]
    BY <1>19 DEF DeployActivatesWorld
  <1>20. ASSUME NEW w \in Workers, RegistrationFails(w)
        PROVE  /\ request[k] # None => request'[k] # None
               /\ effect[k] /\ Kind[k] # "demand" => effect'[k]
    BY <1>20 DEF RegistrationFails
  <1>21. ASSUME NEW w \in Workers, HandlerThrows(w)
        PROVE  /\ request[k] # None => request'[k] # None
               /\ effect[k] /\ Kind[k] # "demand" => effect'[k]
    BY <1>21 DEF HandlerThrows
  <1>22. ASSUME NEW w \in Workers, HandlerReturns(w)
        PROVE  /\ request[k] # None => request'[k] # None
               /\ effect[k] /\ Kind[k] # "demand" => effect'[k]
    BY <1>22 DEF HandlerReturns
  <1>23. ASSUME NEW w \in Workers, CloseHandlerReturns(w)
        PROVE  /\ request[k] # None => request'[k] # None
               /\ effect[k] /\ Kind[k] # "demand" => effect'[k]
    BY <1>23 DEF CloseHandlerReturns
  <1>24. ASSUME NEW w \in Workers, Settle(w)
        PROVE  /\ request[k] # None => request'[k] # None
               /\ effect[k] /\ Kind[k] # "demand" => effect'[k]
    BY <1>24 DEF Settle
  <1>25. ASSUME NEW w \in Workers, SettleFails(w)
        PROVE  /\ request[k] # None => request'[k] # None
               /\ effect[k] /\ Kind[k] # "demand" => effect'[k]
    BY <1>25 DEF SettleFails
  <1>26. ASSUME NEW w \in Workers, Seal(w)
        PROVE  /\ request[k] # None => request'[k] # None
               /\ effect[k] /\ Kind[k] # "demand" => effect'[k]
    BY <1>26 DEF Seal
  <1>27. ASSUME NEW w \in Workers, SealRefused(w)
        PROVE  /\ request[k] # None => request'[k] # None
               /\ effect[k] /\ Kind[k] # "demand" => effect'[k]
    BY <1>27 DEF SealRefused
  <1>28. ASSUME NEW w \in Workers, SealBlocked(w)
        PROVE  /\ request[k] # None => request'[k] # None
               /\ effect[k] /\ Kind[k] # "demand" => effect'[k]
    BY <1>28 DEF SealBlocked
  <1>29. ASSUME NEW w \in Workers, ReleaseApplied(w)
        PROVE  /\ request[k] # None => request'[k] # None
               /\ effect[k] /\ Kind[k] # "demand" => effect'[k]
    BY <1>29 DEF ReleaseApplied
  <1>30. ASSUME NEW w \in Workers, ReleasePartialWorld(w)
        PROVE  /\ request[k] # None => request'[k] # None
               /\ effect[k] /\ Kind[k] # "demand" => effect'[k]
    BY <1>30 DEF ReleasePartialWorld
  <1>31. ASSUME NEW w \in Workers, Reject(w)
        PROVE  /\ request[k] # None => request'[k] # None
               /\ effect[k] /\ Kind[k] # "demand" => effect'[k]
    BY <1>31 DEF Reject
  <1>32. ASSUME NEW w \in Workers, LoseClaim(w)
        PROVE  /\ request[k] # None => request'[k] # None
               /\ effect[k] /\ Kind[k] # "demand" => effect'[k]
    BY <1>32 DEF LoseClaim
  <1>33. ASSUME NEW w \in Workers, Abandon(w)
        PROVE  /\ request[k] # None => request'[k] # None
               /\ effect[k] /\ Kind[k] # "demand" => effect'[k]
    BY <1>33 DEF Abandon
  <1>34. CASE CalmDown
    BY <1>34 DEF CalmDown
  <1>35. CASE UNCHANGED vars
    BY <1>35 DEF vars
  <1>36. ASSUME NEW w \in Workers, PrepareFails(w)
        PROVE  /\ request[k] # None => request'[k] # None
               /\ effect[k] /\ Kind[k] # "demand" => effect'[k]
    BY <1>36 DEF PrepareFails
  <1>37. ASSUME NEW w \in Workers, BeginHandlerFails(w)
        PROVE  /\ request[k] # None => request'[k] # None
               /\ effect[k] /\ Kind[k] # "demand" => effect'[k]
    BY <1>37 DEF BeginHandlerFails
  <1> QED BY <1>1, <1>2, <1>3, <1>4, <1>5, <1>6, <1>7, <1>8, <1>9, <1>10, <1>11, <1>12, <1>13, <1>14, <1>15,
             <1>16, <1>17, <1>18, <1>19, <1>20, <1>21, <1>22, <1>23, <1>24, <1>25, <1>26, <1>27, <1>28,
             <1>29, <1>30, <1>31, <1>32, <1>33, <1>34, <1>35,
             <1>36, <1>37 DEF Next, Work, Handler, Fault

\* A worker that does not move keeps its invariant.
LEMMA OtherAttempt ==
    ASSUME NEW v \in Workers, Attempt(v), worker'[v] = worker[v],
           \A k \in Commands : /\ request[k] # None => request'[k] # None
                               /\ effect[k] /\ Kind[k] # "demand" => effect'[k]
    PROVE  Attempt(v)'
  BY DEF Attempt, Handling, Busy, HandledKinds

\* Every step keeps what the workers know.
LEMMA AttemptStep ==
    ASSUME TypeOK, \A w \in Workers : Attempt(w), [Next]_vars, NEW v \in Workers
    PROVE  Attempt(v)'
  <1>0. \A k \in Commands : /\ request[k] # None => request'[k] # None
                            /\ effect[k] /\ Kind[k] # "demand" => effect'[k]
    BY NothingTakenBack
  <1> USE CommandsAssumption
  <1>1. ASSUME NEW c \in Commands, Receive(c)
        PROVE  Attempt(v)'
    <2>1. worker'[v] = worker[v]
      BY <1>1 DEF Receive, TypeOK
    <2> QED BY <1>0, <2>1, OtherAttempt
  <1>2. ASSUME NEW c \in Commands, LeaseExpires(c)
        PROVE  Attempt(v)'
    <2>1. worker'[v] = worker[v]
      BY <1>2 DEF LeaseExpires, TypeOK
    <2> QED BY <1>0, <2>1, OtherAttempt
  <1>3. ASSUME NEW w \in Workers, StartCycle(w)
        PROVE  Attempt(v)'
    <2>1. CASE v = w
      BY <1>3, <2>1 DEF StartCycle, TypeOK, Attempt, Handling, Busy, HandledKinds
    <2>2. CASE v # w
      <3>1. worker'[v] = worker[v]
        BY <1>3, <2>2 DEF StartCycle, TypeOK
      <3> QED BY <1>0, <3>1, OtherAttempt
    <2> QED BY <2>1, <2>2
  <1>4. ASSUME NEW w \in Workers, Claim(w)
        PROVE  Attempt(v)'
    <2>0. Candidate \in Commands
      BY <1>4, CandidateFacts DEF Claim, TypeOK
    <2>1. CASE v = w
      BY <1>4, <2>0, <2>1 DEF Claim, Held, Resting, TypeOK, Attempt, Handling, Busy, HandledKinds
    <2>2. CASE v # w
      <3>1. worker'[v] = worker[v]
        BY <1>4, <2>2 DEF Claim, Held, Resting, TypeOK
      <3> QED BY <1>0, <3>1, OtherAttempt
    <2> QED BY <2>1, <2>2
  <1>5. ASSUME NEW w \in Workers, ClaimFenced(w)
        PROVE  Attempt(v)'
    <2>1. CASE v = w
      BY <1>5, <2>1 DEF ClaimFenced, Resting, TypeOK, Attempt, Handling, Busy, HandledKinds
    <2>2. CASE v # w
      <3>1. worker'[v] = worker[v]
        BY <1>5, <2>2 DEF ClaimFenced, Resting, TypeOK
      <3> QED BY <1>0, <3>1, OtherAttempt
    <2> QED BY <2>1, <2>2
  <1>6. ASSUME NEW w \in Workers, QueueDrained(w)
        PROVE  Attempt(v)'
    <2>1. CASE v = w
      BY <1>6, <2>1 DEF QueueDrained, TypeOK, Attempt, Handling, Busy, HandledKinds
    <2>2. CASE v # w
      <3>1. worker'[v] = worker[v]
        BY <1>6, <2>2 DEF QueueDrained, TypeOK
      <3> QED BY <1>0, <3>1, OtherAttempt
    <2> QED BY <2>1, <2>2
  <1>7. ASSUME NEW w \in Workers, DispatchOutbox(w)
        PROVE  Attempt(v)'
    <2>1. CASE v = w
      BY <1>7, <2>1 DEF DispatchOutbox, Resting, TypeOK, Attempt, Handling, Busy, HandledKinds
    <2>2. CASE v # w
      <3>1. worker'[v] = worker[v]
        BY <1>7, <2>2 DEF DispatchOutbox, Resting, TypeOK
      <3> QED BY <1>0, <3>1, OtherAttempt
    <2> QED BY <2>1, <2>2
  <1>8. ASSUME NEW w \in Workers, RejectForeign(w)
        PROVE  Attempt(v)'
    <2>1. CASE v = w
      BY <1>8, <2>1 DEF RejectForeign, Row, NextCommand, Resting, TypeOK, Attempt, Handling, Busy, HandledKinds
    <2>2. CASE v # w
      <3>1. worker'[v] = worker[v]
        BY <1>8, <2>2 DEF RejectForeign, Row, NextCommand, Resting, TypeOK
      <3> QED BY <1>0, <3>1, OtherAttempt
    <2> QED BY <2>1, <2>2
  <1>9. ASSUME NEW w \in Workers, ApplyEntitlement(w)
        PROVE  Attempt(v)'
    <2>1. CASE v = w
      BY <1>9, <2>1 DEF ApplyEntitlement, Row, NextCommand, Resting, TypeOK, Attempt, Handling, Busy,
         HandledKinds
    <2>2. CASE v # w
      <3>1. worker'[v] = worker[v]
        BY <1>9, <2>2 DEF ApplyEntitlement, Row, NextCommand, Resting, TypeOK
      <3> QED BY <1>0, <3>1, OtherAttempt
    <2> QED BY <2>1, <2>2
  <1>10. ASSUME NEW w \in Workers, EntitlementFails(w)
        PROVE  Attempt(v)'
    <2>1. CASE v = w
      BY <1>10, <2>1 DEF EntitlementFails, TypeOK, Attempt, Handling, Busy, HandledKinds
    <2>2. CASE v # w
      <3>1. worker'[v] = worker[v]
        BY <1>10, <2>2 DEF EntitlementFails, TypeOK
      <3> QED BY <1>0, <3>1, OtherAttempt
    <2> QED BY <2>1, <2>2
  <1>11. ASSUME NEW w \in Workers, ApplyDemandData(w)
        PROVE  Attempt(v)'
    <2>1. CASE v = w
      BY <1>11, <2>1 DEF ApplyDemandData, Row, NextCommand, Resting, TypeOK, Attempt, Handling, Busy,
         HandledKinds
    <2>2. CASE v # w
      <3>1. worker'[v] = worker[v]
        BY <1>11, <2>2 DEF ApplyDemandData, Row, NextCommand, Resting, TypeOK
      <3> QED BY <1>0, <3>1, OtherAttempt
    <2> QED BY <2>1, <2>2
  <1>12. ASSUME NEW w \in Workers, DemandDataFails(w)
        PROVE  Attempt(v)'
    <2>1. CASE v = w
      BY <1>12, <2>1 DEF DemandDataFails, Row, Rethrow, Resting, TypeOK, Attempt, Handling, Busy, HandledKinds
    <2>2. CASE v # w
      <3>1. worker'[v] = worker[v]
        BY <1>12, <2>2 DEF DemandDataFails, Row, Rethrow, Resting, TypeOK
      <3> QED BY <1>0, <3>1, OtherAttempt
    <2> QED BY <2>1, <2>2
  <1>13. ASSUME NEW w \in Workers, Prepare(w)
        PROVE  Attempt(v)'
    <2>1. CASE v = w
      BY <1>13, <1>0, <2>1 DEF None, Prepare, TypeOK, Attempt, Handling, Busy, HandledKinds
    <2>2. CASE v # w
      <3>1. worker'[v] = worker[v]
        BY <1>13, <2>2 DEF Prepare, TypeOK
      <3> QED BY <1>0, <3>1, OtherAttempt
    <2> QED BY <2>1, <2>2
  <1>14. ASSUME NEW w \in Workers, BeginHandler(w)
        PROVE  Attempt(v)'
    <2>1. CASE v = w
      BY <1>14, <1>0, <2>1 DEF None, BeginHandler, Held, TypeOK, Attempt, Handling, Busy, HandledKinds
    <2>2. CASE v # w
      <3>1. worker'[v] = worker[v]
        BY <1>14, <2>2 DEF BeginHandler, Held, TypeOK
      <3> QED BY <1>0, <3>1, OtherAttempt
    <2> QED BY <2>1, <2>2
  <1>15. ASSUME NEW w \in Workers, Heartbeat(w)
        PROVE  Attempt(v)'
    <2>1. worker'[v] = worker[v]
      BY <1>15 DEF Heartbeat, TypeOK
    <2> QED BY <1>0, <2>1, OtherAttempt
  <1>16. ASSUME NEW w \in Workers, HandlerApplies(w)
        PROVE  Attempt(v)'
    <2>1. CASE v = w
      BY <1>16, <2>1 DEF HandlerApplies, TypeOK, Attempt, Handling, Busy, HandledKinds
    <2>2. CASE v # w
      <3>1. worker'[v] = worker[v]
        BY <1>16, <2>2 DEF HandlerApplies, TypeOK
      <3> QED BY <1>0, <3>1, OtherAttempt
    <2> QED BY <2>1, <2>2
  <1>17. ASSUME NEW w \in Workers, HandlerDeclines(w)
        PROVE  Attempt(v)'
    <2>1. CASE v = w
      BY <1>17, <2>1 DEF HandlerDeclines, TypeOK, Attempt, Handling, Busy, HandledKinds
    <2>2. CASE v # w
      <3>1. worker'[v] = worker[v]
        BY <1>17, <2>2 DEF HandlerDeclines, TypeOK
      <3> QED BY <1>0, <3>1, OtherAttempt
    <2> QED BY <2>1, <2>2
  <1>18. ASSUME NEW w \in Workers, DeployCreatesWorld(w)
        PROVE  Attempt(v)'
    <2>1. worker'[v] = worker[v]
      BY <1>18 DEF DeployCreatesWorld, TypeOK
    <2> QED BY <1>0, <2>1, OtherAttempt
  <1>19. ASSUME NEW w \in Workers, DeployActivatesWorld(w)
        PROVE  Attempt(v)'
    <2>1. CASE v = w
      BY <1>19, <2>1 DEF DeployActivatesWorld, TypeOK, Attempt, Handling, Busy, HandledKinds
    <2>2. CASE v # w
      <3>1. worker'[v] = worker[v]
        BY <1>19, <2>2 DEF DeployActivatesWorld, TypeOK
      <3> QED BY <1>0, <3>1, OtherAttempt
    <2> QED BY <2>1, <2>2
  <1>20. ASSUME NEW w \in Workers, RegistrationFails(w)
        PROVE  Attempt(v)'
    <2>1. CASE v = w
      BY <1>20, <2>1 DEF RegistrationFails, TypeOK, Attempt, Handling, Busy, HandledKinds
    <2>2. CASE v # w
      <3>1. worker'[v] = worker[v]
        BY <1>20, <2>2 DEF RegistrationFails, TypeOK
      <3> QED BY <1>0, <3>1, OtherAttempt
    <2> QED BY <2>1, <2>2
  <1>21. ASSUME NEW w \in Workers, HandlerThrows(w)
        PROVE  Attempt(v)'
    <2>1. CASE v = w
      BY <1>21, <2>1 DEF HandlerThrows, TypeOK, Attempt, Handling, Busy, HandledKinds
    <2>2. CASE v # w
      <3>1. worker'[v] = worker[v]
        BY <1>21, <2>2 DEF HandlerThrows, TypeOK
      <3> QED BY <1>0, <3>1, OtherAttempt
    <2> QED BY <2>1, <2>2
  <1>22. ASSUME NEW w \in Workers, HandlerReturns(w)
        PROVE  Attempt(v)'
    <2>1. CASE v = w
      BY <1>22, <2>1 DEF HandlerReturns, Held, TypeOK, Attempt, Handling, Busy, HandledKinds
    <2>2. CASE v # w
      <3>1. worker'[v] = worker[v]
        BY <1>22, <2>2 DEF HandlerReturns, Held, TypeOK
      <3> QED BY <1>0, <3>1, OtherAttempt
    <2> QED BY <2>1, <2>2
  <1>23. ASSUME NEW w \in Workers, CloseHandlerReturns(w)
        PROVE  Attempt(v)'
    <2>1. CASE v = w
      BY <1>23, <2>1 DEF CloseHandlerReturns, Held, TypeOK, Attempt, Handling, Busy, HandledKinds
    <2>2. CASE v # w
      <3>1. worker'[v] = worker[v]
        BY <1>23, <2>2 DEF CloseHandlerReturns, Held, TypeOK
      <3> QED BY <1>0, <3>1, OtherAttempt
    <2> QED BY <2>1, <2>2
  <1>24. ASSUME NEW w \in Workers, Settle(w)
        PROVE  Attempt(v)'
    <2>1. CASE v = w
      BY <1>24, <2>1 DEF Settle, Row, NextCommand, Resting, TypeOK, Attempt, Handling, Busy, HandledKinds
    <2>2. CASE v # w
      <3>1. worker'[v] = worker[v]
        BY <1>24, <2>2 DEF Settle, Row, NextCommand, Resting, TypeOK
      <3> QED BY <1>0, <3>1, OtherAttempt
    <2> QED BY <2>1, <2>2
  <1>25. ASSUME NEW w \in Workers, SettleFails(w)
        PROVE  Attempt(v)'
    <2>1. CASE v = w
      BY <1>25, <2>1 DEF SettleFails, TypeOK, Attempt, Handling, Busy, HandledKinds
    <2>2. CASE v # w
      <3>1. worker'[v] = worker[v]
        BY <1>25, <2>2 DEF SettleFails, TypeOK
      <3> QED BY <1>0, <3>1, OtherAttempt
    <2> QED BY <2>1, <2>2
  <1>26. ASSUME NEW w \in Workers, Seal(w)
        PROVE  Attempt(v)'
    <2>1. CASE v = w
      BY <1>26, <2>1 DEF Seal, Row, NextCommand, Resting, TypeOK, Attempt, Handling, Busy, HandledKinds
    <2>2. CASE v # w
      <3>1. worker'[v] = worker[v]
        BY <1>26, <2>2 DEF Seal, Row, NextCommand, Resting, TypeOK
      <3> QED BY <1>0, <3>1, OtherAttempt
    <2> QED BY <2>1, <2>2
  <1>27. ASSUME NEW w \in Workers, SealRefused(w)
        PROVE  Attempt(v)'
    <2>1. CASE v = w
      BY <1>27, <2>1 DEF SealRefused, TypeOK, Attempt, Handling, Busy, HandledKinds
    <2>2. CASE v # w
      <3>1. worker'[v] = worker[v]
        BY <1>27, <2>2 DEF SealRefused, TypeOK
      <3> QED BY <1>0, <3>1, OtherAttempt
    <2> QED BY <2>1, <2>2
  <1>28. ASSUME NEW w \in Workers, SealBlocked(w)
        PROVE  Attempt(v)'
    <2>1. CASE v = w
      BY <1>28, <2>1 DEF SealBlocked, Row, Rethrow, Resting, TypeOK, Attempt, Handling, Busy, HandledKinds
    <2>2. CASE v # w
      <3>1. worker'[v] = worker[v]
        BY <1>28, <2>2 DEF SealBlocked, Row, Rethrow, Resting, TypeOK
      <3> QED BY <1>0, <3>1, OtherAttempt
    <2> QED BY <2>1, <2>2
  <1>29. ASSUME NEW w \in Workers, ReleaseApplied(w)
        PROVE  Attempt(v)'
    <2>1. CASE v = w
      BY <1>29, <2>1 DEF ReleaseApplied, Row, Rethrow, Resting, TypeOK, Attempt, Handling, Busy, HandledKinds
    <2>2. CASE v # w
      <3>1. worker'[v] = worker[v]
        BY <1>29, <2>2 DEF ReleaseApplied, Row, Rethrow, Resting, TypeOK
      <3> QED BY <1>0, <3>1, OtherAttempt
    <2> QED BY <2>1, <2>2
  <1>30. ASSUME NEW w \in Workers, ReleasePartialWorld(w)
        PROVE  Attempt(v)'
    <2>1. CASE v = w
      BY <1>30, <2>1 DEF ReleasePartialWorld, Row, Rethrow, Resting, TypeOK, Attempt, Handling, Busy,
         HandledKinds
    <2>2. CASE v # w
      <3>1. worker'[v] = worker[v]
        BY <1>30, <2>2 DEF ReleasePartialWorld, Row, Rethrow, Resting, TypeOK
      <3> QED BY <1>0, <3>1, OtherAttempt
    <2> QED BY <2>1, <2>2
  <1>31. ASSUME NEW w \in Workers, Reject(w)
        PROVE  Attempt(v)'
    <2>1. CASE v = w
      BY <1>31, <2>1 DEF Reject, Row, NextCommand, Resting, TypeOK, Attempt, Handling, Busy, HandledKinds
    <2>2. CASE v # w
      <3>1. worker'[v] = worker[v]
        BY <1>31, <2>2 DEF Reject, Row, NextCommand, Resting, TypeOK
      <3> QED BY <1>0, <3>1, OtherAttempt
    <2> QED BY <2>1, <2>2
  <1>32. ASSUME NEW w \in Workers, LoseClaim(w)
        PROVE  Attempt(v)'
    <2>1. CASE v = w
      BY <1>32, <2>1 DEF LoseClaim, Rethrow, Resting, TypeOK, Attempt, Handling, Busy, HandledKinds
    <2>2. CASE v # w
      <3>1. worker'[v] = worker[v]
        BY <1>32, <2>2 DEF LoseClaim, Rethrow, Resting, TypeOK
      <3> QED BY <1>0, <3>1, OtherAttempt
    <2> QED BY <2>1, <2>2
  <1>33. ASSUME NEW w \in Workers, Abandon(w)
        PROVE  Attempt(v)'
    <2>1. CASE v = w
      BY <1>33, <2>1 DEF Abandon, Rethrow, Resting, TypeOK, Attempt, Handling, Busy, HandledKinds
    <2>2. CASE v # w
      <3>1. worker'[v] = worker[v]
        BY <1>33, <2>2 DEF Abandon, Rethrow, Resting, TypeOK
      <3> QED BY <1>0, <3>1, OtherAttempt
    <2> QED BY <2>1, <2>2
  <1>34. CASE CalmDown
    BY <1>0, <1>34, OtherAttempt DEF CalmDown
  <1>35. CASE UNCHANGED vars
    BY <1>0, <1>35, OtherAttempt DEF vars
  <1>36. ASSUME NEW w \in Workers, PrepareFails(w)
        PROVE  Attempt(v)'
    <2>1. CASE v = w
      <3>1. worker'[w] = [worker[w] EXCEPT !.pc = "failed"] /\ worker[w].pc = "claimed"
        BY <1>36 DEF PrepareFails, TypeOK
      <3>2. worker'[w].cmd = worker[w].cmd /\ worker'[w].pc = "failed"
        BY <3>1 DEF TypeOK
      <3> QED BY <1>36, <1>0, <2>1, <3>1, <3>2
              DEF None, PrepareFails, TypeOK, Attempt, Handling, Busy, HandledKinds, AdminKinds
    <2>2. CASE v # w
      <3>1. worker'[v] = worker[v]
        BY <1>36, <2>2 DEF PrepareFails, TypeOK
      <3> QED BY <1>0, <3>1, OtherAttempt
    <2> QED BY <2>1, <2>2
  <1>37. ASSUME NEW w \in Workers, BeginHandlerFails(w)
        PROVE  Attempt(v)'
    <2>1. CASE v = w
      BY <1>37, <2>1 DEF BeginHandlerFails, TypeOK, Attempt, Handling, Busy, HandledKinds
    <2>2. CASE v # w
      <3>1. worker'[v] = worker[v]
        BY <1>37, <2>2 DEF BeginHandlerFails, TypeOK
      <3> QED BY <1>0, <3>1, OtherAttempt
    <2> QED BY <2>1, <2>2
  <1> QED BY <1>1, <1>2, <1>3, <1>4, <1>5, <1>6, <1>7, <1>8, <1>9, <1>10, <1>11, <1>12, <1>13, <1>14, <1>15,
             <1>16, <1>17, <1>18, <1>19, <1>20, <1>21, <1>22, <1>23, <1>24, <1>25, <1>26, <1>27, <1>28,
             <1>29, <1>30, <1>31, <1>32, <1>33, <1>34, <1>35,
             <1>36, <1>37 DEF Next, Work, Handler, Fault

\* A command whose rows a step leaves alone keeps its invariant.
LEMMA OtherRows ==
    ASSUME NEW k \in Commands, Rows(k), queue'[k] = queue[k], request'[k] = request[k],
           results'[k] = results[k], effect[k] => effect'[k],
           k \in blind => k \in blind'
    PROVE  Rows(k)'
  BY DEF Rows

\* Every step keeps the rows of a command in agreement.
LEMMA RowsStep ==
    ASSUME TypeOK, \A w \in Workers : Attempt(w), [Next]_vars, NEW k \in Commands, Rows(k)
    PROVE  Rows(k)'
  <1> USE CommandsAssumption
  <1>1. ASSUME NEW c \in Commands, Receive(c)
        PROVE  Rows(k)'
    <2>1. CASE k = c
      BY <1>1, <2>1 DEF Receive, Row, TypeOK, Attempt, Rows, Settled, AdminKinds, Busy, Handling,
         HandledKinds, None
    <2>2. CASE k # c
      BY <1>1, <2>2, OtherRows DEF Receive, Row, TypeOK
    <2> QED BY <2>1, <2>2
  <1>2. ASSUME NEW c \in Commands, LeaseExpires(c)
        PROVE  Rows(k)'
    <2>1. CASE k = c
      BY <1>2, <2>1 DEF LeaseExpires, TypeOK, Attempt, Rows, Settled, AdminKinds, Busy, Handling,
         HandledKinds, None
    <2>2. CASE k # c
      BY <1>2, <2>2, OtherRows DEF LeaseExpires, TypeOK
    <2> QED BY <2>1, <2>2
  <1>3. ASSUME NEW w \in Workers, StartCycle(w)
        PROVE  Rows(k)'
    BY <1>3, OtherRows DEF StartCycle, TypeOK
  <1>4. ASSUME NEW w \in Workers, Claim(w)
        PROVE  Rows(k)'
    <2>1. Candidate \in Commands /\ Eligible(Candidate)
      BY <1>4, CandidateFacts DEF Claim, TypeOK
    <2>2. CASE k = Candidate
      BY <1>4, <2>1, <2>2 DEF Claim, Held, Eligible, TypeOK, Rows, Settled
    <2>3. CASE k # Candidate
      BY <1>4, <2>3, OtherRows DEF Claim, TypeOK
    <2> QED BY <2>2, <2>3
  <1>5. ASSUME NEW w \in Workers, ClaimFenced(w)
        PROVE  Rows(k)'
    BY <1>5, OtherRows DEF ClaimFenced, TypeOK
  <1>6. ASSUME NEW w \in Workers, QueueDrained(w)
        PROVE  Rows(k)'
    BY <1>6, OtherRows DEF QueueDrained, TypeOK
  <1>7. ASSUME NEW w \in Workers, DispatchOutbox(w)
        PROVE  Rows(k)'
    BY <1>7, OtherRows DEF DispatchOutbox, TypeOK
  <1>8. ASSUME NEW w \in Workers, RejectForeign(w)
        PROVE  Rows(k)'
    <2>1. CASE k = worker[w].cmd
      BY <1>8, <2>1 DEF RejectForeign, Owns, Row, TypeOK, Attempt, Rows, Settled, AdminKinds, Busy,
         Handling, HandledKinds, None
    <2>2. CASE k # worker[w].cmd
      BY <1>8, <2>2, OtherRows DEF RejectForeign, Owns, Row, TypeOK
    <2> QED BY <2>1, <2>2
  <1>9. ASSUME NEW w \in Workers, ApplyEntitlement(w)
        PROVE  Rows(k)'
    <2>1. CASE k = worker[w].cmd
      BY <1>9, <2>1 DEF ApplyEntitlement, Owns, Row, TypeOK, Attempt, Rows, Settled, AdminKinds, Busy,
         Handling, HandledKinds, None
    <2>2. CASE k # worker[w].cmd
      BY <1>9, <2>2, OtherRows DEF ApplyEntitlement, Owns, Row, TypeOK
    <2> QED BY <2>1, <2>2
  <1>10. ASSUME NEW w \in Workers, EntitlementFails(w)
        PROVE  Rows(k)'
    BY <1>10, OtherRows DEF EntitlementFails, TypeOK
  <1>11. ASSUME NEW w \in Workers, ApplyDemandData(w)
        PROVE  Rows(k)'
    <2>1. CASE k = worker[w].cmd
      <3>1. queue[k].status = "processing" /\ k \notin Foreign
        BY <1>11, <2>1 DEF ApplyDemandData, Owns, Attempt, Handling
      <3>2. results[k] = <<>>
        BY <3>1 DEF Rows
      <3>3. PICK outcome \in {"accepted", "rejected"} :
              /\ effect' = [effect EXCEPT ![k] = outcome = "accepted"]
              /\ queue' = [queue EXCEPT ![k] = Row(IF outcome = "accepted" THEN "completed" ELSE "rejected")]
              /\ results' = [results EXCEPT ![k] = Append(@, outcome)]
        BY <1>11, <2>1 DEF ApplyDemandData
      <3>4. results'[k] = <<outcome>>
        BY <3>2, <3>3 DEF TypeOK
      <3>5. queue'[k].status = IF outcome = "accepted" THEN "completed" ELSE "rejected"
        BY <3>3 DEF TypeOK, Row
      <3>6. effect'[k] = (outcome = "accepted")
        BY <3>3 DEF TypeOK
      <3>7. request'[k] = request[k] /\ Kind[k] = "demand"
        BY <1>11, <2>1 DEF ApplyDemandData
      <3> QED BY <3>1, <3>3, <3>4, <3>5, <3>6, <3>7 DEF Rows, Settled, AdminKinds, None
    <2>2. CASE k # worker[w].cmd
      BY <1>11, <2>2, OtherRows DEF ApplyDemandData, TypeOK
    <2> QED BY <2>1, <2>2
  <1>12. ASSUME NEW w \in Workers, DemandDataFails(w)
        PROVE  Rows(k)'
    <2>1. CASE k = worker[w].cmd
      BY <1>12, <2>1 DEF DemandDataFails, Owns, Row, TypeOK, Attempt, Rows, Settled, AdminKinds, Busy,
         Handling, HandledKinds, None
    <2>2. CASE k # worker[w].cmd
      BY <1>12, <2>2, OtherRows DEF DemandDataFails, Owns, Row, TypeOK
    <2> QED BY <2>1, <2>2
  <1>13. ASSUME NEW w \in Workers, Prepare(w)
        PROVE  Rows(k)'
    <2>1. CASE k = worker[w].cmd
      BY <1>13, <2>1 DEF Prepare, TypeOK, Attempt, Rows, Settled, AdminKinds, Busy, Handling, HandledKinds, None
    <2>2. CASE k # worker[w].cmd
      BY <1>13, <2>2, OtherRows DEF Prepare, TypeOK
    <2> QED BY <2>1, <2>2
  <1>14. ASSUME NEW w \in Workers, BeginHandler(w)
        PROVE  Rows(k)'
    <2>1. CASE k = worker[w].cmd
      BY <1>14, <2>1 DEF BeginHandler, Owns, Held, TypeOK, Attempt, Rows, Settled, AdminKinds, Busy,
         Handling, HandledKinds, None
    <2>2. CASE k # worker[w].cmd
      BY <1>14, <2>2, OtherRows DEF BeginHandler, Owns, Held, TypeOK
    <2> QED BY <2>1, <2>2
  <1>15. ASSUME NEW w \in Workers, Heartbeat(w)
        PROVE  Rows(k)'
    <2>1. CASE k = worker[w].cmd
      BY <1>15, <2>1 DEF Heartbeat, Owns, TypeOK, Attempt, Rows, Settled, AdminKinds, Busy, Handling,
         HandledKinds, None
    <2>2. CASE k # worker[w].cmd
      BY <1>15, <2>2, OtherRows DEF Heartbeat, Owns, TypeOK
    <2> QED BY <2>1, <2>2
  <1>16. ASSUME NEW w \in Workers, HandlerApplies(w)
        PROVE  Rows(k)'
    BY <1>16, OtherRows DEF HandlerApplies, TypeOK
  <1>17. ASSUME NEW w \in Workers, HandlerDeclines(w)
        PROVE  Rows(k)'
    BY <1>17, OtherRows DEF HandlerDeclines, TypeOK
  <1>18. ASSUME NEW w \in Workers, DeployCreatesWorld(w)
        PROVE  Rows(k)'
    BY <1>18, OtherRows DEF DeployCreatesWorld, TypeOK
  <1>19. ASSUME NEW w \in Workers, DeployActivatesWorld(w)
        PROVE  Rows(k)'
    BY <1>19, OtherRows DEF DeployActivatesWorld, TypeOK
  <1>20. ASSUME NEW w \in Workers, RegistrationFails(w)
        PROVE  Rows(k)'
    BY <1>20, OtherRows DEF RegistrationFails, TypeOK
  <1>21. ASSUME NEW w \in Workers, HandlerThrows(w)
        PROVE  Rows(k)'
    BY <1>21, OtherRows DEF HandlerThrows, TypeOK
  <1>22. ASSUME NEW w \in Workers, HandlerReturns(w)
        PROVE  Rows(k)'
    <2>1. CASE k = worker[w].cmd
      BY <1>22, <2>1 DEF HandlerReturns, Owns, Held, TypeOK, Attempt, Rows, Settled, AdminKinds, Busy,
         Handling, HandledKinds, None
    <2>2. CASE k # worker[w].cmd
      BY <1>22, <2>2, OtherRows DEF HandlerReturns, Owns, Held, TypeOK
    <2> QED BY <2>1, <2>2
  <1>23. ASSUME NEW w \in Workers, CloseHandlerReturns(w)
        PROVE  Rows(k)'
    <2>1. CASE k = worker[w].cmd
      BY <1>23, <2>1 DEF CloseHandlerReturns, Owns, Held, TypeOK, Attempt, Rows, Settled, AdminKinds, Busy,
         Handling, HandledKinds, None
    <2>2. CASE k # worker[w].cmd
      BY <1>23, <2>2, OtherRows DEF CloseHandlerReturns, Owns, Held, TypeOK
    <2> QED BY <2>1, <2>2
  <1>24. ASSUME NEW w \in Workers, Settle(w)
        PROVE  Rows(k)'
    <2>1. CASE k = worker[w].cmd
      <3>1. queue[k].status = "processing" /\ k \notin Foreign
        BY <1>24, <2>1 DEF Settle, Owns, Attempt, Handling
      <3>2. results[k] = <<>>
        BY <3>1 DEF Rows
      <3>3. results'[k] = <<worker[w].outcome>>
        BY <1>24, <2>1, <3>2 DEF Settle, TypeOK
      <3>4. queue'[k].status = IF worker[w].outcome = "accepted" THEN "completed" ELSE "rejected"
        BY <1>24, <2>1 DEF Settle, TypeOK, Row
      <3>5. request'[k] = IF Kind[k] \in AdminKinds THEN "completed" ELSE request[k]
        BY <1>24, <2>1 DEF Settle, TypeOK
      <3>6. effect'[k] = effect[k] /\ worker[w].pc = "settling"
        BY <1>24, <2>1 DEF Settle
      <3> QED BY <2>1, <3>1, <3>3, <3>4, <3>5, <3>6 DEF TypeOK, Attempt, Rows, Settled, AdminKinds, Busy,
                 Handling, HandledKinds, None
    <2>2. CASE k # worker[w].cmd
      BY <1>24, <2>2, OtherRows DEF Settle, TypeOK
    <2> QED BY <2>1, <2>2
  <1>25. ASSUME NEW w \in Workers, SettleFails(w)
        PROVE  Rows(k)'
    BY <1>25, OtherRows DEF SettleFails, TypeOK
  <1>26. ASSUME NEW w \in Workers, Seal(w)
        PROVE  Rows(k)'
    <2>1. CASE k = worker[w].cmd
      <3>1. queue[k].status = "processing" /\ k \notin Foreign
        BY <1>26, <2>1 DEF Seal, Owns, Attempt, Handling
      <3>2. results[k] = <<>>
        BY <3>1 DEF Rows
      <3>3. results'[k] = <<"accepted">>
        BY <1>26, <2>1, <3>2 DEF Seal, TypeOK
      <3>4. /\ queue'[k].status = "completed" /\ request'[k] = "completed"
            /\ effect'[k] /\ Kind[k] = "close"
        BY <1>26, <2>1 DEF Seal, TypeOK, Row, Attempt
      <3> QED BY <3>1, <3>3, <3>4 DEF Rows, Settled, AdminKinds, None
    <2>2. CASE k # worker[w].cmd
      BY <1>26, <2>2, OtherRows DEF Seal, TypeOK
    <2> QED BY <2>1, <2>2
  <1>27. ASSUME NEW w \in Workers, SealRefused(w)
        PROVE  Rows(k)'
    BY <1>27, OtherRows DEF SealRefused, TypeOK
  <1>28. ASSUME NEW w \in Workers, SealBlocked(w)
        PROVE  Rows(k)'
    <2>1. CASE k = worker[w].cmd
      BY <1>28, <2>1 DEF SealBlocked, Owns, Row, TypeOK, Attempt, Rows, Settled, AdminKinds, Busy, Handling,
         HandledKinds, None
    <2>2. CASE k # worker[w].cmd
      BY <1>28, <2>2, OtherRows DEF SealBlocked, Owns, Row, TypeOK
    <2> QED BY <2>1, <2>2
  <1>29. ASSUME NEW w \in Workers, ReleaseApplied(w)
        PROVE  Rows(k)'
    <2>1. CASE k = worker[w].cmd
      BY <1>29, <2>1 DEF ReleaseApplied, Owns, Row, TypeOK, Attempt, Rows, Settled, AdminKinds, Busy,
         Handling, HandledKinds, None
    <2>2. CASE k # worker[w].cmd
      BY <1>29, <2>2, OtherRows DEF ReleaseApplied, Owns, Row, TypeOK
    <2> QED BY <2>1, <2>2
  <1>30. ASSUME NEW w \in Workers, ReleasePartialWorld(w)
        PROVE  Rows(k)'
    <2>1. CASE k = worker[w].cmd
      BY <1>30, <2>1 DEF ReleasePartialWorld, Owns, Row, TypeOK, Attempt, Rows, Settled, AdminKinds, Busy,
         Handling, HandledKinds, None
    <2>2. CASE k # worker[w].cmd
      BY <1>30, <2>2, OtherRows DEF ReleasePartialWorld, Owns, Row, TypeOK
    <2> QED BY <2>1, <2>2
  <1>31. ASSUME NEW w \in Workers, Reject(w)
        PROVE  Rows(k)'
    <2>1. CASE k = worker[w].cmd
      <3>1. queue[k].status = "processing" /\ k \notin Foreign
        BY <1>31, <2>1 DEF Reject, Owns, Attempt, Handling
      <3>2. results[k] = <<>>
        BY <3>1 DEF Rows
      <3>3. results'[k] = IF Kind[k] = "entitlement" THEN <<>> ELSE <<"rejected">>
        BY <1>31, <2>1, <3>2 DEF Reject, TypeOK
      <3>4. queue'[k].status = "rejected" /\ worker[w].pc = "failed"
        BY <1>31, <2>1 DEF Reject, TypeOK, Row
      <3>5. request'[k] = IF Kind[k] \in AdminKinds /\ worker[w].bound /\ (request[k] # None \/ world # "absent")
                          THEN "failed" ELSE request[k]
        BY <1>31, <2>1 DEF Reject, TypeOK
      <3>6. k \in blind' \/ Kind[k] \notin AdminKinds \/ worker[w].bound
        BY <1>31, <2>1 DEF Reject
      <3> QED BY <2>1, <3>1, <3>3, <3>4, <3>5, <3>6 DEF TypeOK, Attempt, Rows, Settled, AdminKinds, Busy,
                 Handling, HandledKinds, None
    <2>2. CASE k # worker[w].cmd
      BY <1>31, <2>2, OtherRows DEF Reject, TypeOK
    <2> QED BY <2>1, <2>2
  <1>32. ASSUME NEW w \in Workers, LoseClaim(w)
        PROVE  Rows(k)'
    BY <1>32, OtherRows DEF LoseClaim, TypeOK
  <1>33. ASSUME NEW w \in Workers, Abandon(w)
        PROVE  Rows(k)'
    BY <1>33, OtherRows DEF Abandon, TypeOK
  <1>34. CASE CalmDown
    BY <1>34, OtherRows DEF CalmDown
  <1>35. CASE UNCHANGED vars
    BY <1>35, OtherRows DEF vars
  <1>36. ASSUME NEW w \in Workers, PrepareFails(w)
        PROVE  Rows(k)'
    <2>1. CASE k = worker[w].cmd
      BY <1>36, <2>1 DEF PrepareFails, TypeOK, Attempt, Rows, Settled, AdminKinds, Busy, Handling, HandledKinds, None
    <2>2. CASE k # worker[w].cmd
      BY <1>36, <2>2, OtherRows DEF PrepareFails, TypeOK
    <2> QED BY <2>1, <2>2
  <1>37. ASSUME NEW w \in Workers, BeginHandlerFails(w)
        PROVE  Rows(k)'
    BY <1>37, OtherRows DEF BeginHandlerFails, TypeOK
  <1> QED BY <1>1, <1>2, <1>3, <1>4, <1>5, <1>6, <1>7, <1>8, <1>9, <1>10, <1>11, <1>12, <1>13, <1>14, <1>15,
             <1>16, <1>17, <1>18, <1>19, <1>20, <1>21, <1>22, <1>23, <1>24, <1>25, <1>26, <1>27, <1>28,
             <1>29, <1>30, <1>31, <1>32, <1>33, <1>34, <1>35,
             <1>36, <1>37 DEF Next, Work, Handler, Fault

\* What is completed stays completed, and a close is completed by its seal only.
LEMMA CompletedStep ==
    ASSUME TypeOK, \A w \in Workers : Attempt(w), [Next]_vars, NEW k \in Commands
    PROVE  /\ queue[k].status = "completed" => queue'[k].status = "completed"
           /\ Kind[k] = "close" /\ queue'[k].status = "completed" =>
                queue[k].status = "completed" \/ world' = "archived"
  <1> USE CommandsAssumption DEF TypeOK
  <1>1. ASSUME NEW c \in Commands, Receive(c)
        PROVE  /\ queue[k].status = "completed" => queue'[k].status = "completed"
               /\ Kind[k] = "close" /\ queue'[k].status = "completed" =>
                    queue[k].status = "completed" \/ world' = "archived"
    BY <1>1 DEF Receive, Row
  <1>2. ASSUME NEW c \in Commands, LeaseExpires(c)
        PROVE  /\ queue[k].status = "completed" => queue'[k].status = "completed"
               /\ Kind[k] = "close" /\ queue'[k].status = "completed" =>
                    queue[k].status = "completed" \/ world' = "archived"
    BY <1>2 DEF LeaseExpires
  <1>3. ASSUME NEW w \in Workers, StartCycle(w)
        PROVE  /\ queue[k].status = "completed" => queue'[k].status = "completed"
               /\ Kind[k] = "close" /\ queue'[k].status = "completed" =>
                    queue[k].status = "completed" \/ world' = "archived"
    BY <1>3 DEF StartCycle
  <1>4. ASSUME NEW w \in Workers, Claim(w)
        PROVE  /\ queue[k].status = "completed" => queue'[k].status = "completed"
               /\ Kind[k] = "close" /\ queue'[k].status = "completed" =>
                    queue[k].status = "completed" \/ world' = "archived"
    <2>1. Candidate \in Commands /\ Eligible(Candidate)
      BY <1>4, CandidateFacts DEF Claim
    <2> QED BY <1>4, <2>1 DEF Claim, Held, Eligible
  <1>5. ASSUME NEW w \in Workers, ClaimFenced(w)
        PROVE  /\ queue[k].status = "completed" => queue'[k].status = "completed"
               /\ Kind[k] = "close" /\ queue'[k].status = "completed" =>
                    queue[k].status = "completed" \/ world' = "archived"
    BY <1>5 DEF ClaimFenced
  <1>6. ASSUME NEW w \in Workers, QueueDrained(w)
        PROVE  /\ queue[k].status = "completed" => queue'[k].status = "completed"
               /\ Kind[k] = "close" /\ queue'[k].status = "completed" =>
                    queue[k].status = "completed" \/ world' = "archived"
    BY <1>6 DEF QueueDrained
  <1>7. ASSUME NEW w \in Workers, DispatchOutbox(w)
        PROVE  /\ queue[k].status = "completed" => queue'[k].status = "completed"
               /\ Kind[k] = "close" /\ queue'[k].status = "completed" =>
                    queue[k].status = "completed" \/ world' = "archived"
    BY <1>7 DEF DispatchOutbox
  <1>8. ASSUME NEW w \in Workers, RejectForeign(w)
        PROVE  /\ queue[k].status = "completed" => queue'[k].status = "completed"
               /\ Kind[k] = "close" /\ queue'[k].status = "completed" =>
                    queue[k].status = "completed" \/ world' = "archived"
    BY <1>8 DEF RejectForeign, Owns, Row
  <1>9. ASSUME NEW w \in Workers, ApplyEntitlement(w)
        PROVE  /\ queue[k].status = "completed" => queue'[k].status = "completed"
               /\ Kind[k] = "close" /\ queue'[k].status = "completed" =>
                    queue[k].status = "completed" \/ world' = "archived"
    BY <1>9 DEF ApplyEntitlement, Owns, Row
  <1>10. ASSUME NEW w \in Workers, EntitlementFails(w)
        PROVE  /\ queue[k].status = "completed" => queue'[k].status = "completed"
               /\ Kind[k] = "close" /\ queue'[k].status = "completed" =>
                    queue[k].status = "completed" \/ world' = "archived"
    BY <1>10 DEF EntitlementFails
  <1>11. ASSUME NEW w \in Workers, ApplyDemandData(w)
        PROVE  /\ queue[k].status = "completed" => queue'[k].status = "completed"
               /\ Kind[k] = "close" /\ queue'[k].status = "completed" =>
                    queue[k].status = "completed" \/ world' = "archived"
    <2>1. CASE k = worker[w].cmd
      BY <1>11, <2>1 DEF ApplyDemandData, Owns
    <2>2. CASE k # worker[w].cmd
      BY <1>11, <2>2 DEF ApplyDemandData
    <2> QED BY <2>1, <2>2
  <1>12. ASSUME NEW w \in Workers, DemandDataFails(w)
        PROVE  /\ queue[k].status = "completed" => queue'[k].status = "completed"
               /\ Kind[k] = "close" /\ queue'[k].status = "completed" =>
                    queue[k].status = "completed" \/ world' = "archived"
    BY <1>12 DEF DemandDataFails, Owns, Row
  <1>13. ASSUME NEW w \in Workers, Prepare(w)
        PROVE  /\ queue[k].status = "completed" => queue'[k].status = "completed"
               /\ Kind[k] = "close" /\ queue'[k].status = "completed" =>
                    queue[k].status = "completed" \/ world' = "archived"
    BY <1>13 DEF Prepare
  <1>14. ASSUME NEW w \in Workers, BeginHandler(w)
        PROVE  /\ queue[k].status = "completed" => queue'[k].status = "completed"
               /\ Kind[k] = "close" /\ queue'[k].status = "completed" =>
                    queue[k].status = "completed" \/ world' = "archived"
    BY <1>14 DEF BeginHandler, Owns, Held
  <1>15. ASSUME NEW w \in Workers, Heartbeat(w)
        PROVE  /\ queue[k].status = "completed" => queue'[k].status = "completed"
               /\ Kind[k] = "close" /\ queue'[k].status = "completed" =>
                    queue[k].status = "completed" \/ world' = "archived"
    BY <1>15 DEF Heartbeat, Owns
  <1>16. ASSUME NEW w \in Workers, HandlerApplies(w)
        PROVE  /\ queue[k].status = "completed" => queue'[k].status = "completed"
               /\ Kind[k] = "close" /\ queue'[k].status = "completed" =>
                    queue[k].status = "completed" \/ world' = "archived"
    BY <1>16 DEF HandlerApplies
  <1>17. ASSUME NEW w \in Workers, HandlerDeclines(w)
        PROVE  /\ queue[k].status = "completed" => queue'[k].status = "completed"
               /\ Kind[k] = "close" /\ queue'[k].status = "completed" =>
                    queue[k].status = "completed" \/ world' = "archived"
    BY <1>17 DEF HandlerDeclines
  <1>18. ASSUME NEW w \in Workers, DeployCreatesWorld(w)
        PROVE  /\ queue[k].status = "completed" => queue'[k].status = "completed"
               /\ Kind[k] = "close" /\ queue'[k].status = "completed" =>
                    queue[k].status = "completed" \/ world' = "archived"
    BY <1>18 DEF DeployCreatesWorld
  <1>19. ASSUME NEW w \in Workers, DeployActivatesWorld(w)
        PROVE  /\ queue[k].status = "completed" => queue'[k].status = "completed"
               /\ Kind[k] = "close" /\ queue'[k].status = "completed" =>
                    queue[k].status = "completed" \/ world' = "archived"
    BY <1>19 DEF DeployActivatesWorld
  <1>20. ASSUME NEW w \in Workers, RegistrationFails(w)
        PROVE  /\ queue[k].status = "completed" => queue'[k].status = "completed"
               /\ Kind[k] = "close" /\ queue'[k].status = "completed" =>
                    queue[k].status = "completed" \/ world' = "archived"
    BY <1>20 DEF RegistrationFails
  <1>21. ASSUME NEW w \in Workers, HandlerThrows(w)
        PROVE  /\ queue[k].status = "completed" => queue'[k].status = "completed"
               /\ Kind[k] = "close" /\ queue'[k].status = "completed" =>
                    queue[k].status = "completed" \/ world' = "archived"
    BY <1>21 DEF HandlerThrows
  <1>22. ASSUME NEW w \in Workers, HandlerReturns(w)
        PROVE  /\ queue[k].status = "completed" => queue'[k].status = "completed"
               /\ Kind[k] = "close" /\ queue'[k].status = "completed" =>
                    queue[k].status = "completed" \/ world' = "archived"
    BY <1>22 DEF HandlerReturns, Owns, Held
  <1>23. ASSUME NEW w \in Workers, CloseHandlerReturns(w)
        PROVE  /\ queue[k].status = "completed" => queue'[k].status = "completed"
               /\ Kind[k] = "close" /\ queue'[k].status = "completed" =>
                    queue[k].status = "completed" \/ world' = "archived"
    BY <1>23 DEF CloseHandlerReturns, Owns, Held
  <1>24. ASSUME NEW w \in Workers, Settle(w)
        PROVE  /\ queue[k].status = "completed" => queue'[k].status = "completed"
               /\ Kind[k] = "close" /\ queue'[k].status = "completed" =>
                    queue[k].status = "completed" \/ world' = "archived"
    <2>1. CASE k = worker[w].cmd
      BY <1>24, <2>1 DEF Settle, Owns, Attempt
    <2>2. CASE k # worker[w].cmd
      BY <1>24, <2>2 DEF Settle
    <2> QED BY <2>1, <2>2
  <1>25. ASSUME NEW w \in Workers, SettleFails(w)
        PROVE  /\ queue[k].status = "completed" => queue'[k].status = "completed"
               /\ Kind[k] = "close" /\ queue'[k].status = "completed" =>
                    queue[k].status = "completed" \/ world' = "archived"
    BY <1>25 DEF SettleFails
  <1>26. ASSUME NEW w \in Workers, Seal(w)
        PROVE  /\ queue[k].status = "completed" => queue'[k].status = "completed"
               /\ Kind[k] = "close" /\ queue'[k].status = "completed" =>
                    queue[k].status = "completed" \/ world' = "archived"
    BY <1>26 DEF Seal, Owns, Row
  <1>27. ASSUME NEW w \in Workers, SealRefused(w)
        PROVE  /\ queue[k].status = "completed" => queue'[k].status = "completed"
               /\ Kind[k] = "close" /\ queue'[k].status = "completed" =>
                    queue[k].status = "completed" \/ world' = "archived"
    BY <1>27 DEF SealRefused
  <1>28. ASSUME NEW w \in Workers, SealBlocked(w)
        PROVE  /\ queue[k].status = "completed" => queue'[k].status = "completed"
               /\ Kind[k] = "close" /\ queue'[k].status = "completed" =>
                    queue[k].status = "completed" \/ world' = "archived"
    BY <1>28 DEF SealBlocked, Owns, Row
  <1>29. ASSUME NEW w \in Workers, ReleaseApplied(w)
        PROVE  /\ queue[k].status = "completed" => queue'[k].status = "completed"
               /\ Kind[k] = "close" /\ queue'[k].status = "completed" =>
                    queue[k].status = "completed" \/ world' = "archived"
    BY <1>29 DEF ReleaseApplied, Owns, Row
  <1>30. ASSUME NEW w \in Workers, ReleasePartialWorld(w)
        PROVE  /\ queue[k].status = "completed" => queue'[k].status = "completed"
               /\ Kind[k] = "close" /\ queue'[k].status = "completed" =>
                    queue[k].status = "completed" \/ world' = "archived"
    BY <1>30 DEF ReleasePartialWorld, Owns, Row
  <1>31. ASSUME NEW w \in Workers, Reject(w)
        PROVE  /\ queue[k].status = "completed" => queue'[k].status = "completed"
               /\ Kind[k] = "close" /\ queue'[k].status = "completed" =>
                    queue[k].status = "completed" \/ world' = "archived"
    BY <1>31 DEF Reject, Owns, Row
  <1>32. ASSUME NEW w \in Workers, LoseClaim(w)
        PROVE  /\ queue[k].status = "completed" => queue'[k].status = "completed"
               /\ Kind[k] = "close" /\ queue'[k].status = "completed" =>
                    queue[k].status = "completed" \/ world' = "archived"
    BY <1>32 DEF LoseClaim
  <1>33. ASSUME NEW w \in Workers, Abandon(w)
        PROVE  /\ queue[k].status = "completed" => queue'[k].status = "completed"
               /\ Kind[k] = "close" /\ queue'[k].status = "completed" =>
                    queue[k].status = "completed" \/ world' = "archived"
    BY <1>33 DEF Abandon
  <1>34. CASE CalmDown
    BY <1>34 DEF CalmDown
  <1>35. CASE UNCHANGED vars
    BY <1>35 DEF vars
  <1>36. ASSUME NEW w \in Workers, PrepareFails(w)
        PROVE  /\ queue[k].status = "completed" => queue'[k].status = "completed"
               /\ Kind[k] = "close" /\ queue'[k].status = "completed" =>
                    queue[k].status = "completed" \/ world' = "archived"
    BY <1>36 DEF PrepareFails
  <1>37. ASSUME NEW w \in Workers, BeginHandlerFails(w)
        PROVE  /\ queue[k].status = "completed" => queue'[k].status = "completed"
               /\ Kind[k] = "close" /\ queue'[k].status = "completed" =>
                    queue[k].status = "completed" \/ world' = "archived"
    BY <1>37 DEF BeginHandlerFails
  <1> QED BY <1>1, <1>2, <1>3, <1>4, <1>5, <1>6, <1>7, <1>8, <1>9, <1>10, <1>11, <1>12, <1>13, <1>14, <1>15,
             <1>16, <1>17, <1>18, <1>19, <1>20, <1>21, <1>22, <1>23, <1>24, <1>25, <1>26, <1>27, <1>28,
             <1>29, <1>30, <1>31, <1>32, <1>33, <1>34, <1>35,
             <1>36, <1>37 DEF Next, Work, Handler, Fault

\* The life cycle ends with the seal of a close, for good.
LEMMA ArchivedStep ==
    ASSUME TypeOK, \A w \in Workers : Attempt(w), [Next]_vars
    PROVE  /\ world = "archived" => world' = "archived"
           /\ world' = "archived" =>
                \/ world = "archived"
                \/ \E k \in Commands : Kind[k] = "close" /\ queue'[k].status = "completed"
  <1> USE CommandsAssumption
  <1>1. ASSUME NEW c \in Commands, Receive(c)
        PROVE  /\ world = "archived" => world' = "archived"
               /\ world' = "archived" =>
                    \/ world = "archived"
                    \/ \E k \in Commands : Kind[k] = "close" /\ queue'[k].status = "completed"
    BY <1>1 DEF Receive
  <1>2. ASSUME NEW c \in Commands, LeaseExpires(c)
        PROVE  /\ world = "archived" => world' = "archived"
               /\ world' = "archived" =>
                    \/ world = "archived"
                    \/ \E k \in Commands : Kind[k] = "close" /\ queue'[k].status = "completed"
    BY <1>2 DEF LeaseExpires
  <1>3. ASSUME NEW w \in Workers, StartCycle(w)
        PROVE  /\ world = "archived" => world' = "archived"
               /\ world' = "archived" =>
                    \/ world = "archived"
                    \/ \E k \in Commands : Kind[k] = "close" /\ queue'[k].status = "completed"
    BY <1>3 DEF StartCycle
  <1>4. ASSUME NEW w \in Workers, Claim(w)
        PROVE  /\ world = "archived" => world' = "archived"
               /\ world' = "archived" =>
                    \/ world = "archived"
                    \/ \E k \in Commands : Kind[k] = "close" /\ queue'[k].status = "completed"
    BY <1>4 DEF Claim
  <1>5. ASSUME NEW w \in Workers, ClaimFenced(w)
        PROVE  /\ world = "archived" => world' = "archived"
               /\ world' = "archived" =>
                    \/ world = "archived"
                    \/ \E k \in Commands : Kind[k] = "close" /\ queue'[k].status = "completed"
    BY <1>5 DEF ClaimFenced
  <1>6. ASSUME NEW w \in Workers, QueueDrained(w)
        PROVE  /\ world = "archived" => world' = "archived"
               /\ world' = "archived" =>
                    \/ world = "archived"
                    \/ \E k \in Commands : Kind[k] = "close" /\ queue'[k].status = "completed"
    BY <1>6 DEF QueueDrained
  <1>7. ASSUME NEW w \in Workers, DispatchOutbox(w)
        PROVE  /\ world = "archived" => world' = "archived"
               /\ world' = "archived" =>
                    \/ world = "archived"
                    \/ \E k \in Commands : Kind[k] = "close" /\ queue'[k].status = "completed"
    BY <1>7 DEF DispatchOutbox
  <1>8. ASSUME NEW w \in Workers, RejectForeign(w)
        PROVE  /\ world = "archived" => world' = "archived"
               /\ world' = "archived" =>
                    \/ world = "archived"
                    \/ \E k \in Commands : Kind[k] = "close" /\ queue'[k].status = "completed"
    BY <1>8 DEF RejectForeign
  <1>9. ASSUME NEW w \in Workers, ApplyEntitlement(w)
        PROVE  /\ world = "archived" => world' = "archived"
               /\ world' = "archived" =>
                    \/ world = "archived"
                    \/ \E k \in Commands : Kind[k] = "close" /\ queue'[k].status = "completed"
    BY <1>9 DEF ApplyEntitlement
  <1>10. ASSUME NEW w \in Workers, EntitlementFails(w)
        PROVE  /\ world = "archived" => world' = "archived"
               /\ world' = "archived" =>
                    \/ world = "archived"
                    \/ \E k \in Commands : Kind[k] = "close" /\ queue'[k].status = "completed"
    BY <1>10 DEF EntitlementFails
  <1>11. ASSUME NEW w \in Workers, ApplyDemandData(w)
        PROVE  /\ world = "archived" => world' = "archived"
               /\ world' = "archived" =>
                    \/ world = "archived"
                    \/ \E k \in Commands : Kind[k] = "close" /\ queue'[k].status = "completed"
    BY <1>11 DEF ApplyDemandData
  <1>12. ASSUME NEW w \in Workers, DemandDataFails(w)
        PROVE  /\ world = "archived" => world' = "archived"
               /\ world' = "archived" =>
                    \/ world = "archived"
                    \/ \E k \in Commands : Kind[k] = "close" /\ queue'[k].status = "completed"
    BY <1>12 DEF DemandDataFails
  <1>13. ASSUME NEW w \in Workers, Prepare(w)
        PROVE  /\ world = "archived" => world' = "archived"
               /\ world' = "archived" =>
                    \/ world = "archived"
                    \/ \E k \in Commands : Kind[k] = "close" /\ queue'[k].status = "completed"
    BY <1>13 DEF Prepare
  <1>14. ASSUME NEW w \in Workers, BeginHandler(w)
        PROVE  /\ world = "archived" => world' = "archived"
               /\ world' = "archived" =>
                    \/ world = "archived"
                    \/ \E k \in Commands : Kind[k] = "close" /\ queue'[k].status = "completed"
    BY <1>14 DEF BeginHandler
  <1>15. ASSUME NEW w \in Workers, Heartbeat(w)
        PROVE  /\ world = "archived" => world' = "archived"
               /\ world' = "archived" =>
                    \/ world = "archived"
                    \/ \E k \in Commands : Kind[k] = "close" /\ queue'[k].status = "completed"
    BY <1>15 DEF Heartbeat
  <1>16. ASSUME NEW w \in Workers, HandlerApplies(w)
        PROVE  /\ world = "archived" => world' = "archived"
               /\ world' = "archived" =>
                    \/ world = "archived"
                    \/ \E k \in Commands : Kind[k] = "close" /\ queue'[k].status = "completed"
    BY <1>16 DEF HandlerApplies
  <1>17. ASSUME NEW w \in Workers, HandlerDeclines(w)
        PROVE  /\ world = "archived" => world' = "archived"
               /\ world' = "archived" =>
                    \/ world = "archived"
                    \/ \E k \in Commands : Kind[k] = "close" /\ queue'[k].status = "completed"
    BY <1>17 DEF HandlerDeclines
  <1>18. ASSUME NEW w \in Workers, DeployCreatesWorld(w)
        PROVE  /\ world = "archived" => world' = "archived"
               /\ world' = "archived" =>
                    \/ world = "archived"
                    \/ \E k \in Commands : Kind[k] = "close" /\ queue'[k].status = "completed"
    BY <1>18 DEF DeployCreatesWorld
  <1>19. ASSUME NEW w \in Workers, DeployActivatesWorld(w)
        PROVE  /\ world = "archived" => world' = "archived"
               /\ world' = "archived" =>
                    \/ world = "archived"
                    \/ \E k \in Commands : Kind[k] = "close" /\ queue'[k].status = "completed"
    BY <1>19 DEF DeployActivatesWorld
  <1>20. ASSUME NEW w \in Workers, RegistrationFails(w)
        PROVE  /\ world = "archived" => world' = "archived"
               /\ world' = "archived" =>
                    \/ world = "archived"
                    \/ \E k \in Commands : Kind[k] = "close" /\ queue'[k].status = "completed"
    BY <1>20 DEF RegistrationFails
  <1>21. ASSUME NEW w \in Workers, HandlerThrows(w)
        PROVE  /\ world = "archived" => world' = "archived"
               /\ world' = "archived" =>
                    \/ world = "archived"
                    \/ \E k \in Commands : Kind[k] = "close" /\ queue'[k].status = "completed"
    BY <1>21 DEF HandlerThrows
  <1>22. ASSUME NEW w \in Workers, HandlerReturns(w)
        PROVE  /\ world = "archived" => world' = "archived"
               /\ world' = "archived" =>
                    \/ world = "archived"
                    \/ \E k \in Commands : Kind[k] = "close" /\ queue'[k].status = "completed"
    BY <1>22 DEF HandlerReturns
  <1>23. ASSUME NEW w \in Workers, CloseHandlerReturns(w)
        PROVE  /\ world = "archived" => world' = "archived"
               /\ world' = "archived" =>
                    \/ world = "archived"
                    \/ \E k \in Commands : Kind[k] = "close" /\ queue'[k].status = "completed"
    BY <1>23 DEF CloseHandlerReturns
  <1>24. ASSUME NEW w \in Workers, Settle(w)
        PROVE  /\ world = "archived" => world' = "archived"
               /\ world' = "archived" =>
                    \/ world = "archived"
                    \/ \E k \in Commands : Kind[k] = "close" /\ queue'[k].status = "completed"
    BY <1>24 DEF Settle
  <1>25. ASSUME NEW w \in Workers, SettleFails(w)
        PROVE  /\ world = "archived" => world' = "archived"
               /\ world' = "archived" =>
                    \/ world = "archived"
                    \/ \E k \in Commands : Kind[k] = "close" /\ queue'[k].status = "completed"
    BY <1>25 DEF SettleFails
  <1>26. ASSUME NEW w \in Workers, Seal(w)
        PROVE  /\ world = "archived" => world' = "archived"
               /\ world' = "archived" =>
                    \/ world = "archived"
                    \/ \E k \in Commands : Kind[k] = "close" /\ queue'[k].status = "completed"
    <2>1. worker[w].cmd \in Commands /\ Kind[worker[w].cmd] = "close"
      BY <1>26 DEF Seal, Attempt, Busy
    <2>2. queue'[worker[w].cmd].status = "completed"
      BY <1>26, <2>1 DEF Seal, Row, TypeOK
    <2>3. world = "active" /\ world' = "archived"
      BY <1>26 DEF Seal
    <2> QED BY <2>1, <2>2, <2>3
  <1>27. ASSUME NEW w \in Workers, SealRefused(w)
        PROVE  /\ world = "archived" => world' = "archived"
               /\ world' = "archived" =>
                    \/ world = "archived"
                    \/ \E k \in Commands : Kind[k] = "close" /\ queue'[k].status = "completed"
    BY <1>27 DEF SealRefused
  <1>28. ASSUME NEW w \in Workers, SealBlocked(w)
        PROVE  /\ world = "archived" => world' = "archived"
               /\ world' = "archived" =>
                    \/ world = "archived"
                    \/ \E k \in Commands : Kind[k] = "close" /\ queue'[k].status = "completed"
    BY <1>28 DEF SealBlocked
  <1>29. ASSUME NEW w \in Workers, ReleaseApplied(w)
        PROVE  /\ world = "archived" => world' = "archived"
               /\ world' = "archived" =>
                    \/ world = "archived"
                    \/ \E k \in Commands : Kind[k] = "close" /\ queue'[k].status = "completed"
    BY <1>29 DEF ReleaseApplied
  <1>30. ASSUME NEW w \in Workers, ReleasePartialWorld(w)
        PROVE  /\ world = "archived" => world' = "archived"
               /\ world' = "archived" =>
                    \/ world = "archived"
                    \/ \E k \in Commands : Kind[k] = "close" /\ queue'[k].status = "completed"
    BY <1>30 DEF ReleasePartialWorld
  <1>31. ASSUME NEW w \in Workers, Reject(w)
        PROVE  /\ world = "archived" => world' = "archived"
               /\ world' = "archived" =>
                    \/ world = "archived"
                    \/ \E k \in Commands : Kind[k] = "close" /\ queue'[k].status = "completed"
    BY <1>31 DEF Reject
  <1>32. ASSUME NEW w \in Workers, LoseClaim(w)
        PROVE  /\ world = "archived" => world' = "archived"
               /\ world' = "archived" =>
                    \/ world = "archived"
                    \/ \E k \in Commands : Kind[k] = "close" /\ queue'[k].status = "completed"
    BY <1>32 DEF LoseClaim
  <1>33. ASSUME NEW w \in Workers, Abandon(w)
        PROVE  /\ world = "archived" => world' = "archived"
               /\ world' = "archived" =>
                    \/ world = "archived"
                    \/ \E k \in Commands : Kind[k] = "close" /\ queue'[k].status = "completed"
    BY <1>33 DEF Abandon
  <1>34. CASE CalmDown
    BY <1>34 DEF CalmDown
  <1>35. CASE UNCHANGED vars
    BY <1>35 DEF vars
  <1>36. ASSUME NEW w \in Workers, PrepareFails(w)
        PROVE  /\ world = "archived" => world' = "archived"
               /\ world' = "archived" =>
                    \/ world = "archived"
                    \/ \E k \in Commands : Kind[k] = "close" /\ queue'[k].status = "completed"
    BY <1>36 DEF PrepareFails
  <1>37. ASSUME NEW w \in Workers, BeginHandlerFails(w)
        PROVE  /\ world = "archived" => world' = "archived"
               /\ world' = "archived" =>
                    \/ world = "archived"
                    \/ \E k \in Commands : Kind[k] = "close" /\ queue'[k].status = "completed"
    BY <1>37 DEF BeginHandlerFails
  <1> QED BY <1>1, <1>2, <1>3, <1>4, <1>5, <1>6, <1>7, <1>8, <1>9, <1>10, <1>11, <1>12, <1>13, <1>14, <1>15,
             <1>16, <1>17, <1>18, <1>19, <1>20, <1>21, <1>22, <1>23, <1>24, <1>25, <1>26, <1>27, <1>28,
             <1>29, <1>30, <1>31, <1>32, <1>33, <1>34, <1>35,
             <1>36, <1>37 DEF Next, Work, Handler, Fault

-----------------------------------------------------------------------------
(* The theorems. *)

\* The invariant is inductive: whatever commands and workers there are, a worker whose
\* claim was lost finds a row it can no longer settle.
THEOREM QueueInductive == Spec => []QueueInv
  <1>1. Init => QueueInv
    <2> SUFFICES ASSUME Init PROVE QueueInv
      OBVIOUS
    <2> USE CommandsAssumption
    <2>1. TypeOK
      <3>1. RowTypes
        BY DEF Init, RowTypes, Row, Settled, None
      <3>2. WorkerTypes
        BY DEF Init, WorkerTypes, WorkerRecords, Resting, Busy
      <3>3. OutboxTypes
        BY DEF Init, OutboxTypes
      <3>4. OtherTypes
        <4>1. world \in {"absent", "active"}
          BY Zenon DEF Init
        <4>2. effect \in [Commands -> BOOLEAN] /\ calm \in BOOLEAN
          BY Zenon DEF Init
        <4>3. arrivals \in Seq(Commands)
          BY DEF Init
        <4>4. request \in [Commands -> {None, "approved", "dispatched", "completed", "failed"}]
          BY Zenon DEF Init
        <4>5. blind \subseteq Commands
          BY DEF Init
        <4> QED BY <4>1, <4>2, <4>3, <4>4, <4>5, Zenon DEF OtherTypes
      <3> QED BY <3>1, <3>2, <3>3, <3>4
                 DEF TypeOK, RowTypes, WorkerTypes, WorkerRecords, OutboxTypes, OtherTypes
    <2>2. \A w \in Workers : Attempt(w)
      BY DEF Init, Attempt, Resting, Busy, Handling
    <2>3. \A c \in Commands : Rows(c)
      BY DEF Init, Rows, Row, Settled, None
    <2>4. Sealed
      BY DEF Init, Sealed, Row
    <2> QED BY <2>1, <2>2, <2>3, <2>4 DEF QueueInv
  <1>2. QueueInv /\ [Next]_vars => QueueInv'
    <2> SUFFICES ASSUME QueueInv, [Next]_vars PROVE QueueInv'
      OBVIOUS
    <2>1. TypeOK /\ \A w \in Workers : Attempt(w)
      BY DEF QueueInv
    <2>2. TypeOK'
      BY <2>1, TypeStep
    <2>3. (\A w \in Workers : Attempt(w))'
      BY <2>1, AttemptStep
    <2>4. (\A c \in Commands : Rows(c))'
      BY <2>1, RowsStep DEF QueueInv
    <2>5. Sealed'
      BY <2>1, CompletedStep, ArchivedStep DEF QueueInv, Sealed
    <2> QED BY <2>2, <2>3, <2>4, <2>5 DEF QueueInv
  <1> QED BY <1>1, <1>2, PTL DEF Spec

\* Every variable of the queue keeps its type; only a row in processing has a holder.
THEOREM QueueTypeCorrect == Spec => []TypeOK
  <1>1. QueueInv => TypeOK
    BY DEF QueueInv
  <1> QED BY <1>1, QueueInductive, PTL

\* Odoo is told one outcome per command, the one the queue row and the admin request
\* record, however many workers attempt it (claimScope of store.ts); the request lags
\* behind only after an attempt that failed before it had read it.
THEOREM OutcomeToldOnce == Spec => []ToldOnce
  <1>1. QueueInv => ToldOnce
    <2> SUFFICES ASSUME QueueInv, NEW c \in Commands
                 PROVE  /\ results[c] = IF Kind[c] = "entitlement" \/ c \in Foreign THEN <<>>
                             ELSE [absent |-> <<>>, pending |-> <<>>, processing |-> <<>>,
                                   completed |-> <<"accepted">>,
                                   rejected |-> <<"rejected">>][queue[c].status]
                        /\ request[c] = "completed" <=> Kind[c] \in AdminKinds /\ queue[c].status = "completed"
                        /\ request[c] = "failed" => queue[c].status = "rejected"
                        /\ queue[c].status = "rejected" => request[c] \in {None, "failed"} \/ c \in blind
      BY DEF ToldOnce
    <2>1. Rows(c) /\ queue[c].status \in {"absent", "pending", "processing", "completed", "rejected"}
      BY DEF QueueInv, TypeOK, Settled
    <2>2. CASE queue[c].status \in {"absent", "pending", "processing"}
      BY <2>1, <2>2 DEF Rows
    <2>3. CASE queue[c].status = "completed"
      BY <2>1, <2>3 DEF Rows
    <2>4. CASE queue[c].status = "rejected"
      BY <2>1, <2>4 DEF Rows
    <2> QED BY <2>1, <2>2, <2>3, <2>4
  <1> QED BY <1>1, QueueInductive, PTL

\* What Odoo is told to be done has been done, by whichever attempt.
THEOREM AcceptedIsApplied == Spec => []AcceptedMeansApplied
  <1>1. QueueInv => AcceptedMeansApplied
    BY DEF QueueInv, Rows, AcceptedMeansApplied
  <1> QED BY <1>1, QueueInductive, PTL

\* The world is archived exactly when a close is settled with its receipt
\* (AtomicWorldSealAdminEffect).
THEOREM SealHasReceipt == Spec => []SealedWithReceipt
  <1>1. QueueInv => SealedWithReceipt
    <2> SUFFICES ASSUME QueueInv PROVE SealedWithReceipt
      OBVIOUS
    <2>1. ASSUME NEW c \in Commands, Kind[c] = "close", queue[c].status = "completed"
          PROVE  results[c] = <<"accepted">>
      BY <2>1 DEF QueueInv, Rows
    <2> QED BY <2>1 DEF QueueInv, Sealed, SealedWithReceipt
  <1> QED BY <1>1, QueueInductive, PTL

-----------------------------------------------------------------------------
(* One worker. *)

OneWorker == \A v, w \in Workers : v = w

\* The one worker holds the claim of whatever it works on; a deployment that has taken
\* effect has left no partial world.
Alone(w) ==
    LET c == worker[w].cmd IN
    /\ worker[w].pc \in Busy => Owns(w, c)
    /\ worker[w].pc \in {"applied", "settling"} /\ Kind[c] = "deploy" => world # "provisioning"

Unfinished(c) ==
    /\ Kind[c] = "deploy" /\ c \notin Foreign
    /\ queue[c].status \in {"pending", "processing"} \/ c \in blind

PartialInv ==
    /\ \A w \in Workers : Alone(w)
    /\ world = "provisioning" => \E c \in Commands : Unfinished(c)

\* With one worker every step keeps its claim.
LEMMA AloneStep ==
    ASSUME OneWorker, TypeOK, NEW v \in Workers, Attempt(v), Alone(v), [Next]_vars
    PROVE  Alone(v)'
  <1> USE CommandsAssumption DEF OneWorker
  <1>1. ASSUME NEW c \in Commands, Receive(c)
        PROVE  Alone(v)'
    BY <1>1 DEF Receive, Row, Owns, Alone, Attempt, Busy, TypeOK
  <1>2. ASSUME NEW c \in Commands, LeaseExpires(c)
        PROVE  Alone(v)'
    BY <1>2 DEF LeaseExpires, Owns, Alone, Attempt, Busy, TypeOK
  <1>3. ASSUME NEW w \in Workers, StartCycle(w)
        PROVE  Alone(v)'
    BY <1>3 DEF StartCycle, Owns, Alone, Attempt, Busy, TypeOK
  <1>4. ASSUME NEW w \in Workers, Claim(w)
        PROVE  Alone(v)'
    <2>1. Candidate \in Commands
      BY <1>4, CandidateFacts DEF Claim, TypeOK
    <2> QED BY <1>4, <2>1 DEF Claim, Held, Resting, Owns, Alone, Busy, TypeOK
  <1>5. ASSUME NEW w \in Workers, ClaimFenced(w)
        PROVE  Alone(v)'
    BY <1>5 DEF ClaimFenced, Resting, Owns, Alone, Attempt, Busy, TypeOK
  <1>6. ASSUME NEW w \in Workers, QueueDrained(w)
        PROVE  Alone(v)'
    BY <1>6 DEF QueueDrained, Owns, Alone, Attempt, Busy, TypeOK
  <1>7. ASSUME NEW w \in Workers, DispatchOutbox(w)
        PROVE  Alone(v)'
    BY <1>7 DEF DispatchOutbox, Resting, Owns, Alone, Attempt, Busy, TypeOK
  <1>8. ASSUME NEW w \in Workers, RejectForeign(w)
        PROVE  Alone(v)'
    BY <1>8 DEF RejectForeign, Owns, Row, NextCommand, Resting, Owns, Alone, Attempt, Busy, TypeOK
  <1>9. ASSUME NEW w \in Workers, ApplyEntitlement(w)
        PROVE  Alone(v)'
    BY <1>9 DEF ApplyEntitlement, Owns, Row, NextCommand, Resting, Owns, Alone, Attempt, Busy, TypeOK
  <1>10. ASSUME NEW w \in Workers, EntitlementFails(w)
        PROVE  Alone(v)'
    BY <1>10 DEF EntitlementFails, Owns, Alone, Attempt, Busy, TypeOK
  <1>11. ASSUME NEW w \in Workers, ApplyDemandData(w)
        PROVE  Alone(v)'
    BY <1>11 DEF ApplyDemandData, Owns, Row, NextCommand, Resting, Owns, Alone, Attempt, Busy, TypeOK
  <1>12. ASSUME NEW w \in Workers, DemandDataFails(w)
        PROVE  Alone(v)'
    BY <1>12 DEF DemandDataFails, Owns, Row, Rethrow, Resting, Owns, Alone, Attempt, Busy, TypeOK
  <1>13. ASSUME NEW w \in Workers, Prepare(w)
        PROVE  Alone(v)'
    BY <1>13 DEF Prepare, Owns, Alone, Attempt, Busy, TypeOK
  <1>14. ASSUME NEW w \in Workers, BeginHandler(w)
        PROVE  Alone(v)'
    BY <1>14 DEF BeginHandler, Owns, Held, Owns, Alone, Attempt, Busy, TypeOK
  <1>15. ASSUME NEW w \in Workers, Heartbeat(w)
        PROVE  Alone(v)'
    BY <1>15 DEF Heartbeat, Owns, Owns, Alone, Attempt, Busy, TypeOK
  <1>16. ASSUME NEW w \in Workers, HandlerApplies(w)
        PROVE  Alone(v)'
    BY <1>16 DEF HandlerApplies, Owns, Alone, Attempt, Busy, TypeOK
  <1>17. ASSUME NEW w \in Workers, HandlerDeclines(w)
        PROVE  Alone(v)'
    BY <1>17 DEF HandlerDeclines, Owns, Alone, Attempt, Busy, TypeOK
  <1>18. ASSUME NEW w \in Workers, DeployCreatesWorld(w)
        PROVE  Alone(v)'
    BY <1>18 DEF DeployCreatesWorld, Owns, Alone, Attempt, Busy, TypeOK
  <1>19. ASSUME NEW w \in Workers, DeployActivatesWorld(w)
        PROVE  Alone(v)'
    BY <1>19 DEF DeployActivatesWorld, Owns, Alone, Attempt, Busy, TypeOK
  <1>20. ASSUME NEW w \in Workers, RegistrationFails(w)
        PROVE  Alone(v)'
    BY <1>20 DEF RegistrationFails, Owns, Alone, Attempt, Busy, TypeOK
  <1>21. ASSUME NEW w \in Workers, HandlerThrows(w)
        PROVE  Alone(v)'
    BY <1>21 DEF HandlerThrows, Owns, Alone, Attempt, Busy, TypeOK
  <1>22. ASSUME NEW w \in Workers, HandlerReturns(w)
        PROVE  Alone(v)'
    BY <1>22 DEF HandlerReturns, Owns, Held, Owns, Alone, Attempt, Busy, TypeOK
  <1>23. ASSUME NEW w \in Workers, CloseHandlerReturns(w)
        PROVE  Alone(v)'
    BY <1>23 DEF CloseHandlerReturns, Owns, Held, Owns, Alone, Attempt, Busy, TypeOK
  <1>24. ASSUME NEW w \in Workers, Settle(w)
        PROVE  Alone(v)'
    BY <1>24 DEF Settle, Owns, Row, NextCommand, Resting, Owns, Alone, Attempt, Busy, TypeOK
  <1>25. ASSUME NEW w \in Workers, SettleFails(w)
        PROVE  Alone(v)'
    BY <1>25 DEF SettleFails, Owns, Alone, Attempt, Busy, TypeOK
  <1>26. ASSUME NEW w \in Workers, Seal(w)
        PROVE  Alone(v)'
    BY <1>26 DEF Seal, Owns, Row, NextCommand, Resting, Owns, Alone, Attempt, Busy, TypeOK
  <1>27. ASSUME NEW w \in Workers, SealRefused(w)
        PROVE  Alone(v)'
    BY <1>27 DEF SealRefused, Owns, Alone, Attempt, Busy, TypeOK
  <1>28. ASSUME NEW w \in Workers, SealBlocked(w)
        PROVE  Alone(v)'
    BY <1>28 DEF SealBlocked, Owns, Row, Rethrow, Resting, Owns, Alone, Attempt, Busy, TypeOK
  <1>29. ASSUME NEW w \in Workers, ReleaseApplied(w)
        PROVE  Alone(v)'
    BY <1>29 DEF ReleaseApplied, Owns, Row, Rethrow, Resting, Owns, Alone, Attempt, Busy, TypeOK
  <1>30. ASSUME NEW w \in Workers, ReleasePartialWorld(w)
        PROVE  Alone(v)'
    BY <1>30 DEF ReleasePartialWorld, Owns, Row, Rethrow, Resting, Owns, Alone, Attempt, Busy, TypeOK
  <1>31. ASSUME NEW w \in Workers, Reject(w)
        PROVE  Alone(v)'
    BY <1>31 DEF Reject, Owns, Row, NextCommand, Resting, Owns, Alone, Attempt, Busy, TypeOK
  <1>32. ASSUME NEW w \in Workers, LoseClaim(w)
        PROVE  Alone(v)'
    BY <1>32 DEF LoseClaim, Rethrow, Resting, Owns, Alone, Attempt, Busy, TypeOK
  <1>33. ASSUME NEW w \in Workers, Abandon(w)
        PROVE  Alone(v)'
    BY <1>33 DEF Abandon, Rethrow, Resting, Owns, Alone, Attempt, Busy, TypeOK
  <1>34. CASE CalmDown
    BY <1>34 DEF CalmDown, Owns, Alone, Attempt, Busy, TypeOK
  <1>35. CASE UNCHANGED vars
    BY <1>35 DEF vars, Owns, Alone, Attempt, Busy, TypeOK
  <1>36. ASSUME NEW w \in Workers, PrepareFails(w)
        PROVE  Alone(v)'
    BY <1>36 DEF PrepareFails, Owns, Alone, Attempt, Busy, TypeOK
  <1>37. ASSUME NEW w \in Workers, BeginHandlerFails(w)
        PROVE  Alone(v)'
    BY <1>37 DEF BeginHandlerFails, Owns, Alone, Attempt, Busy, TypeOK
  <1> QED BY <1>1, <1>2, <1>3, <1>4, <1>5, <1>6, <1>7, <1>8, <1>9, <1>10, <1>11, <1>12, <1>13, <1>14, <1>15,
             <1>16, <1>17, <1>18, <1>19, <1>20, <1>21, <1>22, <1>23, <1>24, <1>25, <1>26, <1>27, <1>28,
             <1>29, <1>30, <1>31, <1>32, <1>33, <1>34, <1>35,
             <1>36, <1>37 DEF Next, Work, Handler, Fault

\* A step of the one worker that settles a deployment leaves no partial world behind.
LEMMA UnfinishedStep ==
    ASSUME OneWorker, TypeOK, \A w \in Workers : Attempt(w) /\ Alone(w), [Next]_vars,
           NEW k \in Commands, Unfinished(k), world = "provisioning", world' = "provisioning"
    PROVE  Unfinished(k)'
  <1> USE CommandsAssumption DEF Unfinished, TypeOK
  <1>1. ASSUME NEW c \in Commands, Receive(c)
        PROVE  Unfinished(k)'
    BY <1>1 DEF Receive, Row
  <1>2. ASSUME NEW c \in Commands, LeaseExpires(c)
        PROVE  Unfinished(k)'
    BY <1>2 DEF LeaseExpires
  <1>3. ASSUME NEW w \in Workers, StartCycle(w)
        PROVE  Unfinished(k)'
    BY <1>3 DEF StartCycle
  <1>4. ASSUME NEW w \in Workers, Claim(w)
        PROVE  Unfinished(k)'
    <2>1. Candidate \in Commands
      BY <1>4, CandidateFacts DEF Claim, TypeOK
    <2> QED BY <1>4, <2>1 DEF Claim, Held
  <1>5. ASSUME NEW w \in Workers, ClaimFenced(w)
        PROVE  Unfinished(k)'
    BY <1>5 DEF ClaimFenced
  <1>6. ASSUME NEW w \in Workers, QueueDrained(w)
        PROVE  Unfinished(k)'
    BY <1>6 DEF QueueDrained
  <1>7. ASSUME NEW w \in Workers, DispatchOutbox(w)
        PROVE  Unfinished(k)'
    BY <1>7 DEF DispatchOutbox
  <1>8. ASSUME NEW w \in Workers, RejectForeign(w)
        PROVE  Unfinished(k)'
    BY <1>8 DEF RejectForeign, Row
  <1>9. ASSUME NEW w \in Workers, ApplyEntitlement(w)
        PROVE  Unfinished(k)'
    BY <1>9 DEF ApplyEntitlement, Row
  <1>10. ASSUME NEW w \in Workers, EntitlementFails(w)
        PROVE  Unfinished(k)'
    BY <1>10 DEF EntitlementFails
  <1>11. ASSUME NEW w \in Workers, ApplyDemandData(w)
        PROVE  Unfinished(k)'
    <2>1. Kind[worker[w].cmd] # "deploy"
      BY <1>11 DEF ApplyDemandData
    <2> QED BY <1>11, <2>1 DEF ApplyDemandData
  <1>12. ASSUME NEW w \in Workers, DemandDataFails(w)
        PROVE  Unfinished(k)'
    BY <1>12 DEF DemandDataFails, Row
  <1>13. ASSUME NEW w \in Workers, Prepare(w)
        PROVE  Unfinished(k)'
    BY <1>13 DEF Prepare
  <1>14. ASSUME NEW w \in Workers, BeginHandler(w)
        PROVE  Unfinished(k)'
    BY <1>14 DEF BeginHandler, Held
  <1>15. ASSUME NEW w \in Workers, Heartbeat(w)
        PROVE  Unfinished(k)'
    BY <1>15 DEF Heartbeat
  <1>16. ASSUME NEW w \in Workers, HandlerApplies(w)
        PROVE  Unfinished(k)'
    BY <1>16 DEF HandlerApplies
  <1>17. ASSUME NEW w \in Workers, HandlerDeclines(w)
        PROVE  Unfinished(k)'
    BY <1>17 DEF HandlerDeclines
  <1>18. ASSUME NEW w \in Workers, DeployCreatesWorld(w)
        PROVE  Unfinished(k)'
    BY <1>18 DEF DeployCreatesWorld
  <1>19. ASSUME NEW w \in Workers, DeployActivatesWorld(w)
        PROVE  Unfinished(k)'
    BY <1>19 DEF DeployActivatesWorld
  <1>20. ASSUME NEW w \in Workers, RegistrationFails(w)
        PROVE  Unfinished(k)'
    BY <1>20 DEF RegistrationFails
  <1>21. ASSUME NEW w \in Workers, HandlerThrows(w)
        PROVE  Unfinished(k)'
    BY <1>21 DEF HandlerThrows
  <1>22. ASSUME NEW w \in Workers, HandlerReturns(w)
        PROVE  Unfinished(k)'
    BY <1>22 DEF HandlerReturns, Held
  <1>23. ASSUME NEW w \in Workers, CloseHandlerReturns(w)
        PROVE  Unfinished(k)'
    BY <1>23 DEF CloseHandlerReturns, Held
  <1>24. ASSUME NEW w \in Workers, Settle(w)
        PROVE  Unfinished(k)'
    <2>1. Kind[worker[w].cmd] # "deploy"
      BY <1>24 DEF Settle, Alone
    <2> QED BY <1>24, <2>1 DEF Settle
  <1>25. ASSUME NEW w \in Workers, SettleFails(w)
        PROVE  Unfinished(k)'
    BY <1>25 DEF SettleFails
  <1>26. ASSUME NEW w \in Workers, Seal(w)
        PROVE  Unfinished(k)'
    BY <1>26 DEF Seal, Row
  <1>27. ASSUME NEW w \in Workers, SealRefused(w)
        PROVE  Unfinished(k)'
    BY <1>27 DEF SealRefused
  <1>28. ASSUME NEW w \in Workers, SealBlocked(w)
        PROVE  Unfinished(k)'
    BY <1>28 DEF SealBlocked, Row
  <1>29. ASSUME NEW w \in Workers, ReleaseApplied(w)
        PROVE  Unfinished(k)'
    BY <1>29 DEF ReleaseApplied, Row
  <1>30. ASSUME NEW w \in Workers, ReleasePartialWorld(w)
        PROVE  Unfinished(k)'
    BY <1>30 DEF ReleasePartialWorld, Row
  <1>31. ASSUME NEW w \in Workers, Reject(w)
        PROVE  Unfinished(k)'
    BY <1>31 DEF Reject, Row, AdminKinds
  <1>32. ASSUME NEW w \in Workers, LoseClaim(w)
        PROVE  Unfinished(k)'
    BY <1>32 DEF LoseClaim
  <1>33. ASSUME NEW w \in Workers, Abandon(w)
        PROVE  Unfinished(k)'
    BY <1>33 DEF Abandon
  <1>34. CASE CalmDown
    BY <1>34 DEF CalmDown
  <1>35. CASE UNCHANGED vars
    BY <1>35 DEF vars
  <1>36. ASSUME NEW w \in Workers, PrepareFails(w)
        PROVE  Unfinished(k)'
    BY <1>36 DEF PrepareFails
  <1>37. ASSUME NEW w \in Workers, BeginHandlerFails(w)
        PROVE  Unfinished(k)'
    BY <1>37 DEF BeginHandlerFails
  <1> QED BY <1>1, <1>2, <1>3, <1>4, <1>5, <1>6, <1>7, <1>8, <1>9, <1>10, <1>11, <1>12, <1>13, <1>14, <1>15,
             <1>16, <1>17, <1>18, <1>19, <1>20, <1>21, <1>22, <1>23, <1>24, <1>25, <1>26, <1>27, <1>28,
             <1>29, <1>30, <1>31, <1>32, <1>33, <1>34, <1>35,
             <1>36, <1>37 DEF Next, Work, Handler, Fault

\* A world is created as provisioning by an unfinished deployment only.
LEMMA CreationStep ==
    ASSUME OneWorker, TypeOK, \A w \in Workers : Attempt(w) /\ Alone(w), [Next]_vars,
           world # "provisioning", world' = "provisioning"
    PROVE  \E c \in Commands : Unfinished(c)'
  <1>1. ASSUME NEW d \in Commands, Receive(d)
        PROVE  \E c \in Commands : Unfinished(c)'
    BY <1>1 DEF Receive
  <1>2. ASSUME NEW d \in Commands, LeaseExpires(d)
        PROVE  \E c \in Commands : Unfinished(c)'
    BY <1>2 DEF LeaseExpires
  <1>3. ASSUME NEW w \in Workers, StartCycle(w)
        PROVE  \E c \in Commands : Unfinished(c)'
    BY <1>3 DEF StartCycle
  <1>4. ASSUME NEW w \in Workers, Claim(w)
        PROVE  \E c \in Commands : Unfinished(c)'
    BY <1>4 DEF Claim
  <1>5. ASSUME NEW w \in Workers, ClaimFenced(w)
        PROVE  \E c \in Commands : Unfinished(c)'
    BY <1>5 DEF ClaimFenced
  <1>6. ASSUME NEW w \in Workers, QueueDrained(w)
        PROVE  \E c \in Commands : Unfinished(c)'
    BY <1>6 DEF QueueDrained
  <1>7. ASSUME NEW w \in Workers, DispatchOutbox(w)
        PROVE  \E c \in Commands : Unfinished(c)'
    BY <1>7 DEF DispatchOutbox
  <1>8. ASSUME NEW w \in Workers, RejectForeign(w)
        PROVE  \E c \in Commands : Unfinished(c)'
    BY <1>8 DEF RejectForeign
  <1>9. ASSUME NEW w \in Workers, ApplyEntitlement(w)
        PROVE  \E c \in Commands : Unfinished(c)'
    BY <1>9 DEF ApplyEntitlement
  <1>10. ASSUME NEW w \in Workers, EntitlementFails(w)
        PROVE  \E c \in Commands : Unfinished(c)'
    BY <1>10 DEF EntitlementFails
  <1>11. ASSUME NEW w \in Workers, ApplyDemandData(w)
        PROVE  \E c \in Commands : Unfinished(c)'
    BY <1>11 DEF ApplyDemandData
  <1>12. ASSUME NEW w \in Workers, DemandDataFails(w)
        PROVE  \E c \in Commands : Unfinished(c)'
    BY <1>12 DEF DemandDataFails
  <1>13. ASSUME NEW w \in Workers, Prepare(w)
        PROVE  \E c \in Commands : Unfinished(c)'
    BY <1>13 DEF Prepare
  <1>14. ASSUME NEW w \in Workers, BeginHandler(w)
        PROVE  \E c \in Commands : Unfinished(c)'
    BY <1>14 DEF BeginHandler
  <1>15. ASSUME NEW w \in Workers, Heartbeat(w)
        PROVE  \E c \in Commands : Unfinished(c)'
    BY <1>15 DEF Heartbeat
  <1>16. ASSUME NEW w \in Workers, HandlerApplies(w)
        PROVE  \E c \in Commands : Unfinished(c)'
    BY <1>16 DEF HandlerApplies
  <1>17. ASSUME NEW w \in Workers, HandlerDeclines(w)
        PROVE  \E c \in Commands : Unfinished(c)'
    BY <1>17 DEF HandlerDeclines
  <1>18. ASSUME NEW w \in Workers, DeployCreatesWorld(w)
        PROVE  \E c \in Commands : Unfinished(c)'
    BY <1>18 DEF DeployCreatesWorld, Attempt, Alone, Owns, Unfinished, Busy, Handling
  <1>19. ASSUME NEW w \in Workers, DeployActivatesWorld(w)
        PROVE  \E c \in Commands : Unfinished(c)'
    BY <1>19 DEF DeployActivatesWorld
  <1>20. ASSUME NEW w \in Workers, RegistrationFails(w)
        PROVE  \E c \in Commands : Unfinished(c)'
    BY <1>20 DEF RegistrationFails
  <1>21. ASSUME NEW w \in Workers, HandlerThrows(w)
        PROVE  \E c \in Commands : Unfinished(c)'
    BY <1>21 DEF HandlerThrows
  <1>22. ASSUME NEW w \in Workers, HandlerReturns(w)
        PROVE  \E c \in Commands : Unfinished(c)'
    BY <1>22 DEF HandlerReturns
  <1>23. ASSUME NEW w \in Workers, CloseHandlerReturns(w)
        PROVE  \E c \in Commands : Unfinished(c)'
    BY <1>23 DEF CloseHandlerReturns
  <1>24. ASSUME NEW w \in Workers, Settle(w)
        PROVE  \E c \in Commands : Unfinished(c)'
    BY <1>24 DEF Settle
  <1>25. ASSUME NEW w \in Workers, SettleFails(w)
        PROVE  \E c \in Commands : Unfinished(c)'
    BY <1>25 DEF SettleFails
  <1>26. ASSUME NEW w \in Workers, Seal(w)
        PROVE  \E c \in Commands : Unfinished(c)'
    BY <1>26 DEF Seal
  <1>27. ASSUME NEW w \in Workers, SealRefused(w)
        PROVE  \E c \in Commands : Unfinished(c)'
    BY <1>27 DEF SealRefused
  <1>28. ASSUME NEW w \in Workers, SealBlocked(w)
        PROVE  \E c \in Commands : Unfinished(c)'
    BY <1>28 DEF SealBlocked
  <1>29. ASSUME NEW w \in Workers, ReleaseApplied(w)
        PROVE  \E c \in Commands : Unfinished(c)'
    BY <1>29 DEF ReleaseApplied
  <1>30. ASSUME NEW w \in Workers, ReleasePartialWorld(w)
        PROVE  \E c \in Commands : Unfinished(c)'
    BY <1>30 DEF ReleasePartialWorld
  <1>31. ASSUME NEW w \in Workers, Reject(w)
        PROVE  \E c \in Commands : Unfinished(c)'
    BY <1>31 DEF Reject
  <1>32. ASSUME NEW w \in Workers, LoseClaim(w)
        PROVE  \E c \in Commands : Unfinished(c)'
    BY <1>32 DEF LoseClaim
  <1>33. ASSUME NEW w \in Workers, Abandon(w)
        PROVE  \E c \in Commands : Unfinished(c)'
    BY <1>33 DEF Abandon
  <1>34. CASE CalmDown
    BY <1>34 DEF CalmDown
  <1>35. CASE UNCHANGED vars
    BY <1>35 DEF vars
  <1>36. ASSUME NEW w \in Workers, PrepareFails(w)
        PROVE  \E c \in Commands : Unfinished(c)'
    BY <1>36 DEF PrepareFails
  <1>37. ASSUME NEW w \in Workers, BeginHandlerFails(w)
        PROVE  \E c \in Commands : Unfinished(c)'
    BY <1>37 DEF BeginHandlerFails
  <1> QED BY <1>1, <1>2, <1>3, <1>4, <1>5, <1>6, <1>7, <1>8, <1>9, <1>10, <1>11, <1>12, <1>13, <1>14, <1>15,
             <1>16, <1>17, <1>18, <1>19, <1>20, <1>21, <1>22, <1>23, <1>24, <1>25, <1>26, <1>27, <1>28,
             <1>29, <1>30, <1>31, <1>32, <1>33, <1>34, <1>35,
             <1>36, <1>37 DEF Next, Work, Handler, Fault

\* As long as one worker serves the queue, a deployment that failed half-way is continued
\* (the partialWorld branch of the error path); it is given up only by a retry that fails
\* before it has read its request.
THEOREM PartialWorldRetried ==
    ASSUME OneWorker
    PROVE  Spec => []PartialWorldIsRetried
  <1>1. Init => PartialInv
    BY CommandsAssumption DEF Init, PartialInv, Alone, Resting, Busy
  <1>2. QueueInv /\ PartialInv /\ [Next]_vars => PartialInv'
    <2> SUFFICES ASSUME QueueInv, PartialInv, [Next]_vars PROVE PartialInv'
      OBVIOUS
    <2>1. TypeOK /\ \A w \in Workers : Attempt(w) /\ Alone(w)
      BY DEF QueueInv, PartialInv
    <2>2. (\A w \in Workers : Alone(w))'
      BY <2>1, AloneStep
    <2>3. ASSUME world' = "provisioning"
          PROVE  \E c \in Commands : Unfinished(c)'
      <3>1. CASE world = "provisioning"
        <4>1. PICK k \in Commands : Unfinished(k)
          BY <3>1 DEF PartialInv
        <4> QED BY <2>1, <2>3, <3>1, <4>1, UnfinishedStep
      <3>2. CASE world # "provisioning"
        BY <2>1, <2>3, <3>2, CreationStep
      <3> QED BY <3>1, <3>2
    <2> QED BY <2>2, <2>3 DEF PartialInv
  <1>3. PartialInv => PartialWorldIsRetried
    BY DEF PartialInv, Unfinished, PartialWorldIsRetried
  <1> QED BY <1>1, <1>2, <1>3, QueueInductive, PTL DEF Spec
=============================================================================
