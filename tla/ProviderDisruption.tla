-------------------------- MODULE ProviderDisruption --------------------------
(***************************************************************************)
(* The reconciliation of realistic disruptions: every cycle fetches the     *)
(* provider's snapshot and, world after world, brings the disruptions of    *)
(* the regional simulation from the registered set to the snapshot's: one   *)
(* worker command per cleared and per activated disruption, then one        *)
(* transaction that replaces the register.                                  *)
(*                                                                          *)
(* The worker applies a command id at most once (RegionalWriter): a known   *)
(* id with the same payload is a replay without effect, with another        *)
(* payload a conflict. Ids are made of a snapshot hash and the disruption.  *)
(* Between two commands the process may die and any call may fail, before   *)
(* or after its commit.                                                     *)
(*                                                                          *)
(* A disruption stands for the key of a registration (region, materialized  *)
(* restriction and resource), a hash for a snapshot's content.              *)
(***************************************************************************)
EXTENDS Naturals, FiniteSets, Sequences

CONSTANTS
    Worlds,         \* the enabled worlds, in the order of their ids
    Simulated,      \* those with a regional simulation
    Disruptions,
    Effects,        \* operational effects of a disruption
    None,           \* no effect: not listed, not registered, not active
    MaxHash         \* bound: snapshots the provider publishes

WorldSet == {Worlds[i] : i \in DOMAIN Worlds}
Hashes == 1 .. MaxHash
Table == [Disruptions -> Effects \cup {None}]
Nothing == [d \in Disruptions |-> None]

ASSUME ProviderAssumption ==
    /\ Worlds \in Seq(WorldSet)
    /\ \A i, k \in DOMAIN Worlds : Worlds[i] = Worlds[k] => i = k
    /\ Simulated \subseteq WorldSet
    /\ None \notin Effects
    /\ MaxHash \in Nat \ {0}

Commands ==
    [type: {"clear"}, hash: 0 .. MaxHash, d: Disruptions, payload: Hashes]
      \cup [type: {"activate"}, hash: Hashes, d: Disruptions, payload: Effects]

VARIABLES
    \* The provider and the trains.
    listed,         \* per published snapshot the effects of its current restrictions
    hash,           \* the snapshot a fetch would return
    matched,        \* per world the disruptions that lie on the route of a train
    \* PostgreSQL, per world.
    register,       \* disruption_provider_applications: [hash, effects]
    active,         \* active_disruptions of the simulation
    receipts,       \* durable command receipts
    safe,           \* lastSafeSnapshot of the provider state, 0 if none
    failure,        \* the worlds with a lastFailure
    \* The process.
    monitor,        \* DisruptionProviderMonitor: [running, last]
    pc,             \* the await the cycle is suspended at
    turn,           \* the world of the loop
    snapshot,       \* the hash this cycle fetched
    target,         \* newRegistrations of the world in turn
    clears,         \* calls of the two loops that are still to be made
    activates,
    sent,           \* history: commands committed since the last register write
    astray          \* history: worlds whose reconciliation lost track of a command

provider == <<listed, hash, matched>>
stored == <<register, safe, failure>>
simulation == <<active, receipts>>
locals == <<turn, snapshot, target, clears, activates>>
vars == <<listed, hash, matched, register, active, receipts, safe, failure,
          monitor, pc, turn, snapshot, target, clears, activates, sent, astray>>
history == <<sent, astray>>

World == Worlds[turn]

\* Every variable has its type, and the cycle only calls for commands that change something.
TypeOK ==
    /\ hash \in Hashes
    /\ listed \in [Hashes -> Table]
    /\ matched \in [WorldSet -> SUBSET Disruptions]
    /\ register \in [WorldSet -> [hash: 0 .. MaxHash, effects: Table]]
    /\ active \in [WorldSet -> Table]
    /\ receipts \in [WorldSet -> SUBSET Commands]
    /\ safe \in [WorldSet -> 0 .. MaxHash]
    /\ failure \subseteq WorldSet
    /\ monitor \in [running: BOOLEAN, last: {"none", "success", "failure"}]
    /\ pc \in {"idle", "fetch", "read", "apply", "success", "failed"}
    /\ turn \in DOMAIN Worlds \cup {Len(Worlds) + 1}
    /\ snapshot \in 0 .. MaxHash
    /\ target \in Table
    /\ clears \subseteq Disruptions /\ activates \subseteq Disruptions
    /\ sent \in [WorldSet -> SUBSET Commands]
    /\ astray \subseteq WorldSet
    /\ \A d \in clears : register[World].effects[d] \in Effects \ {target[d]}
    /\ \A d \in activates : target[d] \in Effects \ {register[World].effects[d]}

Init ==
    /\ hash = 1
    /\ \E table \in Table : listed = [h \in Hashes |-> IF h = 1 THEN table ELSE Nothing]
    /\ matched = [w \in WorldSet |-> Disruptions]
    /\ register = [w \in WorldSet |-> [hash |-> 0, effects |-> Nothing]]
    /\ active = [w \in WorldSet |-> Nothing]
    /\ receipts = [w \in WorldSet |-> {}]
    /\ safe = [w \in WorldSet |-> 0]
    /\ failure = {}
    /\ monitor = [running |-> FALSE, last |-> "none"]
    /\ pc = "idle"
    /\ turn = 1
    /\ snapshot = 0
    /\ target = Nothing
    /\ clears = {} /\ activates = {}
    /\ sent = [w \in WorldSet |-> {}]
    /\ astray = {}

-----------------------------------------------------------------------------
(* The provider and the trains. *)

\* providerRegistrations: the restrictions of a snapshot that resolve to a resource on
\* the route of a current train.
Registrations(w, h) == [d \in Disruptions |-> IF d \in matched[w] THEN listed[h][d] ELSE None]

\* The provider publishes another snapshot, at any time.
Publish ==
    /\ hash < MaxHash
    /\ hash' = hash + 1
    /\ \E table \in Table : listed' = [listed EXCEPT ![hash + 1] = table]
    /\ UNCHANGED <<matched, stored, simulation, monitor, pc, locals, history>>

\* Trains come, leave and come back, and the horizon rolls on: what a snapshot registers
\* for a world may change at any time, under the same hash too.
Trains(w) ==
    /\ \E now \in SUBSET Disruptions : matched' = [matched EXCEPT ![w] = now]
    /\ UNCHANGED <<listed, hash, stored, simulation, monitor, pc, locals, history>>

-----------------------------------------------------------------------------
(* runDisruptionProviderCycle. *)

\* The cycle returns or throws; its locals are gone.
Return ==
    /\ pc' = "idle"
    /\ turn' = 1 /\ snapshot' = 0 /\ target' = Nothing
    /\ clears' = {} /\ activates' = {}

\* The loop is left for the catch clause.
Throw ==
    /\ pc' = "failed"
    /\ target' = Nothing /\ clears' = {} /\ activates' = {}
    /\ UNCHANGED <<turn, snapshot>>

\* The interval starts a cycle unless one is running; enabledWorlds has been read.
StartCycle ==
    /\ pc = "idle"
    /\ monitor' = [monitor EXCEPT !.running = TRUE]
    /\ pc' = "fetch"
    /\ UNCHANGED <<provider, stored, simulation, locals, history>>

FetchSnapshot ==
    /\ pc = "fetch"
    /\ snapshot' = hash
    /\ turn' = 1
    /\ pc' = "read"
    /\ UNCHANGED <<provider, stored, simulation, monitor, target, clears, activates, history>>

\* All worlds of the loop are done.
CompleteCycle ==
    /\ pc = "read"
    /\ turn > Len(Worlds)
    /\ monitor' = [running |-> FALSE, last |-> "success"]
    /\ Return
    /\ UNCHANGED <<provider, stored, simulation, history>>

\* History: a command that an interrupted reconciliation has left in the simulation is not
\* asked for any more, or not in this form: the clear of an effect that is wanted again, the
\* activation of an effect that is not.
LosesTrack(new) ==
    \E c \in sent[World] :
        IF c.type = "clear" THEN new[c.d] = register[World].effects[c.d] ELSE new[c.d] # c.payload

\* Mutant: rows are taken over by their key, a changed effect is not noticed.
ReconcileKeysOnly ==
    LET old == register[World].effects
        new == Registrations(World, snapshot)
    IN  /\ pc = "read"
        /\ turn <= Len(Worlds)
        /\ World \in Simulated
        /\ target' = new
        /\ clears' = {d \in Disruptions : old[d] # None /\ new[d] = None}
        /\ activates' = {d \in Disruptions : new[d] # None /\ old[d] = None}
        /\ pc' = "apply"
        /\ astray' = IF LosesTrack(new) THEN astray \cup {World} ELSE astray
        /\ UNCHANGED <<provider, stored, simulation, monitor, turn, snapshot, sent>>

\* Mutant: unchanged registrations are activated again.
ReconcileReactivates ==
    LET old == register[World].effects
        new == Registrations(World, snapshot)
    IN  /\ pc = "read"
        /\ turn <= Len(Worlds)
        /\ World \in Simulated
        /\ target' = new
        /\ clears' = {d \in Disruptions : old[d] # None /\ new[d] # old[d]}
        /\ activates' = {d \in Disruptions : new[d] # None}
        /\ pc' = "apply"
        /\ astray' = IF LosesTrack(new) THEN astray \cup {World} ELSE astray
        /\ UNCHANGED <<provider, stored, simulation, monitor, turn, snapshot, sent>>

\* Mutant: a snapshot that has been taken over is not looked at again, whatever trains do.
ReconcileNewSnapshots ==
    LET old == register[World].effects
        new == IF snapshot = register[World].hash THEN old ELSE Registrations(World, snapshot)
    IN  /\ pc = "read"
        /\ turn <= Len(Worlds)
        /\ World \in Simulated
        /\ target' = new
        /\ clears' = {d \in Disruptions : old[d] # None /\ new[d] # old[d]}
        /\ activates' = {d \in Disruptions : new[d] # None /\ new[d] # old[d]}
        /\ pc' = "apply"
        /\ astray' = IF LosesTrack(new) THEN astray \cup {World} ELSE astray
        /\ UNCHANGED <<provider, stored, simulation, monitor, turn, snapshot, sent>>

\* The consumer reads the regional states and the register and compares: what is gone or
\* has another effect is cleared, what is new or has another effect is activated.
Reconcile ==
    LET old == register[World].effects
        new == Registrations(World, snapshot)
    IN  /\ pc = "read"
        /\ turn <= Len(Worlds)
        /\ World \in Simulated
        /\ target' = new
        /\ clears' = {d \in Disruptions : old[d] # None /\ new[d] # old[d]}
        /\ activates' = {d \in Disruptions : new[d] # None /\ new[d] # old[d]}
        /\ pc' = "apply"
        /\ astray' = IF LosesTrack(new) THEN astray \cup {World} ELSE astray
        /\ UNCHANGED <<provider, stored, simulation, monitor, turn, snapshot, sent>>

\* A world without a regional state has nothing to reconcile.
SkipWorld ==
    /\ pc = "read"
    /\ turn <= Len(Worlds)
    /\ World \notin Simulated
    /\ pc' = "success"
    /\ UNCHANGED <<provider, stored, simulation, monitor, locals, history>>

ClearCommand(d) ==
    [type |-> "clear", hash |-> register[World].hash, d |-> d, payload |-> snapshot]

ActivateCommand(d) ==
    [type |-> "activate", hash |-> snapshot, d |-> d, payload |-> target[d]]

\* The receipts under the id of command c.
Known(c) == {k \in receipts[World] : k.type = c.type /\ k.hash = c.hash /\ k.d = c.d}

\* The worker has another content under the id.
Conflict(c) == Known(c) # {} /\ c \notin Known(c)

\* activate_disruption refuses another effect for an active disruption.
NativeAccepts(c) ==
    c.type = "activate" => active[World][c.d] \in {None, c.payload}

Effect(c) == IF c.type = "clear" THEN None ELSE c.payload

\* The command is new to the simulation: it takes effect and leaves a receipt.
Commit(c) ==
    /\ Known(c) = {}
    /\ NativeAccepts(c)
    /\ active' = [active EXCEPT ![World][c.d] = Effect(c)]
    /\ receipts' = [receipts EXCEPT ![World] = @ \cup {c}]
    /\ sent' = [sent EXCEPT ![World] = @ \cup {c}]

Called(c) ==
    IF c.type = "clear"
    THEN clears' = clears \ {c.d} /\ UNCHANGED activates
    ELSE activates' = activates \ {c.d} /\ UNCHANGED clears

\* Mutant: the two loops run in one, in the order of the keys.
PendingInterleaved(c) ==
    \/ \E d \in clears : c = ClearCommand(d)
    \/ \E d \in activates : c = ActivateCommand(d)

\* The next call: first every clear, then every activation.
Pending(c) ==
    \/ \E d \in clears : c = ClearCommand(d)
    \/ clears = {} /\ \E d \in activates : c = ActivateCommand(d)

PendingCommands ==
    {ClearCommand(d) : d \in clears} \cup {ActivateCommand(d) : d \in activates}

Apply(c) ==
    /\ pc = "apply"
    /\ Pending(c)
    /\ Commit(c)
    /\ Called(c)
    /\ UNCHANGED <<provider, stored, monitor, pc, turn, snapshot, target, astray>>

\* The id is known with this payload: the worker only confirms it. (History: the receipt may
\* be older than this reconciliation.)
Replay(c) ==
    /\ pc = "apply"
    /\ Pending(c)
    /\ c \in Known(c)
    /\ Called(c)
    /\ astray' = IF c \in sent[World] THEN astray ELSE astray \cup {World}
    /\ UNCHANGED <<provider, stored, simulation, monitor, pc, turn, snapshot, target, sent>>

\* The loops throw: the id is known with another payload, or the native runtime refuses.
Refused(c) ==
    /\ pc = "apply"
    /\ Pending(c)
    /\ Conflict(c) \/ (Known(c) = {} /\ ~NativeAccepts(c))
    /\ Throw
    /\ UNCHANGED <<provider, stored, simulation, monitor, history>>

\* The transaction of the consumer replaces the register of the world.
ReplaceRegister ==
    /\ pc = "apply"
    /\ clears = {} /\ activates = {}
    /\ register' = [register EXCEPT ![World] = [hash |-> snapshot, effects |-> target]]
    /\ sent' = [sent EXCEPT ![World] = {}]
    /\ target' = Nothing
    /\ pc' = "success"
    /\ UNCHANGED <<provider, safe, failure, simulation, monitor, turn, snapshot, clears, activates, astray>>

PersistSuccess ==
    /\ pc = "success"
    /\ safe' = [safe EXCEPT ![World] = snapshot]
    /\ failure' = failure \ {World}
    /\ turn' = turn + 1
    /\ pc' = "read"
    /\ UNCHANGED <<provider, register, simulation, monitor, snapshot, target, clears, activates, history>>

\* Mutant: the monitor is told of the end of the cycle in a finally clause.
PersistFailureCompletes ==
    /\ pc = "failed"
    /\ failure' = WorldSet
    /\ monitor' = [running |-> FALSE, last |-> "success"]
    /\ Return
    /\ UNCHANGED <<provider, register, safe, simulation, history>>

\* The catch clause: every enabled world gets the failure, the finished ones too.
PersistFailure ==
    /\ pc = "failed"
    /\ failure' = WorldSet
    /\ monitor' = [running |-> FALSE, last |-> "failure"]
    /\ Return
    /\ UNCHANGED <<provider, register, safe, simulation, history>>

-----------------------------------------------------------------------------
(* Faults. *)

\* An await of the cycle rejects without an effect: the provider does not answer, the
\* head moved under the worker's call, a handover is prepared, the region is not ready,
\* a query or transaction fails.
AwaitFails ==
    /\ pc \in {"fetch", "read", "apply", "success"}
    /\ pc = "read" => turn <= Len(Worlds)
    /\ Throw
    /\ UNCHANGED <<provider, stored, simulation, monitor, history>>

\* The worker's call throws after its commit: its fan-out failed.
ApplyThrowsLate(c) ==
    /\ pc = "apply"
    /\ Pending(c)
    /\ Commit(c)
    /\ Throw
    /\ UNCHANGED <<provider, stored, monitor, astray>>

\* The failure cannot be persisted for every world either: the monitor is not told.
PersistFailureFails ==
    /\ pc = "failed"
    /\ \E told \in SUBSET WorldSet : failure' = failure \cup told
    /\ Return
    /\ UNCHANGED <<provider, register, safe, simulation, monitor, history>>

Crash ==
    /\ Return
    /\ monitor' = [running |-> FALSE, last |-> "none"]
    /\ UNCHANGED <<provider, stored, simulation, history>>

-----------------------------------------------------------------------------
Cycle ==
    \/ StartCycle \/ FetchSnapshot \/ CompleteCycle
    \/ Reconcile \/ SkipWorld
    \/ \E c \in PendingCommands : Apply(c) \/ Replay(c) \/ Refused(c)
    \/ ReplaceRegister \/ PersistSuccess \/ PersistFailure

Fault ==
    \/ AwaitFails \/ PersistFailureFails \/ Crash
    \/ \E c \in PendingCommands : ApplyThrowsLate(c)

Next ==
    \/ Cycle
    \/ Fault
    \/ Publish
    \/ \E w \in Simulated : Trains(w)

Spec == Init /\ [][Next]_vars

\* Fairness: the interval fires again and again, and the awaits of a cycle settle.
FairSpec == Spec /\ WF_vars(Cycle)

-----------------------------------------------------------------------------
(* Properties. *)

\* Between two reconciliations the register of a world says exactly which provider
\* disruptions its simulation has: none is active without being registered (and so never
\* cleared), none is registered without being in effect, however often cycles failed or died
\* half way and whatever provider and trains did meanwhile. Only two things make a register
\* untrue, and astray has the worlds they happened to: a repetition that does not ask any more
\* for a command its interrupted predecessor has left in the simulation, and a call that is
\* answered from the receipt of an earlier, finished reconciliation.
RegisterIsTrue ==
    \A w \in Simulated : sent[w] = {} /\ w \notin astray => active[w] = register[w].effects

\* A changed restriction is removed before it is registered anew: no activation meets the
\* registered effect of its disruption, whether the clear was made in this cycle or in a
\* failed one, and whatever the input has been in between.
ClearedBeforeReplaced ==
    \A d \in activates :
        pc = "apply" /\ Pending(ActivateCommand(d)) /\ register[World].effects[d] # None =>
            active[World][d] # register[World].effects[d]

\* When the monitor reports a current provider, every world has consumed the snapshot it
\* names as its last safe one and carries no failure.
HealthIsHonest ==
    monitor = [running |-> FALSE, last |-> "success"] =>
        \A w \in WorldSet :
            /\ w \notin failure
            /\ w \in Simulated => safe[w] = register[w].hash

\* The cycle, with no fault and no change of the input.
Steady == Cycle /\ UNCHANGED provider

\* The next call can only be refused: its id is taken by another content, or a world that
\* went astray has an effect nobody clears.
Blocked ==
    /\ pc = "apply"
    /\ \E c \in PendingCommands :
         Pending(c) /\ (Conflict(c) \/ (World \in astray /\ ~NativeAccepts(c)))

\* Once the faults stop and the provider stands still, every simulation that did not go
\* astray ends up with exactly the disruptions of the provider's last snapshot, unless the
\* cycles run into a refused call again and again (see SnapshotIsTakenOver).
ProviderArrives ==
    <>[][Steady]_vars =>
        \/ []<>Blocked
        \/ <>[](\A w \in Simulated \ astray : active[w] = Registrations(w, hash))

\* Once the faults stop and the provider stands still, its last snapshot is taken over.
SnapshotIsTakenOver ==
    <>[][Steady]_vars => <>[](\A w \in WorldSet : safe[w] = hash)

\* No phantom disruptions: what the simulation has, the register knows.
NoPhantoms ==
    \A w \in Simulated : sent[w] = {} =>
        \A d \in Disruptions : active[w][d] # None => register[w].effects[d] # None

\* No markers without effect: what the register says, the simulation has.
NoMarkersWithoutEffect ==
    \A w \in Simulated : sent[w] = {} =>
        \A d \in Disruptions : register[w].effects[d] # None => active[w][d] # None
=============================================================================
