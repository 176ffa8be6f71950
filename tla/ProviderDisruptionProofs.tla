----------------------- MODULE ProviderDisruptionProofs -----------------------
(***************************************************************************)
(* Proofs about ProviderDisruption, for any worlds, disruptions, effects    *)
(* and number of snapshots.                                                 *)
(***************************************************************************)
EXTENDS ProviderDisruption, SequenceTheorems, TLAPS

-----------------------------------------------------------------------------
(* The inductive invariants. *)

ProviderTypes ==
    /\ hash \in Hashes
    /\ listed \in [Hashes -> Table]
    /\ matched \in [WorldSet -> SUBSET Disruptions]

StoredTypes ==
    /\ register \in [WorldSet -> [hash: 0 .. MaxHash, effects: Table]]
    /\ safe \in [WorldSet -> 0 .. MaxHash]
    /\ failure \subseteq WorldSet

SimulationTypes ==
    /\ active \in [WorldSet -> Table]
    /\ receipts \in [WorldSet -> SUBSET Commands]
    /\ sent \in [WorldSet -> SUBSET Commands]
    /\ astray \subseteq WorldSet

CycleTypes ==
    /\ monitor \in [running: BOOLEAN, last: {"none", "success", "failure"}]
    /\ pc \in {"idle", "fetch", "read", "apply", "success", "failed"}
    /\ turn \in DOMAIN Worlds \cup {Len(Worlds) + 1}
    /\ snapshot \in 0 .. MaxHash
    /\ target \in Table
    /\ clears \subseteq Disruptions /\ activates \subseteq Disruptions

\* What the cycle has in hand at each of its awaits: a snapshot from the fetch on, a world
\* while it is reconciled, and calls to make only while the loops run.
Place ==
    /\ pc \in {"read", "apply", "success"} => snapshot \in Hashes
    /\ pc \in {"apply", "success"} => turn \in DOMAIN Worlds
    /\ pc = "apply" => World \in Simulated
    /\ pc # "apply" => clears = {} /\ activates = {}
    /\ pc # "idle" => monitor.running

\* The loops only call for commands that change the registered effect.
Calls ==
    /\ \A d \in clears : register[World].effects[d] \in Effects \ {target[d]}
    /\ \A d \in activates : target[d] \in Effects \ {register[World].effects[d]}

TypeInv == ProviderTypes /\ StoredTypes /\ SimulationTypes /\ CycleTypes /\ Place /\ Calls

\* The worlds the loop has passed have consumed the snapshot and carry no failure.
Consumed(w) ==
    /\ w \notin failure
    /\ w \in Simulated => safe[w] = register[w].hash

HealthInv ==
    /\ pc \in {"read", "apply", "success"} => \A i \in 1 .. turn - 1 : Consumed(Worlds[i])
    /\ pc = "success" /\ World \in Simulated => register[World].hash = snapshot

\* Where the reconciliation of world w starts from.
Old(w) == register[w].effects

\* A command of this kind for disruption d has been committed since the register was written.
SentFor(w, type, d) == \E k \in sent[w] : k.type = type /\ k.d = d

\* The simulation is the register plus the commands committed since, and these are the clear
\* of a registered effect and, behind it, the activation of another one.
InStep(w) ==
    /\ \A k \in sent[w] :
         /\ k \in receipts[w]
         /\ k.type = "clear" => k.hash = register[w].hash /\ Old(w)[k.d] # None
         /\ k.type = "activate" =>
              /\ k.payload # Old(w)[k.d] /\ active[w][k.d] = k.payload
              /\ Old(w)[k.d] # None => SentFor(w, "clear", k.d)
    /\ \A d \in Disruptions : ~SentFor(w, "activate", d) =>
         active[w][d] = IF SentFor(w, "clear", d) THEN None ELSE Old(w)[d]

\* What has been committed is still asked for, and a call that has been made was committed.
OnCourse ==
    /\ \A k \in sent[World] :
         IF k.type = "clear" THEN target[k.d] # Old(World)[k.d] ELSE target[k.d] = k.payload
    /\ \A d \in Disruptions : target[d] # Old(World)[d] =>
         /\ Old(World)[d] # None => d \in clears \/ SentFor(World, "clear", d)
         /\ target[d] # None => d \in activates \/ SentFor(World, "activate", d)

RegisterInv ==
    /\ \A w \in Simulated : w \notin astray => InStep(w)
    /\ pc = "apply" /\ World \notin astray => OnCourse

\* Snapshots are taken over in the order they are published, and a table registered under a
\* hash is a part of that snapshot.
Looping == pc \in {"read", "apply", "success"}

PartOf(table, h) ==
    \A d \in Disruptions : table[d] # None => h \in Hashes /\ table[d] = listed[h][d]

Dated(w) ==
    /\ register[w].hash <= hash
    /\ Looping => register[w].hash <= snapshot
    /\ PartOf(Old(w), register[w].hash)
    /\ \A k \in receipts[w] : k.type = "clear" =>
         /\ k.hash <= register[w].hash /\ k.payload <= hash
         /\ Looping => k.payload <= snapshot

\* The clear of a registered effect for a later snapshot has taken that effect away for good.
Removed(w) ==
    \A k \in receipts[w] :
        k.type = "clear" /\ k.hash = register[w].hash /\ k.payload > k.hash /\ Old(w)[k.d] # None
            => active[w][k.d] # Old(w)[k.d]

ClearsMade ==
    pc = "apply" =>
        /\ PartOf(target, snapshot)
        /\ \A d \in Disruptions : Old(World)[d] # None /\ target[d] # Old(World)[d] =>
             d \in clears \/ ClearCommand(d) \in receipts[World]

ClearedInv ==
    /\ Looping => snapshot <= hash
    /\ ClearsMade
    /\ \A w \in Simulated : Dated(w) /\ Removed(w)

-----------------------------------------------------------------------------
(* Types. *)

\* The worlds of the loop.
LEMMA WorldFacts ==
    /\ Worlds \in Seq(WorldSet) /\ Len(Worlds) \in Nat /\ DOMAIN Worlds = 1 .. Len(Worlds)
    /\ \A i \in DOMAIN Worlds : Worlds[i] \in WorldSet
    /\ \A w \in WorldSet : \E i \in DOMAIN Worlds : w = Worlds[i]
    /\ \A w \in Simulated : w \in WorldSet
    /\ Nothing \in Table
    /\ MaxHash \in Nat /\ 1 \in Hashes
  <1>1. Worlds \in Seq(WorldSet) /\ MaxHash \in Nat \ {0} /\ Simulated \subseteq WorldSet
    BY ProviderAssumption
  <1>2. Len(Worlds) \in Nat /\ DOMAIN Worlds = 1 .. Len(Worlds)
    BY <1>1
  <1>3. \A i \in DOMAIN Worlds : Worlds[i] \in WorldSet
    BY DEF WorldSet
  <1>4. \A w \in WorldSet : \E i \in DOMAIN Worlds : w = Worlds[i]
    BY DEF WorldSet
  <1>5. Nothing \in Table
    BY DEF Nothing, Table
  <1> QED BY <1>1, <1>2, <1>3, <1>4, <1>5 DEF Hashes

\* The call the loops make next.
LEMMA CallFacts ==
    ASSUME TypeInv, pc = "apply", NEW c, Pending(c)
    PROVE  /\ c \in Commands /\ c.d \in Disruptions
           /\ World \in Simulated /\ World \in WorldSet
           /\ \/ /\ c.type = "clear" /\ c.d \in clears /\ Effect(c) = None
                 /\ c.hash = register[World].hash
              \/ /\ c.type = "activate" /\ c.d \in activates /\ clears = {} /\ Effect(c) = target[c.d]
                 /\ c.hash = snapshot /\ c.payload = target[c.d]
  <1>1. World \in Simulated /\ World \in WorldSet /\ snapshot \in Hashes
    BY WorldFacts DEF TypeInv, Place
  <1>2. register[World].hash \in 0 .. MaxHash
    BY <1>1 DEF TypeInv, StoredTypes
  <1>3. ASSUME NEW d \in clears, c = ClearCommand(d)
        PROVE  c \in Commands /\ c.d = d /\ d \in Disruptions /\ c.type = "clear" /\ Effect(c) = None
               /\ c.hash = register[World].hash
    <2>1. d \in Disruptions
      BY DEF TypeInv, CycleTypes
    <2> QED BY <1>1, <1>2, <1>3, <2>1 DEF ClearCommand, Commands, Effect
  <1>4. ASSUME NEW d \in activates, c = ActivateCommand(d)
        PROVE  c \in Commands /\ c.d = d /\ d \in Disruptions /\ c.type = "activate"
               /\ Effect(c) = target[d] /\ c.hash = snapshot /\ c.payload = target[d]
    <2>1. d \in Disruptions /\ target[d] \in Effects
      BY DEF TypeInv, CycleTypes, Calls
    <2> QED BY <1>1, <1>4, <2>1 DEF ActivateCommand, Commands, Effect
  <1> QED BY <1>1, <1>3, <1>4 DEF Pending

\* A command that is committed changes one disruption of the world in turn.
LEMMA CommitFacts ==
    ASSUME TypeInv, pc = "apply", NEW c, Pending(c), Commit(c)
    PROVE  /\ Effect(c) \in Effects \cup {None}
           /\ active' \in [WorldSet -> Table]
           /\ active'[World][c.d] = Effect(c)
           /\ \A d \in Disruptions : d # c.d => active'[World][d] = active[World][d]
           /\ receipts' \in [WorldSet -> SUBSET Commands]
           /\ receipts'[World] = receipts[World] \cup {c}
           /\ \A w \in WorldSet : w # World => active'[w] = active[w] /\ receipts'[w] = receipts[w]
           /\ sent' \in [WorldSet -> SUBSET Commands]
           /\ sent'[World] = sent[World] \cup {c}
           /\ \A w \in WorldSet : w # World => sent'[w] = sent[w]
  <1>1. c \in Commands /\ c.d \in Disruptions /\ World \in WorldSet
    BY CallFacts
  <1>2. Effect(c) \in Effects \cup {None}
    <2>1. \A d \in activates : target[d] \in Effects
      BY DEF TypeInv, Calls
    <2> QED BY <2>1, CallFacts
  <1>3. /\ active' = [active EXCEPT ![World][c.d] = Effect(c)]
        /\ receipts' = [receipts EXCEPT ![World] = @ \cup {c}]
        /\ sent' = [sent EXCEPT ![World] = @ \cup {c}]
    BY DEF Commit
  <1>4. active \in [WorldSet -> [Disruptions -> Effects \cup {None}]]
        /\ receipts \in [WorldSet -> SUBSET Commands] /\ sent \in [WorldSet -> SUBSET Commands]
    BY DEF TypeInv, SimulationTypes, Table
  <1>5. /\ active' \in [WorldSet -> [Disruptions -> Effects \cup {None}]]
        /\ active'[World][c.d] = Effect(c)
        /\ \A d \in Disruptions : d # c.d => active'[World][d] = active[World][d]
        /\ \A w \in WorldSet : w # World => active'[w] = active[w]
    BY <1>1, <1>2, <1>3, <1>4
  <1>6. /\ receipts' \in [WorldSet -> SUBSET Commands]
        /\ receipts'[World] = receipts[World] \cup {c}
        /\ \A w \in WorldSet : w # World => receipts'[w] = receipts[w]
    BY <1>1, <1>3, <1>4
  <1>7. /\ sent' \in [WorldSet -> SUBSET Commands]
        /\ sent'[World] = sent[World] \cup {c}
        /\ \A w \in WorldSet : w # World => sent'[w] = sent[w]
    BY <1>1, <1>3, <1>4
  <1> QED BY <1>2, <1>5, <1>6, <1>7 DEF Table

\* The provider's side keeps its types.
LEMMA ProviderTypesStep ==
    ASSUME TypeInv, [Next]_vars
    PROVE  ProviderTypes'
  <1>0. ProviderTypes
    BY DEF TypeInv
  <1>1. CASE Publish
    <2>1. PICK table \in Table : listed' = [listed EXCEPT ![hash + 1] = table]
      BY <1>1 DEF Publish
    <2>2. hash' \in Hashes
      BY <1>0, <1>1, WorldFacts DEF Publish, ProviderTypes, Hashes
    <2>3. listed' \in [Hashes -> Table]
      BY <1>0, <2>1 DEF ProviderTypes
    <2> QED BY <1>0, <1>1, <2>2, <2>3 DEF Publish, ProviderTypes
  <1>2. ASSUME NEW w \in Simulated, Trains(w)
        PROVE  ProviderTypes'
    BY <1>0, <1>2 DEF Trains, ProviderTypes
  <1>3. CASE UNCHANGED provider
    BY <1>0, <1>3 DEF provider, ProviderTypes
  <1> QED
    BY <1>1, <1>2, <1>3
       DEF Next, Cycle, Fault, StartCycle, FetchSnapshot, CompleteCycle, Reconcile, SkipWorld, Apply, Replay,
           Refused, ReplaceRegister, PersistSuccess, PersistFailure, AwaitFails, PersistFailureFails, Crash,
           ApplyThrowsLate, vars, provider

\* The register and the provider state keep their types.
LEMMA StoredTypesStep ==
    ASSUME TypeInv, [Next]_vars
    PROVE  StoredTypes'
  <1>0. StoredTypes
    BY DEF TypeInv
  <1>1. CASE ReplaceRegister
    <2>1. [hash |-> snapshot, effects |-> target] \in [hash: 0 .. MaxHash, effects: Table]
      BY DEF TypeInv, CycleTypes
    <2>2. register' \in [WorldSet -> [hash: 0 .. MaxHash, effects: Table]]
      BY <1>0, <1>1, <2>1 DEF ReplaceRegister, StoredTypes
    <2> QED BY <1>0, <1>1, <2>2 DEF ReplaceRegister, StoredTypes
  <1>2. CASE PersistSuccess
    <2>1. snapshot \in 0 .. MaxHash
      BY DEF TypeInv, CycleTypes
    <2> QED BY <1>0, <1>2, <2>1 DEF PersistSuccess, StoredTypes
  <1>3. CASE PersistFailure
    BY <1>0, <1>3 DEF PersistFailure, StoredTypes
  <1>4. CASE PersistFailureFails
    BY <1>0, <1>4 DEF PersistFailureFails, StoredTypes
  <1>5. CASE UNCHANGED stored
    BY <1>0, <1>5 DEF stored, StoredTypes
  <1> QED
    BY <1>1, <1>2, <1>3, <1>4, <1>5
       DEF Next, Cycle, Fault, StartCycle, FetchSnapshot, CompleteCycle, Reconcile, SkipWorld, Apply, Replay,
           Refused, AwaitFails, Crash, ApplyThrowsLate, Publish, Trains, vars, stored

\* The simulation and the history keep their types.
LEMMA SimulationTypesStep ==
    ASSUME TypeInv, [Next]_vars
    PROVE  SimulationTypes'
  <1>0. SimulationTypes /\ CycleTypes /\ Place
    BY DEF TypeInv
  <1>1. ASSUME NEW c, pc = "apply", Pending(c), Commit(c), UNCHANGED astray
        PROVE  SimulationTypes'
    BY <1>0, <1>1, CommitFacts, CallFacts DEF SimulationTypes
  <1>2. CASE ReplaceRegister
    BY <1>0, <1>2 DEF ReplaceRegister, SimulationTypes, simulation
  <1>3. CASE UNCHANGED <<active, receipts, sent, astray>>
    BY <1>0, <1>3 DEF SimulationTypes
  <1>4. ASSUME UNCHANGED <<active, receipts, sent>>, World \in WorldSet,
               astray' = astray \/ astray' = astray \cup {World}
        PROVE  SimulationTypes'
    BY <1>0, <1>4 DEF SimulationTypes
  <1>5. CASE Reconcile
    <2>1. World \in WorldSet
      BY <1>5, WorldFacts DEF Reconcile
    <2> QED BY <1>4, <1>5, <2>1 DEF Reconcile, simulation
  <1>6. ASSUME NEW c, Replay(c)
        PROVE  SimulationTypes'
    <2>1. World \in WorldSet
      BY <1>0, <1>6, WorldFacts DEF Replay, Place
    <2> QED BY <1>4, <1>6, <2>1 DEF Replay, simulation
  <1> QED
    BY <1>1, <1>2, <1>3, <1>5, <1>6
       DEF Next, Cycle, Fault, StartCycle, FetchSnapshot, CompleteCycle, SkipWorld, Apply,
           Refused, PersistSuccess, PersistFailure, AwaitFails, PersistFailureFails, Crash,
           ApplyThrowsLate, Publish, Trains, vars, simulation, history

\* What a snapshot registers is a table of effects.
LEMMA RegistrationsType ==
    ASSUME ProviderTypes, NEW w \in WorldSet, NEW h \in Hashes
    PROVE  Registrations(w, h) \in Table
  <1>1. listed[h] \in [Disruptions -> Effects \cup {None}]
    BY DEF ProviderTypes, Table
  <1> QED BY <1>1 DEF Registrations, Table

\* The cycle keeps its types, knows where it is and calls for changes only.
LEMMA CycleStep ==
    ASSUME TypeInv, [Next]_vars
    PROVE  CycleTypes' /\ Place' /\ Calls'
  <1>0. CycleTypes /\ Place /\ Calls
    BY DEF TypeInv
  <1> USE WorldFacts
  <1>1. CASE Return /\ monitor' \in [running: BOOLEAN, last: {"none", "success", "failure"}]
    BY <1>1 DEF Return, CycleTypes, Place, Calls
  <1>2. CASE Throw /\ pc # "idle" /\ UNCHANGED monitor
    BY <1>0, <1>2 DEF Throw, CycleTypes, Place, Calls
  <1>3. CASE StartCycle
    BY <1>0, <1>3 DEF StartCycle, CycleTypes, Place, Calls, locals
  <1>4. CASE FetchSnapshot
    <2>1. hash \in Hashes
      BY DEF TypeInv, ProviderTypes
    <2> QED BY <1>0, <1>4, <2>1 DEF FetchSnapshot, CycleTypes, Place, Calls, Hashes
  <1>5. CASE Reconcile
    <2> DEFINE old == register[World].effects
               new == Registrations(World, snapshot)
    <2>1. turn \in DOMAIN Worlds /\ World \in Simulated /\ World \in WorldSet /\ snapshot \in Hashes
      BY <1>0, <1>5 DEF Reconcile, CycleTypes, Place, World
    <2>2. new \in Table
      BY <2>1, RegistrationsType DEF TypeInv
    <2>3. old \in Table
      BY <2>1 DEF TypeInv, StoredTypes
    <2>4. /\ target' = new /\ pc' = "apply" /\ register' = register /\ turn' = turn /\ snapshot' = snapshot
          /\ monitor' = monitor /\ pc = "read"
          /\ clears' = {d \in Disruptions : old[d] # None /\ new[d] # old[d]}
          /\ activates' = {d \in Disruptions : new[d] # None /\ new[d] # old[d]}
      BY <1>5 DEF Reconcile, stored
    <2>5. World' = World
      BY <2>4 DEF World
    <2> HIDE DEF old, new
    <2>6. Place'
      BY <1>0, <2>1, <2>4, <2>5 DEF Place
    <2>7. CycleTypes'
      BY <1>0, <2>2, <2>4 DEF CycleTypes
    <2>8. \A d \in Disruptions : new[d] \in Effects \cup {None} /\ old[d] \in Effects \cup {None}
      BY <2>2, <2>3 DEF Table
    <2>9. register'[World'].effects = old
      BY <2>4, <2>5 DEF old
    <2>10. Calls'
      BY <2>4, <2>8, <2>9 DEF Calls
    <2> QED BY <2>6, <2>7, <2>10
  <1>6. CASE SkipWorld
    BY <1>0, <1>6 DEF SkipWorld, CycleTypes, Place, Calls, locals
  <1>7. ASSUME NEW c, pc = "apply", Called(c), UNCHANGED <<register, monitor, pc, turn, snapshot, target>>
        PROVE  CycleTypes' /\ Place' /\ Calls'
    <2>1. clears' \subseteq clears /\ activates' \subseteq activates
      BY <1>7 DEF Called
    <2>2. World' = World
      BY <1>7 DEF World
    <2> QED BY <1>0, <1>7, <2>1, <2>2 DEF CycleTypes, Place, Calls
  <1>8. CASE ReplaceRegister
    BY <1>0, <1>8 DEF ReplaceRegister, CycleTypes, Place, Calls
  <1>9. CASE PersistSuccess
    BY <1>0, <1>9 DEF PersistSuccess, CycleTypes, Place, Calls
  <1>10. CASE UNCHANGED <<register, monitor, pc, locals>>
    BY <1>0, <1>10 DEF locals, CycleTypes, Place, Calls, World
  <1> QED
    <2>1. CASE CompleteCycle \/ PersistFailure \/ Crash \/ PersistFailureFails
      <3>1. Return
        BY <2>1 DEF CompleteCycle, PersistFailure, Crash, PersistFailureFails
      <3>2. monitor' = monitor \/ \E l \in {"none", "success", "failure"} : monitor' = [running |-> FALSE, last |-> l]
        BY <2>1 DEF CompleteCycle, PersistFailure, Crash, PersistFailureFails
      <3>3. monitor' \in [running: BOOLEAN, last: {"none", "success", "failure"}]
        <4>1. ASSUME NEW l \in {"none", "success", "failure"}, monitor' = [running |-> FALSE, last |-> l]
              PROVE  monitor' \in [running: BOOLEAN, last: {"none", "success", "failure"}]
          BY <4>1
        <4>2. monitor \in [running: BOOLEAN, last: {"none", "success", "failure"}]
          BY <1>0 DEF CycleTypes
        <4> QED BY <3>2, <4>1, <4>2, Zenon
      <3> QED BY <1>1, <3>1, <3>3
    <2>2. CASE AwaitFails
      BY <1>2, <2>2 DEF AwaitFails
    <2>3. ASSUME NEW c, Refused(c) \/ ApplyThrowsLate(c)
          PROVE  CycleTypes' /\ Place' /\ Calls'
      BY <1>2, <2>3 DEF Refused, ApplyThrowsLate
    <2>4. ASSUME NEW c, Apply(c) \/ Replay(c)
          PROVE  CycleTypes' /\ Place' /\ Calls'
      BY <1>7, <2>4 DEF Apply, Replay, stored
    <2>5. CASE Publish \/ (\E w \in Simulated : Trains(w)) \/ UNCHANGED vars
      BY <1>10, <2>5 DEF Publish, Trains, stored, vars, locals
    <2> QED
      BY <1>3, <1>4, <1>5, <1>6, <1>8, <1>9, <2>1, <2>2, <2>3, <2>4, <2>5 DEF Next, Cycle, Fault

\* Every step keeps the types.
LEMMA TypeStep == TypeInv /\ [Next]_vars => TypeInv'
  BY ProviderTypesStep, StoredTypesStep, SimulationTypesStep, CycleStep DEF TypeInv

\* The initial state is well typed.
LEMMA InitTypes == Init => TypeInv
  <1> SUFFICES ASSUME Init PROVE TypeInv
    OBVIOUS
  <1> USE WorldFacts
  <1>1. ProviderTypes
    <2>1. PICK table \in Table : listed = [h \in Hashes |-> IF h = 1 THEN table ELSE Nothing]
      BY DEF Init
    <2> QED BY <2>1 DEF Init, ProviderTypes
  <1>2. StoredTypes
    BY DEF Init, StoredTypes
  <1>3. SimulationTypes
    BY DEF Init, SimulationTypes
  <1>4. CycleTypes /\ Place /\ Calls
    BY DEF Init, CycleTypes, Place, Calls
  <1> QED BY <1>1, <1>2, <1>3, <1>4 DEF TypeInv

\* Every variable keeps its type and the loops only call for commands that change
\* something, whatever the provider publishes, wherever a call fails or the process dies.
THEOREM ProviderTypeCorrect == Spec => []TypeOK
  <1>1. TypeInv => TypeOK
    BY DEF TypeInv, ProviderTypes, StoredTypes, SimulationTypes, CycleTypes, Calls, TypeOK
  <1> QED BY <1>1, InitTypes, TypeStep, PTL DEF Spec

-----------------------------------------------------------------------------
(* Health. *)

\* A world the loop has passed is another one than the one in turn.
LEMMA PassedWorlds ==
    ASSUME CycleTypes, turn \in DOMAIN Worlds, NEW i \in 1 .. turn - 1
    PROVE  Worlds[i] # World /\ Worlds[i] \in WorldSet /\ World \in WorldSet /\ i \in DOMAIN Worlds
  <1>1. i \in DOMAIN Worlds /\ i # turn
    BY WorldFacts
  <1> QED BY <1>1, WorldFacts, ProviderAssumption DEF World

\* Every step keeps the monitor and the rows together.
LEMMA HealthStep ==
    ASSUME TypeInv, HealthInv, HealthIsHonest, [Next]_vars
    PROVE  HealthInv' /\ HealthIsHonest'
  <1>0. CycleTypes /\ Place
    BY DEF TypeInv
  <1> USE WorldFacts
  \* The monitor does not report a success that was not the last thing that happened.
  <1>1. ASSUME ~(monitor' = [running |-> FALSE, last |-> "success"]), pc' \notin {"read", "apply", "success"}
        PROVE  HealthInv' /\ HealthIsHonest'
    BY <1>1 DEF HealthInv, HealthIsHonest
  <1>2. ASSUME UNCHANGED <<register, safe, failure, monitor, turn, snapshot>>,
               pc' \in {"read", "apply", "success"} => pc \in {"read", "apply", "success"},
               pc' = "success" => pc = "success" \/ World \notin Simulated
        PROVE  HealthInv' /\ HealthIsHonest'
    BY <1>2 DEF HealthInv, HealthIsHonest, Consumed, World
  <1>3. CASE StartCycle
    BY <1>1, <1>3 DEF StartCycle
  <1>4. CASE FetchSnapshot
    <2>1. ~(monitor' = [running |-> FALSE, last |-> "success"])
      BY <1>0, <1>4 DEF FetchSnapshot, Place
    <2> QED BY <1>4, <2>1 DEF FetchSnapshot, HealthInv, HealthIsHonest
  <1>5. CASE CompleteCycle
    <2>1. \A w \in WorldSet : Consumed(w)
      <3>1. turn = Len(Worlds) + 1
        BY <1>0, <1>5 DEF CompleteCycle, CycleTypes
      <3>2. \A i \in DOMAIN Worlds : Consumed(Worlds[i])
        BY <1>5, <3>1 DEF CompleteCycle, HealthInv
      <3> QED BY <3>2
    <2>2. \A w \in WorldSet : Consumed(w)'
      BY <1>5, <2>1 DEF CompleteCycle, Consumed, stored
    <2>3. pc' = "idle"
      BY <1>5 DEF CompleteCycle, Return
    <2> QED BY <2>2, <2>3 DEF HealthInv, HealthIsHonest, Consumed
  <1>6. CASE Reconcile
    BY <1>2, <1>6 DEF Reconcile, stored
  <1>7. CASE SkipWorld
    BY <1>2, <1>7 DEF SkipWorld, stored, locals
  <1>8. ASSUME NEW c, Apply(c) \/ Replay(c)
        PROVE  HealthInv' /\ HealthIsHonest'
    BY <1>2, <1>8 DEF Apply, Replay, stored
  <1>9. ASSUME Throw, UNCHANGED <<monitor, stored>>, pc # "idle"
        PROVE  HealthInv' /\ HealthIsHonest'
    <2>1. ~(monitor' = [running |-> FALSE, last |-> "success"])
      BY <1>0, <1>9 DEF Place
    <2> QED BY <1>1, <1>9, <2>1 DEF Throw
  <1>10. CASE ReplaceRegister
    <2>1. turn \in DOMAIN Worlds /\ pc = "apply" /\ pc' = "success" /\ World \in WorldSet
      BY <1>0, <1>10 DEF ReplaceRegister, Place
    <2>2. /\ register' = [register EXCEPT ![World] = [hash |-> snapshot, effects |-> target]]
          /\ UNCHANGED <<safe, failure, monitor, turn, snapshot>>
      BY <1>10 DEF ReplaceRegister
    <2>3. register'[World].hash = snapshot
          /\ \A w \in WorldSet : w # World => register'[w] = register[w]
      BY <2>1, <2>2 DEF TypeInv, StoredTypes
    <2>4. \A i \in 1 .. turn - 1 : Consumed(Worlds[i])'
      <3> SUFFICES ASSUME NEW i \in 1 .. turn - 1
                   PROVE  Consumed(Worlds[i])'
        OBVIOUS
      <3>1. Worlds[i] # World /\ Worlds[i] \in WorldSet
        BY <1>0, <2>1, PassedWorlds
      <3>2. Consumed(Worlds[i])
        BY <2>1 DEF HealthInv
      <3> QED BY <2>2, <2>3, <3>1, <3>2 DEF Consumed
    <2>5. ~(monitor' = [running |-> FALSE, last |-> "success"])
      BY <1>0, <2>1, <2>2 DEF Place
    <2>6. World' = World
      BY <2>2 DEF World
    <2> QED BY <2>1, <2>2, <2>3, <2>4, <2>5, <2>6 DEF HealthInv, HealthIsHonest
  <1>11. CASE PersistSuccess
    <2>1. turn \in DOMAIN Worlds /\ pc = "success" /\ pc' = "read" /\ World \in WorldSet
      BY <1>0, <1>11 DEF PersistSuccess, Place, World
    <2>2. /\ safe' = [safe EXCEPT ![World] = snapshot] /\ failure' = failure \ {World} /\ turn' = turn + 1
          /\ UNCHANGED <<register, monitor>>
      BY <1>11 DEF PersistSuccess
    <2>3. safe'[World] = snapshot /\ \A w \in WorldSet : w # World => safe'[w] = safe[w]
      BY <2>1, <2>2 DEF TypeInv, StoredTypes
    <2>4. \A i \in 1 .. turn - 1 : Consumed(Worlds[i])'
      <3> SUFFICES ASSUME NEW i \in 1 .. turn - 1
                   PROVE  Consumed(Worlds[i])'
        OBVIOUS
      <3>1. Worlds[i] # World /\ Worlds[i] \in WorldSet
        BY <1>0, <2>1, PassedWorlds
      <3>2. Consumed(Worlds[i])
        BY <2>1 DEF HealthInv
      <3> QED BY <2>2, <2>3, <3>1, <3>2 DEF Consumed
    <2>5. \A t \in {turn} : Consumed(Worlds[t])'
      <3>1. World \notin failure' /\ (World \in Simulated => safe'[World] = register'[World].hash)
        BY <2>1, <2>2, <2>3 DEF HealthInv
      <3> QED BY <3>1 DEF Consumed, World
    <2>6. \A i \in 1 .. turn' - 1 : i \in 1 .. turn - 1 \/ i = turn
      BY <2>1, <2>2
    <2>7. ~(monitor' = [running |-> FALSE, last |-> "success"])
      BY <1>0, <2>1, <2>2 DEF Place
    <2> QED BY <2>1, <2>4, <2>5, <2>6, <2>7 DEF HealthInv, HealthIsHonest
  <1>12. CASE PersistFailure
    BY <1>1, <1>12 DEF PersistFailure, Return
  <1>13. CASE PersistFailureFails
    BY <1>0, <1>1, <1>13 DEF PersistFailureFails, Return, Place
  <1>14. CASE Crash
    BY <1>1, <1>14 DEF Crash, Return
  <1>15. CASE Publish \/ (\E w \in Simulated : Trains(w)) \/ UNCHANGED vars
    BY <1>2, <1>15 DEF Publish, Trains, stored, vars, locals
  <1> QED
    <2>1. CASE AwaitFails
      BY <1>9, <2>1 DEF AwaitFails
    <2>2. ASSUME NEW c, Refused(c) \/ ApplyThrowsLate(c)
          PROVE  HealthInv' /\ HealthIsHonest'
      BY <1>9, <2>2 DEF Refused, ApplyThrowsLate
    <2> QED
      BY <1>3, <1>4, <1>5, <1>6, <1>7, <1>8, <1>10, <1>11, <1>12, <1>13, <1>14, <1>15, <2>1, <2>2
         DEF Next, Cycle, Fault

\* A current provider is never reported while a world carries a failure or has applied
\* another snapshot than its last safe one, even if the input changes during a cycle.
THEOREM ProviderHealthIsHonest == Spec => []HealthIsHonest
  <1>1. Init => HealthInv /\ HealthIsHonest
    BY DEF Init, HealthInv, HealthIsHonest
  <1>2. TypeInv /\ HealthInv /\ HealthIsHonest /\ [Next]_vars => (HealthInv /\ HealthIsHonest)'
    BY HealthStep
  <1> QED BY <1>1, <1>2, InitTypes, TypeStep, PTL DEF Spec

-----------------------------------------------------------------------------
(* The register. *)

\* The tables and dates of a world.
LEMMA TableFacts ==
    ASSUME TypeInv, NEW w \in WorldSet
    PROVE  /\ Old(w) \in Table /\ active[w] \in Table
           /\ \A d \in Disruptions : Old(w)[d] \in Effects \cup {None} /\ active[w][d] \in Effects \cup {None}
           /\ register[w].hash \in Nat /\ hash \in Nat /\ snapshot \in Nat
           /\ receipts[w] \subseteq Commands /\ sent[w] \subseteq Commands
  <1>1. Old(w) \in Table /\ register[w].hash \in 0 .. MaxHash
    BY DEF TypeInv, StoredTypes, Old
  <1>2. active[w] \in Table /\ receipts[w] \subseteq Commands /\ sent[w] \subseteq Commands
    BY DEF TypeInv, SimulationTypes
  <1>3. hash \in 1 .. MaxHash /\ snapshot \in 0 .. MaxHash
    BY DEF TypeInv, ProviderTypes, CycleTypes, Hashes
  <1> QED BY <1>1, <1>2, <1>3, WorldFacts DEF Table

\* What a command is made of.
LEMMA CommandFacts ==
    ASSUME NEW k \in Commands
    PROVE  /\ k.type \in {"clear", "activate"} /\ k.d \in Disruptions /\ k.hash \in Nat
           /\ k.type = "clear" => k.payload \in Nat
           /\ k.type = "activate" => k.payload \in Effects
  BY WorldFacts DEF Commands, Hashes

\* A world of which nothing is touched stays as it was.
LEMMA OtherWorld ==
    ASSUME NEW w, InStep(w), register'[w] = register[w], active'[w] = active[w],
           receipts'[w] = receipts[w], sent'[w] = sent[w]
    PROVE  InStep(w)'
  BY DEF InStep, Old, SentFor

\* The command of a clear or an activation the loops call for.
LEMMA CommittedFacts ==
    ASSUME TypeInv, RegisterInv, pc = "apply", NEW c, Pending(c), Commit(c), World \notin astray
    PROVE  /\ InStep(World) /\ OnCourse
           /\ c \in Commands /\ c.d \in Disruptions
           /\ c.type = "clear" => /\ c.hash = register[World].hash /\ Old(World)[c.d] # None
                                  /\ target[c.d] # Old(World)[c.d] /\ ~SentFor(World, "clear", c.d)
                                  /\ ~SentFor(World, "activate", c.d)
           /\ c.type = "activate" =>
                /\ c.payload = target[c.d] /\ c.payload \in Effects /\ c.payload # Old(World)[c.d]
                /\ Old(World)[c.d] # None => SentFor(World, "clear", c.d)
                /\ active[World][c.d] \in {None, c.payload}
  <1>0. World \in Simulated /\ World \in WorldSet /\ c \in Commands /\ c.d \in Disruptions
    BY CallFacts
  <1>1. InStep(World) /\ OnCourse
    BY <1>0 DEF RegisterInv
  <1>2. ASSUME c.type = "clear"
        PROVE  /\ c.hash = register[World].hash /\ Old(World)[c.d] # None
               /\ target[c.d] # Old(World)[c.d] /\ ~SentFor(World, "clear", c.d)
               /\ ~SentFor(World, "activate", c.d)
    <2>1. c.d \in clears /\ c.hash = register[World].hash
      BY <1>2, CallFacts
    <2>2. Old(World)[c.d] # None /\ target[c.d] # Old(World)[c.d]
      BY <2>1, ProviderAssumption DEF TypeInv, Calls, Old
    <2>3. ~SentFor(World, "clear", c.d)
      BY <1>1, <1>2, <2>1 DEF Commit, Known, InStep, SentFor
    <2>4. ~SentFor(World, "activate", c.d)
      BY <1>1, <2>2, <2>3 DEF InStep, SentFor
    <2> QED BY <2>1, <2>2, <2>3, <2>4
  <1>3. ASSUME c.type = "activate"
        PROVE  /\ c.payload = target[c.d] /\ c.payload \in Effects /\ c.payload # Old(World)[c.d]
               /\ Old(World)[c.d] # None => SentFor(World, "clear", c.d)
               /\ active[World][c.d] \in {None, c.payload}
    <2>1. c.d \in activates /\ clears = {} /\ c.payload = target[c.d]
      BY <1>3, CallFacts
    <2>2. target[c.d] \in Effects /\ target[c.d] # Old(World)[c.d]
      BY <2>1 DEF TypeInv, Calls, Old
    <2>3. Old(World)[c.d] # None => SentFor(World, "clear", c.d)
      BY <1>0, <1>1, <2>1, <2>2 DEF OnCourse
    <2>4. active[World][c.d] \in {None, c.payload}
      BY <1>3 DEF Commit, NativeAccepts
    <2> QED BY <2>1, <2>2, <2>3, <2>4
  <1> QED BY <1>0, <1>1, <1>2, <1>3

\* A committed command keeps its world in step.
LEMMA CommitInStep ==
    ASSUME TypeInv, RegisterInv, pc = "apply", NEW c, Pending(c), Commit(c), register' = register,
           NEW w, w = World, w \notin astray
    PROVE  InStep(w)'
  <1>0. /\ InStep(w) /\ c.d \in Disruptions /\ c \in Commands /\ w \in WorldSet
        /\ c.type = "clear" => /\ c.hash = register[w].hash /\ Old(w)[c.d] # None
                               /\ ~SentFor(w, "clear", c.d) /\ ~SentFor(w, "activate", c.d)
        /\ c.type = "activate" =>
             /\ c.payload \in Effects /\ c.payload # Old(w)[c.d]
             /\ Old(w)[c.d] # None => SentFor(w, "clear", c.d)
             /\ active[w][c.d] \in {None, c.payload}
    BY CommittedFacts, CallFacts
  <1>1. /\ receipts'[w] = receipts[w] \cup {c} /\ sent'[w] = sent[w] \cup {c} /\ Old(w)' = Old(w)
        /\ active'[w][c.d] = IF c.type = "clear" THEN None ELSE c.payload
        /\ \A d \in Disruptions : d # c.d => active'[w][d] = active[w][d]
    BY CommitFacts DEF Old, Effect
  <1>2. \A k \in sent[w] : k \in Commands
    BY <1>0, TableFacts
  <1>3. \A k \in sent[w] : k.type \in {"clear", "activate"} /\ k.d \in Disruptions
                           /\ (k.type = "activate" => k.payload \in Effects)
    BY <1>2, CommandFacts
  <1>4. c.type \in {"clear", "activate"}
    BY <1>0, CommandFacts
  <1>5. \A d \in Disruptions :
          /\ SentFor(w, "clear", d)' <=> SentFor(w, "clear", d) \/ (c.type = "clear" /\ d = c.d)
          /\ SentFor(w, "activate", d)' <=> SentFor(w, "activate", d) \/ (c.type = "activate" /\ d = c.d)
    BY <1>1 DEF SentFor
  <1>6. ASSUME NEW k \in sent[w]
        PROVE  /\ k \in receipts'[w]
               /\ k.type = "clear" => k.hash = register'[w].hash /\ Old(w)'[k.d] # None
               /\ k.type = "activate" =>
                    /\ k.payload # Old(w)'[k.d] /\ active'[w][k.d] = k.payload
                    /\ Old(w)'[k.d] # None => SentFor(w, "clear", k.d)'
    <2>1. /\ k \in receipts[w]
          /\ k.type = "clear" => k.hash = register[w].hash /\ Old(w)[k.d] # None
          /\ k.type = "activate" => /\ k.payload # Old(w)[k.d] /\ active[w][k.d] = k.payload
                                    /\ Old(w)[k.d] # None => SentFor(w, "clear", k.d)
      BY <1>0 DEF InStep
    <2>2. ASSUME k.type = "activate"
          PROVE  active'[w][k.d] = k.payload
      <3>1. CASE k.d # c.d
        BY <1>1, <1>3, <2>1, <2>2, <3>1
      <3>2. CASE k.d = c.d
        <4>1. c.type = "activate"
          BY <1>0, <1>4, <2>2, <3>2 DEF SentFor
        <4>2. k.payload \in Effects /\ None \notin Effects
          BY <1>3, <2>2, ProviderAssumption
        <4> QED BY <1>0, <1>1, <2>1, <2>2, <3>2, <4>1, <4>2
      <3> QED BY <3>1, <3>2
    <2> QED BY <1>1, <1>3, <1>5, <2>1, <2>2
  <1>7. /\ c.type = "clear" => c.hash = register'[w].hash /\ Old(w)'[c.d] # None
        /\ c.type = "activate" =>
             /\ c.payload # Old(w)'[c.d] /\ active'[w][c.d] = c.payload
             /\ Old(w)'[c.d] # None => SentFor(w, "clear", c.d)'
    BY <1>0, <1>1, <1>5
  <1>8. ASSUME NEW d \in Disruptions, ~SentFor(w, "activate", d)'
        PROVE  active'[w][d] = IF SentFor(w, "clear", d)' THEN None ELSE Old(w)'[d]
    <2>1. active[w][d] = IF SentFor(w, "clear", d) THEN None ELSE Old(w)[d]
      BY <1>0, <1>5, <1>8 DEF InStep
    <2>2. CASE d = c.d
      <3>1. c.type = "clear"
        BY <1>4, <1>5, <1>8, <2>2
      <3> QED BY <1>1, <1>5, <2>2, <3>1
    <2>3. CASE d # c.d
      BY <1>1, <1>5, <2>1, <2>3
    <2> QED BY <2>2, <2>3
  <1> QED BY <1>1, <1>6, <1>7, <1>8 DEF InStep

\* When both loops are through, the simulation has what the snapshot asks for.
LEMMA LoopsThrough ==
    ASSUME TypeInv, RegisterInv, pc = "apply", clears = {}, activates = {}, World \notin astray
    PROVE  active[World] = target
  <1>0. World \in Simulated /\ World \in WorldSet
    BY WorldFacts DEF TypeInv, Place
  <1>1. InStep(World) /\ OnCourse
    BY <1>0 DEF RegisterInv
  <1>2. ASSUME NEW d \in Disruptions
        PROVE  active[World][d] = target[d]
    <2>1. CASE SentFor(World, "activate", d)
      <3>1. PICK k \in sent[World] : k.type = "activate" /\ k.d = d
        BY <2>1 DEF SentFor
      <3> QED BY <1>1, <3>1 DEF InStep, OnCourse
    <2>2. CASE ~SentFor(World, "activate", d) /\ SentFor(World, "clear", d)
      <3>1. PICK k \in sent[World] : k.type = "clear" /\ k.d = d
        BY <2>2 DEF SentFor
      <3>2. target[d] # Old(World)[d]
        BY <1>1, <3>1 DEF OnCourse
      <3>3. target[d] = None
        BY <1>1, <2>2, <3>2 DEF OnCourse
      <3> QED BY <1>1, <2>2, <3>3 DEF InStep
    <2>3. CASE ~SentFor(World, "activate", d) /\ ~SentFor(World, "clear", d)
      <3>1. active[World][d] = Old(World)[d]
        BY <1>1, <2>3 DEF InStep
      <3>2. target[d] # Old(World)[d] => Old(World)[d] = None /\ target[d] = None
        BY <1>1, <2>3 DEF OnCourse
      <3> QED BY <3>1, <3>2
    <2> QED BY <2>1, <2>2, <2>3
  <1>3. active[World] \in [Disruptions -> Effects \cup {None}] /\ target \in [Disruptions -> Effects \cup {None}]
    BY <1>0, TableFacts DEF TypeInv, CycleTypes, Table
  <1> QED BY <1>2, <1>3

\* The register is replaced by what the simulation has.
LEMMA RegisterReplaced ==
    ASSUME TypeInv, RegisterInv, ReplaceRegister, NEW w \in Simulated, w \notin astray
    PROVE  InStep(w)'
  <1>0. InStep(w) /\ w \in WorldSet /\ World \in WorldSet /\ pc = "apply" /\ clears = {} /\ activates = {}
    BY WorldFacts DEF RegisterInv, ReplaceRegister, TypeInv, Place
  <1>1. /\ UNCHANGED <<active, receipts>>
        /\ register' = [register EXCEPT ![World] = [hash |-> snapshot, effects |-> target]]
        /\ sent' = [sent EXCEPT ![World] = {}]
    BY DEF ReplaceRegister, simulation
  <1>2. CASE w # World
    <2>1. register'[w] = register[w] /\ sent'[w] = sent[w]
      BY <1>0, <1>1, <1>2 DEF TypeInv, StoredTypes, SimulationTypes
    <2> QED BY <1>0, <1>1, <2>1, OtherWorld
  <1>3. CASE w = World
    <2>1. register'[w].effects = target /\ sent'[w] = {}
      BY <1>0, <1>1, <1>3 DEF TypeInv, StoredTypes, SimulationTypes
    <2>2. active[w] = target
      BY <1>0, <1>3, LoopsThrough
    <2>3. \A d \in Disruptions : ~SentFor(w, "clear", d)'
      BY <2>1 DEF SentFor
    <2> QED BY <1>1, <2>1, <2>2, <2>3 DEF InStep, Old
  <1> QED BY <1>2, <1>3

\* Every step keeps every world in step that does not go astray.
LEMMA InStepStep ==
    ASSUME TypeInv, RegisterInv, [Next]_vars, NEW w \in Simulated, w \notin astray'
    PROVE  InStep(w)'
  <1>0. astray \subseteq astray' /\ w \in WorldSet
    BY WorldFacts
       DEF Next, Cycle, Fault, StartCycle, FetchSnapshot, CompleteCycle, Reconcile, SkipWorld, Apply, Replay,
           Refused, ReplaceRegister, PersistSuccess, PersistFailure, AwaitFails, PersistFailureFails, Crash,
           ApplyThrowsLate, Publish, Trains, vars, history
  <1>1. InStep(w) /\ w \notin astray
    BY <1>0 DEF RegisterInv
  <1>2. ASSUME NEW c, pc = "apply", Pending(c), Commit(c), UNCHANGED register
        PROVE  InStep(w)'
    <2>1. CASE w = World
      BY <1>1, <1>2, <2>1, CommitInStep
    <2>2. CASE w # World
      <3>1. active'[w] = active[w] /\ receipts'[w] = receipts[w] /\ sent'[w] = sent[w]
        BY <1>0, <1>2, <2>2, CommitFacts
      <3> QED BY <1>1, <1>2, <3>1, OtherWorld
    <2> QED BY <2>1, <2>2
  <1>3. CASE UNCHANGED <<register, simulation, sent>>
    BY <1>1, <1>3, OtherWorld DEF simulation
  <1> QED
    BY <1>1, <1>2, <1>3, RegisterReplaced
       DEF Next, Cycle, Fault, StartCycle, FetchSnapshot, CompleteCycle, Reconcile, SkipWorld, Apply, Replay,
           Refused, PersistSuccess, PersistFailure, AwaitFails, PersistFailureFails, Crash,
           ApplyThrowsLate, Publish, Trains, vars, stored, simulation, history

\* Every step of a reconciliation that does not go astray stays on course.
LEMMA OnCourseStep ==
    ASSUME TypeInv, RegisterInv, [Next]_vars, pc' = "apply", World' \notin astray'
    PROVE  OnCourse'
  <1>0. CycleTypes /\ Place
    BY DEF TypeInv
  <1>1. CASE Reconcile
    <2> DEFINE new == Registrations(World, snapshot)
    <2>1. /\ target' = new /\ UNCHANGED <<register, turn, sent>>
          /\ clears' = {d \in Disruptions : Old(World)[d] # None /\ new[d] # Old(World)[d]}
          /\ activates' = {d \in Disruptions : new[d] # None /\ new[d] # Old(World)[d]}
          /\ astray' = IF LosesTrack(new) THEN astray \cup {World} ELSE astray
      BY <1>1 DEF Reconcile, Old, stored
    <2> HIDE DEF new
    <2>2. World' = World /\ Old(World)' = Old(World)
      BY <2>1 DEF World, Old
    <2>3. ~LosesTrack(new)
      BY <2>1, <2>2
    <2>4. \A k \in sent[World] :
            IF k.type = "clear" THEN new[k.d] # Old(World)[k.d] ELSE new[k.d] = k.payload
      BY <2>3 DEF LosesTrack, Old
    <2> QED BY <2>1, <2>2, <2>4 DEF OnCourse
  <1>2. ASSUME NEW c, Apply(c) \/ Replay(c)
        PROVE  OnCourse'
    <2>1. /\ pc = "apply" /\ Pending(c) /\ Called(c) /\ UNCHANGED <<register, turn, target>>
      BY <1>2 DEF Apply, Replay, stored
    <2>2. World' = World /\ Old(World)' = Old(World)
      BY <2>1 DEF World, Old
    <2>3. World \notin astray
      BY <1>2, <2>2 DEF Apply, Replay
    <2>4. OnCourse
      BY <2>1, <2>3 DEF RegisterInv
    <2>5. c \in sent'[World] /\ \A k \in sent'[World] : k \in sent[World] \/ k = c
      <3>1. CASE Apply(c)
        BY <3>1, CommitFacts DEF Apply
      <3>2. CASE Replay(c)
        BY <2>2, <3>2 DEF Replay
      <3> QED BY <1>2, <3>1, <3>2
    <2>6. sent[World] \subseteq sent'[World]
      BY <1>2, CommitFacts DEF Apply, Replay
    <2>7. \/ /\ c.type = "clear" /\ clears' = clears \ {c.d} /\ activates' = activates
             /\ target[c.d] # Old(World)[c.d]
          \/ /\ c.type = "activate" /\ activates' = activates \ {c.d} /\ clears' = clears
             /\ target[c.d] = c.payload
      BY <2>1, CallFacts DEF Called, TypeInv, Calls, Old
    <2>8. \A k \in sent'[World] :
            IF k.type = "clear" THEN target[k.d] # Old(World)[k.d] ELSE target[k.d] = k.payload
      BY <2>4, <2>5, <2>7 DEF OnCourse
    <2>9. \A d \in Disruptions : \A type \in {"clear", "activate"} :
            SentFor(World, type, d) => SentFor(World, type, d)'
      BY <2>2, <2>6 DEF SentFor
    <2>10. SentFor(World, c.type, c.d)'
      BY <2>2, <2>5 DEF SentFor
    <2>11. ASSUME NEW d \in Disruptions, target[d] # Old(World)[d]
           PROVE  /\ Old(World)[d] # None => d \in clears' \/ SentFor(World, "clear", d)'
                  /\ target[d] # None => d \in activates' \/ SentFor(World, "activate", d)'
      <3>1. /\ Old(World)[d] # None => d \in clears \/ SentFor(World, "clear", d)
            /\ target[d] # None => d \in activates \/ SentFor(World, "activate", d)
        BY <2>4, <2>11 DEF OnCourse
      <3> QED BY <2>7, <2>9, <2>10, <3>1
    <2> QED BY <2>1, <2>2, <2>8, <2>11 DEF OnCourse
  <1>3. CASE pc = "apply" /\ UNCHANGED <<register, turn, target, clears, activates, sent, astray>>
    <2>1. World' = World /\ OnCourse
      BY <1>3 DEF World, RegisterInv
    <2> QED BY <1>3, <2>1 DEF OnCourse, Old, SentFor
  <1> QED
    BY <1>1, <1>2, <1>3
       DEF Next, Cycle, Fault, StartCycle, FetchSnapshot, CompleteCycle, SkipWorld, Refused, ReplaceRegister,
           PersistSuccess, PersistFailure, AwaitFails, PersistFailureFails, Crash, ApplyThrowsLate, Publish,
           Trains, Return, Throw, vars, stored, locals, history

\* Every world that has not gone astray is always in step with its register, half way through
\* any number of interrupted cycles, for any snapshots and any trains.
THEOREM RegisterInductive == Spec => [](TypeInv /\ RegisterInv)
  <1>1. Init => RegisterInv
    <2> SUFFICES ASSUME Init, NEW w \in Simulated
                 PROVE  InStep(w)
      BY DEF Init, RegisterInv
    <2>1. register[w] = [hash |-> 0, effects |-> Nothing] /\ active[w] = Nothing /\ sent[w] = {}
      BY WorldFacts DEF Init
    <2>2. \A d \in Disruptions : ~SentFor(w, "clear", d)
      BY <2>1 DEF SentFor
    <2> QED BY <2>1, <2>2 DEF InStep, Old
  <1>2. TypeInv /\ RegisterInv /\ [Next]_vars => RegisterInv'
    BY InStepStep, OnCourseStep DEF RegisterInv
  <1> QED BY <1>1, <1>2, InitTypes, TypeStep, PTL DEF Spec

\* However often cycles fail or die half way and whatever provider and trains do meanwhile,
\* between two reconciliations the register says exactly which disruptions the simulation
\* has, unless a repetition passed over a command already committed or took the receipt of
\* an earlier reconciliation for its own.
THEOREM RegisterAlwaysTrue == Spec => []RegisterIsTrue
  <1>1. TypeInv /\ RegisterInv => RegisterIsTrue
    <2> SUFFICES ASSUME TypeInv, RegisterInv, NEW w \in Simulated, sent[w] = {}, w \notin astray
                 PROVE  active[w] = register[w].effects
      BY DEF RegisterIsTrue
    <2>1. InStep(w)
      BY DEF RegisterInv
    <2>2. \A d \in Disruptions : active[w][d] = Old(w)[d]
      BY <2>1 DEF InStep, SentFor
    <2>3. active[w] \in Table /\ Old(w) \in Table
      BY TableFacts, WorldFacts
    <2> QED BY <2>2, <2>3 DEF Table, Old
  <1> QED BY <1>1, RegisterInductive, PTL

-----------------------------------------------------------------------------
(* Clearing before replacing. *)

\* What a snapshot registers is a part of it.
LEMMA RegistrationsPart ==
    ASSUME NEW w, NEW h \in Hashes
    PROVE  PartOf(Registrations(w, h), h)
  BY DEF PartOf, Registrations

\* The published snapshots stay what they are, and a snapshot is only followed by newer ones.
LEMMA ListedStays ==
    ASSUME TypeInv, [Next]_vars
    PROVE  /\ hash \in Nat /\ hash' \in Nat /\ hash <= hash'
           /\ \A h \in Hashes : h <= hash => listed'[h] = listed[h]
  <1>0. hash \in Nat /\ listed \in [Hashes -> Table]
    BY WorldFacts DEF TypeInv, ProviderTypes, Hashes
  <1>1. CASE Publish
    <2>1. PICK new \in Table : listed' = [listed EXCEPT ![hash + 1] = new]
      BY <1>1 DEF Publish
    <2>2. \A h \in Hashes : h <= hash => listed'[h] = listed[h]
      BY <1>0, <2>1 DEF Hashes
    <2> QED BY <1>0, <1>1, <2>2 DEF Publish
  <1>2. CASE UNCHANGED <<listed, hash>>
    BY <1>0, <1>2
  <1> QED
    BY <1>1, <1>2
       DEF Next, Cycle, Fault, StartCycle, FetchSnapshot, CompleteCycle, Reconcile, SkipWorld, Apply, Replay,
           Refused, ReplaceRegister, PersistSuccess, PersistFailure, AwaitFails, PersistFailureFails, Crash,
           ApplyThrowsLate, Trains, vars, provider

\* The loop over the worlds works on the snapshot it has fetched.
LEMMA LoopStep ==
    ASSUME TypeInv, Looping => snapshot <= hash, [Next]_vars
    PROVE  /\ Looping' => snapshot' <= hash'
           /\ Looping' /\ ~FetchSnapshot => Looping /\ snapshot' = snapshot
  <1>0. hash \in Nat /\ hash' \in Nat /\ hash <= hash' /\ snapshot \in Nat
    BY ListedStays, WorldFacts DEF TypeInv, CycleTypes
  <1>1. CASE FetchSnapshot
    BY <1>0, <1>1 DEF FetchSnapshot, provider
  <1>2. CASE ~Looping'
    BY <1>0, <1>2
  <1>3. CASE Looping /\ snapshot' = snapshot
    BY <1>0, <1>3
  <1> QED
    BY <1>1, <1>2, <1>3
       DEF Next, Cycle, Fault, StartCycle, CompleteCycle, Reconcile, SkipWorld, Apply, Replay, Looping,
           Refused, ReplaceRegister, PersistSuccess, PersistFailure, AwaitFails, PersistFailureFails, Crash,
           ApplyThrowsLate, Publish, Trains, Return, Throw, vars, locals

\* What a step can do to the receipts, the register and the simulation of a world.
LEMMA WorldSteps ==
    ASSUME TypeInv, [Next]_vars, NEW w \in Simulated
    PROVE  \/ UNCHANGED <<register[w], active[w], receipts[w]>>
           \/ /\ w = World /\ ReplaceRegister /\ register'[w] = [hash |-> snapshot, effects |-> target]
              /\ UNCHANGED <<active[w], receipts[w]>>
           \/ /\ w = World /\ pc = "apply" /\ UNCHANGED register
              /\ \E c \in Commands : /\ Pending(c) /\ receipts'[w] = receipts[w] \cup {c}
                                     /\ active'[w][c.d] = Effect(c)
                                     /\ \A d \in Disruptions : d # c.d => active'[w][d] = active[w][d]
  <1>0. w \in WorldSet
    BY WorldFacts
  <1>1. ASSUME NEW c, pc = "apply", Pending(c), Commit(c), UNCHANGED register
        PROVE  \/ UNCHANGED <<register[w], active[w], receipts[w]>>
               \/ /\ w = World
                  /\ \E k \in Commands : /\ Pending(k) /\ receipts'[w] = receipts[w] \cup {k}
                                         /\ active'[w][k.d] = Effect(k)
                                         /\ \A d \in Disruptions : d # k.d => active'[w][d] = active[w][d]
    <2>1. c \in Commands
      BY <1>1, CallFacts
    <2>2. CASE w = World
      BY <1>1, <2>1, <2>2, CommitFacts
    <2>3. CASE w # World
      BY <1>0, <1>1, <2>3, CommitFacts
    <2> QED BY <2>2, <2>3
  <1>2. CASE ReplaceRegister
    <2>1. register' = [register EXCEPT ![World] = [hash |-> snapshot, effects |-> target]]
          /\ UNCHANGED <<active, receipts>>
      BY <1>2 DEF ReplaceRegister, simulation
    <2> QED BY <1>0, <1>2, <2>1 DEF TypeInv, StoredTypes
  <1>3. CASE UNCHANGED <<register, active, receipts>>
    BY <1>3
  <1> QED
    BY <1>1, <1>2, <1>3
       DEF Next, Cycle, Fault, StartCycle, FetchSnapshot, CompleteCycle, Reconcile, SkipWorld, Apply, Replay,
           Refused, PersistSuccess, PersistFailure, AwaitFails, PersistFailureFails, Crash,
           ApplyThrowsLate, Publish, Trains, vars, stored, simulation

\* The numbers of a world.
LEMMA DateFacts ==
    ASSUME TypeInv, NEW w \in Simulated
    PROVE  /\ register[w].hash \in Nat /\ hash \in Nat /\ snapshot \in Nat
           /\ \A k \in receipts[w] :
                /\ k.type \in {"clear", "activate"} /\ k.d \in Disruptions /\ k.hash \in Nat
                /\ k.type = "clear" => k.payload \in Nat
  <1>1. w \in WorldSet
    BY WorldFacts
  <1>2. receipts[w] \subseteq Commands
    BY <1>1, TableFacts
  <1> QED BY <1>1, <1>2, TableFacts, CommandFacts

\* A clear or an activation that is called for, in numbers.
LEMMA PendingFacts ==
    ASSUME TypeInv, pc = "apply", NEW c, Pending(c)
    PROVE  /\ c.d \in Disruptions
           /\ c.type = "clear" => c.hash = register[World].hash /\ c.payload = snapshot /\ Effect(c) = None
           /\ c.type = "activate" => Effect(c) # Old(World)[c.d]
           /\ c.type \in {"clear", "activate"}
  <1>1. c.type = "clear" => c.payload = snapshot
    BY DEF Pending, ClearCommand, ActivateCommand
  <1>2. c.type = "activate" => Effect(c) # Old(World)[c.d]
    BY CallFacts DEF TypeInv, Calls, Old
  <1> QED BY <1>1, <1>2, CallFacts

\* Every step keeps the order of the snapshots.
LEMMA DatedStep ==
    ASSUME TypeInv, ClearedInv, [Next]_vars, NEW w \in Simulated
    PROVE  Dated(w)'
  <1>0. /\ Dated(w) /\ hash \in Nat /\ hash' \in Nat /\ hash <= hash' /\ (Looping => snapshot <= hash)
        /\ \A h \in Hashes : h <= hash => listed'[h] = listed[h]
        /\ register[w].hash \in Nat /\ snapshot \in Nat
        /\ \A k \in receipts[w] : k.type = "clear" => k.hash \in Nat /\ k.payload \in Nat
    BY ListedStays, DateFacts DEF ClearedInv
  <1>1. Looping' => \/ Looping /\ snapshot' = snapshot
                    \/ snapshot' = hash /\ UNCHANGED <<register, receipts>>
    <2>1. FetchSnapshot => snapshot' = hash /\ UNCHANGED <<register, receipts>>
      BY DEF FetchSnapshot, stored, simulation
    <2> QED BY <1>0, <2>1, LoopStep
  <1>2. ASSUME register'[w] = register[w]
        PROVE  PartOf(Old(w), register[w].hash)' /\ register'[w].hash <= hash'
               /\ (Looping' => register'[w].hash <= snapshot')
    BY <1>0, <1>1, <1>2 DEF Dated, PartOf, Old
  <1>3. CASE UNCHANGED <<register[w], active[w], receipts[w]>>
    BY <1>0, <1>1, <1>2, <1>3 DEF Dated
  <1>4. CASE /\ w = World /\ ReplaceRegister /\ register'[w] = [hash |-> snapshot, effects |-> target]
             /\ UNCHANGED <<active[w], receipts[w]>>
    <2>1. pc = "apply" /\ Looping /\ UNCHANGED <<listed, hash, snapshot>>
      BY <1>4 DEF ReplaceRegister, Looping, provider
    <2>2. PartOf(target, snapshot)
      BY <2>1 DEF ClearedInv, ClearsMade
    <2>3. PartOf(Old(w), register[w].hash)'
      BY <1>4, <2>1, <2>2 DEF PartOf, Old
    <2> QED BY <1>0, <1>4, <2>1, <2>3 DEF Dated
  <1>5. ASSUME NEW c, w = World, pc = "apply", UNCHANGED register, Pending(c),
               receipts'[w] = receipts[w] \cup {c}
        PROVE  Dated(w)'
    <2>1. c.type = "clear" => c.hash = register[w].hash /\ c.payload = snapshot
      BY <1>5, PendingFacts
    <2>2. Looping /\ snapshot <= hash
      BY <1>0, <1>5 DEF Looping
    <2>3. ASSUME Looping'
          PROVE  snapshot' = snapshot
      <3>1. ~FetchSnapshot
        BY <1>5 DEF FetchSnapshot
      <3> QED BY <1>0, <2>3, <3>1, LoopStep
    <2> QED BY <1>0, <1>2, <1>5, <2>1, <2>2, <2>3 DEF Dated
  <1> QED BY <1>3, <1>4, <1>5, WorldSteps

\* No step brings a removed effect back while it is registered.
LEMMA RemovedStep ==
    ASSUME TypeInv, ClearedInv, [Next]_vars, NEW w \in Simulated
    PROVE  Removed(w)'
  <1>0. /\ Dated(w) /\ Removed(w) /\ register[w].hash \in Nat /\ snapshot \in Nat /\ w \in WorldSet
        /\ \A k \in receipts[w] : /\ k.d \in Disruptions
                                  /\ k.type = "clear" => k.hash \in Nat /\ k.payload \in Nat
    BY DateFacts, WorldFacts DEF ClearedInv
  <1>1. CASE UNCHANGED <<register[w], active[w], receipts[w]>>
    BY <1>0, <1>1 DEF Removed, Old
  <1>2. CASE /\ w = World /\ ReplaceRegister /\ register'[w] = [hash |-> snapshot, effects |-> target]
             /\ UNCHANGED <<active[w], receipts[w]>>
    <2>1. Looping
      BY <1>2 DEF ReplaceRegister, Looping
    <2>2. \A k \in receipts[w] : k.type = "clear" => k.payload <= snapshot
      BY <1>0, <2>1 DEF Dated
    <2> QED BY <1>0, <1>2, <2>2 DEF Removed
  <1>3. ASSUME NEW c, w = World, pc = "apply", UNCHANGED register, Pending(c),
               receipts'[w] = receipts[w] \cup {c}, active'[w][c.d] = Effect(c),
               \A d \in Disruptions : d # c.d => active'[w][d] = active[w][d]
        PROVE  Removed(w)'
    <2>1. /\ c.d \in Disruptions /\ c.type \in {"clear", "activate"}
          /\ c.type = "clear" => Effect(c) = None
          /\ c.type = "activate" => Effect(c) # Old(w)[c.d]
      BY <1>3, PendingFacts
    <2>2. Old(w)' = Old(w) /\ register'[w] = register[w]
      BY <1>3 DEF Old
    <2>3. Old(w)[c.d] # None => active'[w][c.d] # Old(w)[c.d]
      BY <1>3, <2>1
    <2> QED BY <1>0, <1>3, <2>1, <2>2, <2>3 DEF Removed
  <1> QED BY <1>1, <1>2, <1>3, WorldSteps

\* Every call of the first loop leaves its receipt.
LEMMA ClearsMadeStep ==
    ASSUME TypeInv, ClearedInv, [Next]_vars
    PROVE  ClearsMade'
  <1>0. CycleTypes /\ Place /\ ClearsMade
    BY DEF TypeInv, ClearedInv
  <1>1. CASE pc' # "apply"
    BY <1>1 DEF ClearsMade
  <1>2. CASE Reconcile
    <2>1. /\ pc = "read" /\ target' = Registrations(World, snapshot)
          /\ UNCHANGED <<listed, register, turn, snapshot, receipts>>
          /\ clears' = {d \in Disruptions : Old(World)[d] # None /\ target'[d] # Old(World)[d]}
      BY <1>2 DEF Reconcile, Old, stored, provider, simulation
    <2>2. PartOf(target, snapshot)'
      BY <1>0, <2>1, RegistrationsPart DEF Place, PartOf
    <2>3. Old(World)' = Old(World)
      BY <2>1 DEF Old, World
    <2> QED BY <2>1, <2>2, <2>3 DEF ClearsMade
  <1>3. ASSUME NEW c, pc = "apply", Pending(c), Called(c), c \in receipts'[World],
               receipts[World] \subseteq receipts'[World],
               UNCHANGED <<listed, register, turn, snapshot, target>>
        PROVE  ClearsMade'
    <2>1. World' = World /\ Old(World)' = Old(World) /\ PartOf(target, snapshot)'
      BY <1>0, <1>3 DEF World, Old, PartOf, ClearsMade
    <2>2. \A d \in Disruptions : ClearCommand(d)' = ClearCommand(d)
      BY <1>3, <2>1 DEF ClearCommand
    <2>3. \/ clears' = clears
          \/ \E d \in clears : clears' = clears \ {d} /\ c = ClearCommand(d)
      BY <1>3 DEF Pending, Called, ClearCommand, ActivateCommand
    <2> QED BY <1>0, <1>3, <2>1, <2>2, <2>3 DEF ClearsMade
  <1>4. ASSUME NEW c, Apply(c)
        PROVE  ClearsMade'
    <2>1. receipts'[World] = receipts[World] \cup {c}
      BY <1>4, CommitFacts DEF Apply
    <2> QED BY <1>3, <1>4, <2>1 DEF Apply, stored, provider
  <1>5. ASSUME NEW c, Replay(c)
        PROVE  ClearsMade'
    <2>1. c \in receipts[World] /\ receipts' = receipts
      BY <1>5 DEF Replay, Known, simulation
    <2> QED BY <1>3, <1>5, <2>1 DEF Replay, stored, provider
  <1>6. CASE UNCHANGED <<register, receipts, pc, locals>>
    <2>1. /\ UNCHANGED <<snapshot, target, clears>> /\ World' = World /\ Old(World)' = Old(World)
          /\ \A d \in Disruptions : ClearCommand(d)' = ClearCommand(d)
      BY <1>6 DEF locals, World, Old, ClearCommand
    <2>2. ASSUME pc = "apply"
          PROVE  PartOf(target, snapshot)'
      <3>1. snapshot \in Hashes /\ snapshot <= hash /\ PartOf(target, snapshot)
        BY <1>0, <2>2 DEF Place, ClearedInv, Looping, ClearsMade
      <3> QED BY <2>1, <3>1, ListedStays DEF PartOf
    <2> QED BY <1>0, <1>6, <2>1, <2>2 DEF ClearsMade
  <1> QED
    BY <1>1, <1>2, <1>4, <1>5, <1>6
       DEF Next, Cycle, Fault, StartCycle, FetchSnapshot, CompleteCycle, SkipWorld, Refused, ReplaceRegister,
           PersistSuccess, PersistFailure, AwaitFails, PersistFailureFails, Crash, ApplyThrowsLate, Publish,
           Trains, Return, Throw, vars, stored, simulation, locals

\* No activation meets the registered effect of its disruption: the effect has been cleared
\* before, in this cycle or in a failed one, for any snapshots and any trains, in worlds that
\* went astray too.
THEOREM ReplacedAfterClearing == Spec => []ClearedBeforeReplaced
  <1>1. Init => ClearedInv
    <2> SUFFICES ASSUME Init, NEW w \in Simulated
                 PROVE  Dated(w) /\ Removed(w)
      BY DEF Init, ClearedInv, Looping, ClearsMade
    <2>1. register[w] = [hash |-> 0, effects |-> Nothing] /\ receipts[w] = {} /\ hash = 1 /\ pc = "idle"
      BY WorldFacts DEF Init
    <2> QED BY <2>1 DEF Dated, Removed, Looping, PartOf, Old, Nothing
  <1>2. TypeInv /\ ClearedInv /\ [Next]_vars => ClearedInv'
    BY DatedStep, RemovedStep, ClearsMadeStep, LoopStep DEF ClearedInv
  <1>3. TypeInv /\ ClearedInv => ClearedBeforeReplaced
    <2> SUFFICES ASSUME TypeInv, ClearedInv, NEW d \in activates, pc = "apply", Pending(ActivateCommand(d)),
                        Old(World)[d] # None
                 PROVE  active[World][d] # Old(World)[d]
      BY DEF ClearedBeforeReplaced, Old
    <2>1. World \in Simulated /\ Looping /\ d \in Disruptions /\ target[d] \in Effects
          /\ target[d] # Old(World)[d] /\ snapshot \in Hashes
      BY DEF TypeInv, Place, Calls, CycleTypes, Looping, Old
    <2>2. clears = {}
      BY DEF Pending, ClearCommand, ActivateCommand
    <2>3. ClearCommand(d) \in receipts[World] /\ PartOf(target, snapshot)
      BY <2>1, <2>2 DEF ClearedInv, ClearsMade
    <2>4. Dated(World) /\ Removed(World) /\ register[World].hash \in Nat /\ snapshot \in Nat
      BY <2>1, DateFacts DEF ClearedInv
    <2>5. register[World].hash # snapshot
      <3>1. target[d] = listed[snapshot][d]
        BY <2>1, <2>3, ProviderAssumption DEF PartOf
      <3>2. Old(World)[d] = listed[register[World].hash][d]
        BY <2>1, <2>4 DEF Dated, PartOf
      <3> QED BY <2>1, <3>1, <3>2
    <2>6. register[World].hash < snapshot
      BY <2>1, <2>4, <2>5 DEF Dated
    <2> QED BY <2>3, <2>4, <2>6 DEF Removed, ClearCommand
  <1> QED BY <1>1, <1>2, <1>3, InitTypes, TypeStep, PTL DEF Spec
=============================================================================
