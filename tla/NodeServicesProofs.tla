--------------------------- MODULE NodeServicesProofs ---------------------------
(***************************************************************************)
(* Proofs about what runs beside the requests of a node: about NodeBoot,   *)
(* for every list of migrations, every number of blockchains, endpoints    *)
(* and repositories, and every number of failures and deaths of the        *)
(* process: what a boot leaves behind; about NodeStartup, for every        *)
(* blockchain, wallet and paranet: what a node that is up believes of      *)
(* itself; about the services of a node that is up; and about all of them  *)
(* together.                                                               *)
(***************************************************************************)
EXTENDS MCNodeServices, BlockchainEventListenerProofs, DatabaseSchemaProofs

-----------------------------------------------------------------------------
(* A boot: the inductive invariant.                                        *)

RpcModules == {"blockchain", "blockchainEvents"}
ModuleSteps == {"off", "database", "pending", "up", "down", "unrecord", "rpc", "contracts",
                "connect", "create", "done", "failed"}

FunctionsOK ==
    /\ applied \in [AllOf -> SUBSET (1..2)]
    /\ moduleAt \in [BootModules -> ModuleSteps] /\ handlers \in [BootModules -> Nat]
    /\ tried \in [RpcModules -> Nat] /\ good \in [RpcModules -> Nat]

(* The configuration is marked after it was written, and written only       *)
(* while it is not marked.                                                 *)
ConfigInv ==
    /\ MarkedIsMigrated
    /\ bootAt \in {"write", "mark"} => ~marker
    /\ bootAt = "mark" => configFile = "dkg"

(* A module starts with the modules, and a required one does not fail       *)
(* without the process.                                                    *)
ModulesInv ==
    /\ bootAt \notin {"modules", "booted"} => \A m \in BootModules : moduleAt[m] = "off"
    /\ bootAt = "booted" => \A m \in BootModules : moduleAt[m] \in {"done", "failed"}
    /\ \A m \in RequiredModules : moduleAt[m] # "failed"
    /\ moduleAt["repository"] \in {"off", "database", "pending", "up", "down", "unrecord", "done"}
    /\ moduleAt["repository"] \in {"off", "database", "pending"} => committing = {}
    /\ moduleAt["repository"] = "up" => todo = AllOf \ recorded
    /\ moduleAt["repository"] = "done" => recorded = AllOf /\ handlers["repository"] = 1

ServersInv ==
    /\ moduleAt["blockchain"] \in {"off", "rpc", "contracts", "done"}
    /\ moduleAt["blockchain"] = "off" => handlers["blockchain"] = 0
    /\ moduleAt["blockchain"] \in {"rpc", "contracts"} => handlers["blockchain"] < Len(BootChains)
    /\ moduleAt["blockchain"] = "done" => handlers["blockchain"] = Len(BootChains)
    /\ moduleAt["tripleStore"] \in {"off", "connect", "create", "done"}
    /\ moduleAt["tripleStore"] \in {"create", "done"} => ready = Repositories
    /\ moduleAt["tripleStore"] = "done" => there = Repositories /\ handlers["tripleStore"] = 1
    /\ \A r \in Repositories : repoAt[r] = "made" => r \in there

(* How far the migration at work is: what it did so far is there, what it   *)
(* undid is not; only transactions are committed later, and those of        *)
(* migrations that are recorded, at work or torn.                          *)
WorkInv ==
    /\ \A m \in committing :
          Migrations[m] = "transaction" /\ (m \in recorded \/ m \in AtWork \/ m \in torn)
    /\ Running =>
          IF Migrations[NextPending] = "transaction"
          THEN at \in {1, 2} /\ (at = 2 => NextPending \in committing \/ applied[NextPending] = {1})
          ELSE 1..(at - 1) \subseteq applied[NextPending]
    /\ moduleAt["repository"] \in {"down", "unrecord"} => recorded # {}
    /\ moduleAt["repository"] = "down" /\ Migrations[LastRecorded] \in {"alter", "indexes"} =>
          applied[LastRecorded] \cap 1..(at - 1) = {}
    /\ moduleAt["repository"] = "unrecord" =>
          LastRecorded \in torn \/ (applied[LastRecorded] = {} /\ LastRecorded \notin committing)

InOrder == \E k \in 0..Len(Migrations) : recorded = 1..k

BootIInv ==
    /\ BootTypeOK /\ FunctionsOK /\ ConfigInv /\ ModulesInv /\ ServersInv
    /\ InOrder /\ RecordIsSchema /\ WorkInv

BootTypes == BootTypeOK /\ FunctionsOK

-----------------------------------------------------------------------------
(* The first and the last migration                                        *)

LEMMA MigrationsAre ==
    /\ Len(Migrations) \in Nat /\ AllOf = 1..Len(Migrations)
    /\ \A m \in AllOf : Migrations[m] \in MigrationKinds
BY BootAssumption DEF AllOf

LEMMA StatementsAre ==
    ASSUME NEW m \in AllOf
    PROVE  /\ Migrations[m] = "transaction" => Statements(m) = {1}
           /\ Migrations[m] # "transaction" => Statements(m) = {1, 2}
           /\ Statements(m) \subseteq 1..2
<1>1. 1..1 = {1} /\ 1..2 = {1, 2}
    OBVIOUS
<1>2. CASE Migrations[m] = "transaction"
    <2>1. Statements(m) = 1..1
        BY <1>2 DEF Statements
    <2> QED BY <1>1, <1>2, <2>1
<1>3. CASE Migrations[m] # "transaction"
    <2>1. Migrations[m] \in {"create", "alter", "indexes"}
        BY <1>3, MigrationsAre DEF MigrationKinds
    <2>2. Statements(m) = 1..2
        BY <2>1 DEF Statements
    <2> QED BY <1>1, <1>3, <2>2
<1> QED BY <1>2, <1>3

LEMMA LastIs ==
    ASSUME NEW k \in Nat, recorded = 1..k, recorded # {}
    PROVE  k # 0 /\ LastRecorded = k
<1>1. k # 0 /\ k \in recorded /\ \A n \in recorded : n <= k
    OBVIOUS
<1>2. \A m \in recorded : (\A n \in recorded : n <= m) => m = k
    BY <1>1
<1> QED BY <1>1, <1>2 DEF LastRecorded

LEMMA NextIs ==
    ASSUME NEW k \in 0..Len(Migrations), recorded = 1..k, todo = AllOf \ recorded, todo # {}
    PROVE  /\ k + 1 \in AllOf /\ NextPending = k + 1 /\ NextPending \in todo
           /\ recorded \cup {NextPending} = 1..(k + 1)
<1>0. Len(Migrations) \in Nat /\ AllOf = 1..Len(Migrations) /\ k \in Nat
    BY MigrationsAre
<1>1. k + 1 \in todo /\ \A n \in todo : k + 1 <= n
    BY <1>0
<1>2. \A m \in todo : (\A n \in todo : m <= n) => m = k + 1
    BY <1>0, <1>1
<1>3. NextPending = k + 1
    BY <1>1, <1>2 DEF NextPending
<1> QED BY <1>0, <1>1, <1>3

-----------------------------------------------------------------------------
(* Types                                                                   *)

LEMMA EndTypes ==
    ASSUME BootTypes, ProcessEnds, configFile' \in {"old", "dkg", "broken"},
           bootFaults' \in 0..MaxBootFaults, AtWork \subseteq AllOf
    PROVE  BootTypes'
<1>1. tried' = [m \in RpcModules |-> 0] /\ good' = [m \in RpcModules |-> 0]
    BY DEF ProcessEnds, MemoryGone, BootTypes, FunctionsOK
<1>2. 0 \in 0..Endpoints /\ 0 \in 0..0 /\ 0 \in 0..TripleStoreRetries /\ 0 \in 0..Len(BootChains)
    BY BootAssumption
<1>3. \A m \in DOMAIN tried' : tried'[m] \in 0..Endpoints /\ good'[m] \in 0..tried'[m]
    BY <1>1, <1>2
<1>4. FunctionsOK'
    BY <1>1 DEF ProcessEnds, MemoryGone, BootTypes, FunctionsOK, ModuleSteps
<1>5. torn' \subseteq AllOf
    BY DEF ProcessEnds, BootTypes, BootTypeOK
<1>6. handlers'["blockchain"] \in 0..Len(BootChains)
    BY <1>2 DEF ProcessEnds, MemoryGone, BootModules
<1>7. retries' \in [Repositories -> 0..TripleStoreRetries]
    BY <1>2 DEF ProcessEnds, MemoryGone
<1>8. recorded' \subseteq AllOf /\ \A m \in AllOf : applied'[m] \subseteq Statements(m)
    BY DEF ProcessEnds, BootTypes, BootTypeOK
<1>9. marker' \in BOOLEAN /\ dkgKnown' \in BOOLEAN /\ ready' \subseteq Repositories
    BY DEF ProcessEnds, MemoryGone, BootTypes, BootTypeOK
<1>10. repoAt' \in [Repositories -> {"probe", "absent", "again", "made"}]
    BY DEF ProcessEnds, MemoryGone
<1>11. there' \subseteq Repositories /\ todo' \subseteq AllOf /\ at' \in 1..3 /\ committing' \subseteq AllOf
       /\ bootAt' = "off"
    BY DEF ProcessEnds, MemoryGone, BootTypes, BootTypeOK
<1>12. BootTypeOK'
    BY <1>3, <1>5, <1>6, <1>7, <1>8, <1>9, <1>10, <1>11 DEF BootTypeOK
<1> QED BY <1>4, <1>12 DEF BootTypes

LEMMA WorkIsMigration ==
    ASSUME BootTypes, ModulesInv, InOrder, WorkInv
    PROVE  AtWork \subseteq AllOf /\ (recorded # {} => LastRecorded \in recorded)
<1>0. PICK k \in 0..Len(Migrations) : recorded = 1..k
    BY DEF InOrder
<1>1. k \in Nat
    BY MigrationsAre
<1>2. recorded # {} => LastRecorded \in recorded
    BY <1>0, <1>1, LastIs
<1>3. moduleAt["repository"] = "up" /\ todo # {} => NextPending \in AllOf
    BY <1>0, NextIs DEF ModulesInv
<1> QED BY <1>2, <1>3 DEF AtWork, WorkInv, BootTypes, BootTypeOK

(* A fault is counted within its bound.                                     *)
LEMMA FaultTypes ==
    ASSUME BootTypes, BootFault \/ UNCHANGED bootFaults
    PROVE  bootFaults' \in 0..MaxBootFaults
BY BootAssumption DEF BootFault, BootTypes, BootTypeOK

LEMMA PrologueTypes ==
    ASSUME BootTypes,
           BootStarts \/ ReadUserConfiguration \/ WriteUserConfiguration \/ MarkMigrated
              \/ ModulesDone
    PROVE  BootTypes'
<1> USE DEF disk, schema, repo, rpc, store, BootTypes
<1>1. UNCHANGED <<recorded, applied, torn, moduleAt, handlers, todo, at, committing, tried, good,
                  retries, ready, repoAt, there>>
    BY DEF BootStarts, ReadUserConfiguration, WriteUserConfiguration, MarkMigrated, ModulesDone
<1>2. /\ configFile' \in {"old", "dkg", "broken"} /\ marker' \in BOOLEAN
      /\ bootAt' \in {"off", "config", "write", "mark", "modules", "booted"}
    BY DEF BootStarts, ReadUserConfiguration, WriteUserConfiguration, MarkMigrated, ModulesDone,
           BootTypeOK
<1>3. dkgKnown' \in BOOLEAN
    BY DEF BootStarts, ReadUserConfiguration, WriteUserConfiguration, MarkMigrated, ModulesDone,
           BootTypeOK
<1>4. bootFaults' \in 0..MaxBootFaults
    <2>1. BootFault \/ UNCHANGED bootFaults
        BY DEF BootStarts, ReadUserConfiguration, WriteUserConfiguration, MarkMigrated, ModulesDone
    <2> QED BY <2>1, FaultTypes
<1> QED BY <1>1, <1>2, <1>3, <1>4 DEF BootTypeOK, FunctionsOK

(* A step of one module that leaves the database's schema alone.            *)
LEMMA ModuleTypes ==
    ASSUME BootTypes, ServersInv,
           \/ CreateDatabase \/ ReadPending \/ LoadModels \/ Connected \/ RepositoriesMade
           \/ \E m \in RpcModules : TryEndpoint(m) \/ ContractsRead(m)
    PROVE  BootTypes'
<1> USE DEF disk, schema, repo, rpc, store, BootTypes
<1>1. UNCHANGED <<configFile, marker, recorded, applied, torn, bootAt, dkgKnown, committing,
                  retries, ready, repoAt, there>>
    BY DEF CreateDatabase, ReadPending, LoadModels, Connected, RepositoriesMade, TryEndpoint,
           ContractsRead
<1>2. moduleAt' \in [BootModules -> ModuleSteps]
    BY DEF CreateDatabase, ReadPending, LoadModels, Connected, RepositoriesMade, TryEndpoint,
           ContractsRead, ModuleGoes, FunctionsOK, ModuleSteps
<1>3. /\ handlers' \in [BootModules -> Nat]
      /\ handlers'["blockchain"] \in 0..Len(BootChains)
    <2>1. CASE \E m \in RpcModules : ContractsRead(m)
        <3>1. PICK m \in RpcModules : ContractsRead(m)
            BY <2>1
        <3>2. moduleAt[m] = "contracts" /\ handlers' = [handlers EXCEPT ![m] = @ + 1]
            BY <3>1 DEF ContractsRead, IsAt
        <3>3. Len(BootChains) \in Nat /\ handlers["blockchain"] \in Nat /\ RpcModules \subseteq BootModules
            BY BootAssumption DEF FunctionsOK, BootModules, RpcModules
        <3>4. CASE m = "blockchain"
            BY <3>2, <3>3, <3>4 DEF ServersInv, FunctionsOK
        <3>5. CASE m # "blockchain"
            BY <3>2, <3>3, <3>5 DEF BootTypeOK, FunctionsOK
        <3> QED BY <3>4, <3>5
    <2>2. CASE ~(\E m \in RpcModules : ContractsRead(m))
        <3>1. \/ handlers' = handlers
              \/ \E m \in {"repository", "tripleStore"} : handlers' = [handlers EXCEPT ![m] = 1]
            BY <2>2 DEF CreateDatabase, ReadPending, LoadModels, Connected, RepositoriesMade,
                        TryEndpoint
        <3>2. CASE handlers' = handlers
            BY <3>2 DEF FunctionsOK, BootTypeOK
        <3>3. CASE \E m \in {"repository", "tripleStore"} : handlers' = [handlers EXCEPT ![m] = 1]
            <4>1. PICK m \in {"repository", "tripleStore"} : handlers' = [handlers EXCEPT ![m] = 1]
                BY <3>3
            <4>2. handlers'["blockchain"] = handlers["blockchain"]
                BY <4>1 DEF FunctionsOK, BootModules
            <4> QED BY <4>1, <4>2 DEF FunctionsOK, BootTypeOK
        <3> QED BY <3>1, <3>2, <3>3
    <2> QED BY <2>1, <2>2
<1>4. todo' \subseteq AllOf /\ at' \in 1..3
    BY DEF CreateDatabase, ReadPending, LoadModels, Connected, RepositoriesMade, TryEndpoint,
           ContractsRead, BootTypeOK
<1>5. /\ tried' \in [RpcModules -> Nat] /\ good' \in [RpcModules -> Nat]
      /\ \A m \in RpcModules : tried'[m] \in 0..Endpoints /\ good'[m] \in 0..tried'[m]
    <2>0. /\ tried \in [RpcModules -> Nat] /\ good \in [RpcModules -> Nat] /\ Endpoints \in Nat
          /\ \A m \in RpcModules : tried[m] <= Endpoints /\ good[m] <= tried[m]
        BY BootAssumption DEF FunctionsOK, BootTypeOK
    <2>1. CASE \E m \in RpcModules : TryEndpoint(m)
        <3>1. PICK m \in RpcModules : TryEndpoint(m)
            BY <2>1
        <3>2. /\ tried[m] < Endpoints /\ tried' = [tried EXCEPT ![m] = @ + 1]
              /\ good' = [good EXCEPT ![m] = @ + 1] \/ good' = good
            BY <3>1 DEF TryEndpoint
        <3> QED BY <2>0, <3>2
    <2>2. CASE \E m \in RpcModules : ContractsRead(m)
        <3>1. PICK m \in RpcModules : ContractsRead(m)
            BY <2>2
        <3>2. \/ tried' = [tried EXCEPT ![m] = 0] /\ good' = [good EXCEPT ![m] = 0]
              \/ tried' = tried /\ good' = good
            BY <3>1 DEF ContractsRead
        <3> QED BY <2>0, <3>2
    <2>3. CASE CreateDatabase \/ ReadPending \/ LoadModels \/ Connected \/ RepositoriesMade
        <3>1. UNCHANGED <<tried, good>>
            BY <2>3 DEF CreateDatabase, ReadPending, LoadModels, Connected, RepositoriesMade
        <3> QED BY <2>0, <3>1
    <2> QED BY <2>1, <2>2, <2>3
<1>6. bootFaults' \in 0..MaxBootFaults
    <2>1. BootFault \/ UNCHANGED bootFaults
        BY DEF CreateDatabase, ReadPending, LoadModels, Connected, RepositoriesMade, TryEndpoint,
               ContractsRead
    <2> QED BY <2>1, FaultTypes
<1>7. FunctionsOK'
    BY <1>1, <1>2, <1>3, <1>5 DEF FunctionsOK
<1>8. DOMAIN tried' = RpcModules
    BY <1>5
<1> QED BY <1>1, <1>3, <1>4, <1>5, <1>6, <1>7, <1>8 DEF BootTypeOK

LEMMA StoreTypes ==
    ASSUME BootTypes, NEW r \in Repositories,
           \/ (CheckHealth(r) /\ ~ProcessEnds)
           \/ RepositoryExists(r) \/ CreateRepository(r) \/ CreationFails(r)
    PROVE  BootTypes'
<1> USE DEF disk, schema, repo, rpc, BootTypes
<1>1. UNCHANGED <<configFile, marker, recorded, applied, torn, bootAt, dkgKnown, moduleAt, handlers,
                  todo, at, committing, tried, good>>
    BY DEF CheckHealth, RepositoryExists, CreateRepository, CreationFails, RepositoryGoes
<1>2. retries' \in [Repositories -> 0..TripleStoreRetries] /\ ready' \subseteq Repositories
    <2>1. CASE CheckHealth(r) /\ ~ProcessEnds
        <3>1. \/ ready' = ready \cup {r} /\ UNCHANGED retries
              \/ /\ retries[r] # TripleStoreRetries /\ retries' = [retries EXCEPT ![r] = @ + 1]
                 /\ UNCHANGED ready
            BY <2>1 DEF CheckHealth
        <3> QED BY <3>1, BootAssumption DEF BootTypeOK
    <2>2. CASE RepositoryExists(r) \/ CreateRepository(r) \/ CreationFails(r)
        BY <2>2 DEF RepositoryExists, CreateRepository, CreationFails, RepositoryGoes, BootTypeOK
    <2> QED BY <2>1, <2>2
<1>3. /\ repoAt' \in [Repositories -> {"probe", "absent", "again", "made"}]
      /\ there' \subseteq Repositories
    BY DEF CheckHealth, RepositoryExists, CreateRepository, CreationFails, RepositoryGoes, BootTypeOK
<1>4. bootFaults' \in 0..MaxBootFaults
    <2>1. BootFault \/ UNCHANGED bootFaults
        BY DEF CheckHealth, RepositoryExists, CreateRepository, CreationFails
    <2> QED BY <2>1, FaultTypes
<1> QED BY <1>1, <1>2, <1>3, <1>4 DEF BootTypeOK, FunctionsOK

(* The steps of a migration.                                               *)
LEMMA MigrationTypes ==
    ASSUME BootTypes, AtWork \subseteq AllOf, recorded # {} => LastRecorded \in recorded,
           moduleAt["repository"] \in {"down", "unrecord"} => recorded # {},
           \/ Statement \/ Record \/ Undo \/ (UpFails /\ ~ProcessEnds)
           \/ \E m \in AllOf : CommitTransaction(m)
    PROVE  BootTypes'
<1> USE DEF disk, schema, rpc, store, BootTypes
<1>1. UNCHANGED <<configFile, marker, bootAt, dkgKnown, handlers, tried, good, retries, ready,
                  repoAt, there>>
    BY DEF Statement, Record, Undo, UpFails, CommitTransaction
<1>2. Running => NextPending \in AllOf
    BY DEF Running, IsAt, AtWork
<1>3. recorded' \subseteq AllOf /\ todo' \subseteq AllOf
    BY <1>2 DEF Statement, Record, Undo, UpFails, CommitTransaction, repo, BootTypeOK
<1>4. torn' \subseteq AllOf
    BY DEF Statement, Record, Undo, UpFails, CommitTransaction, IsAt, BootTypeOK
<1>5. committing' \subseteq AllOf
    BY <1>2 DEF Statement, Record, Undo, UpFails, CommitTransaction, repo, BootTypeOK
<1>6. /\ applied' \in [AllOf -> SUBSET (1..2)]
      /\ \A m \in AllOf : applied'[m] \subseteq Statements(m)
    <2>0. /\ applied \in [AllOf -> SUBSET (1..2)]
          /\ \A m \in AllOf : applied[m] \subseteq Statements(m) /\ Statements(m) \subseteq 1..2
        BY StatementsAre DEF FunctionsOK, BootTypeOK
    <2>1. CASE Statement
        <3>1. /\ Running /\ at \in Statements(NextPending)
              /\ \/ applied' = [applied EXCEPT ![NextPending] = @ \cup {at}]
                 \/ UNCHANGED applied
            BY <2>1 DEF Statement
        <3> QED BY <1>2, <2>0, <3>1
    <2>2. CASE \E m \in AllOf : CommitTransaction(m)
        <3>1. PICK m \in AllOf : applied' = [applied EXCEPT ![m] = Statements(m)]
            BY <2>2 DEF CommitTransaction
        <3> QED BY <2>0, <3>1
    <2>3. CASE Undo
        <3>1. \/ applied' = [applied EXCEPT ![LastRecorded] = {}]
              \/ applied' = [applied EXCEPT ![LastRecorded] = @ \ {at}]
              \/ UNCHANGED applied
            BY <2>3 DEF Undo
        <3> QED BY <2>0, <3>1
    <2>4. CASE Record \/ (UpFails /\ ~ProcessEnds)
        <3>1. UNCHANGED applied
            BY <2>4 DEF Record, UpFails
        <3> QED BY <2>0, <3>1
    <2> QED BY <2>1, <2>2, <2>3, <2>4
<1>7. at' \in 1..3
    <2>1. CASE Statement
        <3>1. at \in 1..2 /\ at' = at + 1
            BY <1>2, <2>1, StatementsAre DEF Statement
        <3> QED BY <3>1
    <2>2. CASE Undo
        <3>1. at' = at \/ (at \in 1..2 /\ at' = at + 1)
            BY <2>2 DEF Undo, IsAt, FunctionsOK, BootTypeOK
        <3> QED BY <3>1 DEF BootTypeOK
    <2>3. CASE ~Statement /\ ~Undo
        BY <2>3 DEF Record, UpFails, CommitTransaction, BootTypeOK
    <2> QED BY <2>1, <2>2, <2>3
<1>8. moduleAt' \in [BootModules -> ModuleSteps]
    BY DEF Statement, Record, Undo, UpFails, CommitTransaction, ModuleGoes, FunctionsOK, ModuleSteps
<1>9. bootFaults' \in 0..MaxBootFaults
    <2>1. BootFault \/ UNCHANGED bootFaults
        BY DEF Statement, Record, Undo, UpFails, CommitTransaction
    <2> QED BY <2>1, FaultTypes
<1> QED BY <1>1, <1>3, <1>4, <1>5, <1>6, <1>7, <1>8, <1>9 DEF BootTypeOK, FunctionsOK

LEMMA StartTypes ==
    ASSUME BootTypes, InitializeModules \/ ChainFails("blockchainEvents"), ~ProcessEnds
    PROVE  BootTypes'
<1> USE DEF disk, schema, repo, rpc, store, BootTypes
<1>1. UNCHANGED <<configFile, marker, recorded, applied, torn, bootAt, dkgKnown, handlers, todo,
                  at, committing, tried, good, retries, ready, repoAt, there>>
    BY DEF InitializeModules, ChainFails, ModuleFails
<1>2. moduleAt' \in [BootModules -> ModuleSteps]
    BY DEF InitializeModules, ChainFails, ModuleFails, ModuleGoes, FunctionsOK, ModuleSteps,
           FirstStep, BootModules
<1>3. bootFaults' \in 0..MaxBootFaults
    <2>1. BootFault \/ UNCHANGED bootFaults
        BY DEF InitializeModules, ChainFails
    <2> QED BY <2>1, FaultTypes
<1> QED BY <1>1, <1>2, <1>3 DEF BootTypeOK, FunctionsOK

-----------------------------------------------------------------------------
(* The kinds of steps                                                      *)

Prologue ==
    BootStarts \/ ReadUserConfiguration \/ WriteUserConfiguration \/ MarkMigrated \/ ModulesDone

Starts == (InitializeModules \/ ChainFails("blockchainEvents")) /\ ~ProcessEnds

OfModule ==
    \/ CreateDatabase \/ ReadPending \/ LoadModels \/ Connected \/ RepositoriesMade
    \/ \E m \in RpcModules : TryEndpoint(m) \/ ContractsRead(m)

OfStore ==
    \E r \in Repositories :
        \/ (CheckHealth(r) /\ ~ProcessEnds)
        \/ RepositoryExists(r) \/ CreateRepository(r) \/ CreationFails(r)

OfMigration ==
    \/ Statement \/ Record \/ Undo \/ (UpFails /\ ~ProcessEnds)
    \/ \E m \in AllOf : CommitTransaction(m)

(* The revert is through: the process ends with the error of up().          *)
RevertEnds ==
    /\ IsAt("repository", "unrecord") /\ MemoryGone
    /\ recorded' = recorded \ {LastRecorded}
    /\ torn' = torn \cup {m \in committing : ~Whole(m)}
    /\ UNCHANGED <<configFile, marker, applied, bootFaults>>

Ends ==
    /\ ProcessEnds /\ (BootFault \/ UNCHANGED bootFaults)
    /\ UNCHANGED configFile \/ (bootAt = "write" /\ configFile' = "broken")

LEMMA StepIs ==
    ASSUME BootTypes, BootNext
    PROVE  Prologue \/ Starts \/ OfModule \/ OfStore \/ OfMigration \/ RevertEnds \/ Ends
<1>0. DOMAIN tried = RpcModules
    BY DEF BootTypes, FunctionsOK
<1>1. CASE Dies
    BY <1>1 DEF Dies, Ends
<1>2. CASE BootStarts \/ ReadUserConfiguration \/ WriteUserConfiguration \/ MarkMigrated \/ ModulesDone
    BY <1>2 DEF Prologue
<1>3. CASE InitializeModules
    BY <1>3 DEF InitializeModules, Starts, Ends
<1>4. CASE RepositoryStep
    <2>1. CASE UpFails
        BY <2>1 DEF UpFails, OfMigration, Ends
    <2>2. CASE DownEnds
        BY <2>2 DEF DownEnds, RevertEnds, Ends, IsAt
    <2>3. CASE DatabaseFails
        BY <2>3 DEF DatabaseFails, ModuleFails, RequiredModules, Ends
    <2>4. CASE \E m \in AllOf : CommitTransaction(m)
        BY <2>4 DEF OfMigration
    <2> QED BY <1>4, <2>1, <2>2, <2>3, <2>4 DEF RepositoryStep, OfMigration, OfModule
<1>5. ASSUME NEW m \in RpcModules, RpcStep(m)
      PROVE  Starts \/ OfModule \/ Ends
    <2>1. CASE ChainFails(m)
        <3>1. CASE m = "blockchain"
            BY <2>1, <3>1 DEF ChainFails, ModuleFails, RequiredModules, Ends
        <3>2. CASE m = "blockchainEvents"
            BY <2>1, <3>2 DEF ChainFails, ModuleFails, RequiredModules, Starts, Ends
        <3> QED BY <3>1, <3>2 DEF RpcModules
    <2> QED BY <1>5, <2>1 DEF RpcStep, OfModule
<1>6. ASSUME NEW r \in Repositories, CheckHealth(r) \/ RepositoryStepOf(r)
      PROVE  OfStore \/ Ends
    <2>1. CASE CheckHealth(r)
        BY <2>1 DEF CheckHealth, OfStore, Ends
    <2>2. CASE CreationEnds(r)
        BY <2>2 DEF CreationEnds, Ends
    <2> QED BY <1>6, <2>1, <2>2 DEF RepositoryStepOf, OfStore
<1> QED BY <1>0, <1>1, <1>2, <1>3, <1>4, <1>5, <1>6 DEF BootNext, BootStep, OfModule

LEMMA TypesKeep ==
    ASSUME BootIInv, BootNext
    PROVE  BootTypes'
<1>0. BootTypes /\ ModulesInv /\ ServersInv /\ InOrder /\ WorkInv /\ AtWork \subseteq AllOf
      /\ (recorded # {} => LastRecorded \in recorded)
    BY WorkIsMigration DEF BootIInv, BootTypes
<1>1. CASE Prologue
    BY <1>0, <1>1, PrologueTypes DEF Prologue
<1>2. CASE Starts
    BY <1>0, <1>2, StartTypes DEF Starts
<1>3. CASE OfModule
    BY <1>0, <1>3, ModuleTypes DEF OfModule
<1>4. CASE OfStore
    BY <1>0, <1>4, StoreTypes DEF OfStore
<1>5. CASE OfMigration
    BY <1>0, <1>5, MigrationTypes DEF OfMigration, WorkInv
<1>6. CASE RevertEnds
    <2>1. tried' = [m \in RpcModules |-> 0] /\ good' = [m \in RpcModules |-> 0]
        BY <1>0, <1>6 DEF RevertEnds, MemoryGone, BootTypes, FunctionsOK
    <2>2. 0 \in 0..Endpoints /\ 0 \in 0..0 /\ 0 \in 0..TripleStoreRetries /\ 0 \in 0..Len(BootChains)
        BY BootAssumption
    <2>3. \A m \in DOMAIN tried' : tried'[m] \in 0..Endpoints /\ good'[m] \in 0..tried'[m]
        BY <2>1, <2>2
    <2>4. FunctionsOK'
        BY <1>0, <1>6, <2>1 DEF RevertEnds, MemoryGone, BootTypes, FunctionsOK, ModuleSteps
    <2>5. torn' \subseteq AllOf /\ recorded' \subseteq AllOf
        BY <1>0, <1>6 DEF RevertEnds, BootTypes, BootTypeOK
    <2>6. handlers'["blockchain"] \in 0..Len(BootChains)
        BY <1>6, <2>2 DEF RevertEnds, MemoryGone, BootModules
    <2>7. retries' \in [Repositories -> 0..TripleStoreRetries]
        BY <1>6, <2>2 DEF RevertEnds, MemoryGone
    <2>8. \A m \in AllOf : applied'[m] \subseteq Statements(m)
        BY <1>0, <1>6 DEF RevertEnds, BootTypes, BootTypeOK
    <2>9. /\ marker' \in BOOLEAN /\ dkgKnown' \in BOOLEAN /\ ready' \subseteq Repositories
          /\ configFile' \in {"old", "dkg", "broken"} /\ bootFaults' \in 0..MaxBootFaults
        BY <1>0, <1>6 DEF RevertEnds, MemoryGone, BootTypes, BootTypeOK
    <2>10. repoAt' \in [Repositories -> {"probe", "absent", "again", "made"}]
        BY <1>6 DEF RevertEnds, MemoryGone
    <2>11. /\ there' \subseteq Repositories /\ todo' \subseteq AllOf /\ at' \in 1..3
           /\ committing' \subseteq AllOf /\ bootAt' = "off"
        BY <1>0, <1>6 DEF RevertEnds, MemoryGone, BootTypes, BootTypeOK
    <2>12. BootTypeOK'
        BY <2>3, <2>5, <2>6, <2>7, <2>8, <2>9, <2>10, <2>11 DEF BootTypeOK
    <2> QED BY <2>4, <2>12 DEF BootTypes
<1>7. CASE Ends
    <2>1. bootFaults' \in 0..MaxBootFaults
        BY <1>0, <1>7, FaultTypes DEF Ends
    <2>2. configFile' \in {"old", "dkg", "broken"}
        BY <1>0, <1>7 DEF Ends, BootTypes, BootTypeOK
    <2> QED BY <1>0, <1>7, <2>1, <2>2, EndTypes DEF Ends
<1> QED BY <1>0, <1>1, <1>2, <1>3, <1>4, <1>5, <1>6, <1>7, StepIs

-----------------------------------------------------------------------------
(* The configuration and the modules                                       *)

LEMMA ConfigKeeps ==
    ASSUME BootIInv, BootNext
    PROVE  ConfigInv'
<1> USE DEF disk, schema, repo, rpc, store
<1>0. ConfigInv /\ BootTypes /\ BootTypeOK
    BY DEF BootIInv, BootTypes
<1>1. CASE Prologue
    BY <1>0, <1>1 DEF Prologue, BootStarts, ReadUserConfiguration, WriteUserConfiguration,
                      MarkMigrated, ModulesDone, ConfigInv, MarkedIsMigrated
<1>2. CASE UNCHANGED <<configFile, marker, bootAt>>
    BY <1>0, <1>2 DEF ConfigInv, MarkedIsMigrated
<1>3. CASE RevertEnds \/ Ends
    BY <1>0, <1>3 DEF RevertEnds, Ends, ProcessEnds, MemoryGone, ConfigInv, MarkedIsMigrated
<1>4. Starts \/ OfModule \/ OfStore \/ OfMigration => UNCHANGED <<configFile, marker, bootAt>>
    BY DEF Starts, InitializeModules, ChainFails, ModuleFails,
           OfModule, CreateDatabase, ReadPending, LoadModels, Connected, RepositoriesMade,
           TryEndpoint, ContractsRead,
           OfStore, CheckHealth, RepositoryExists, CreateRepository, CreationFails, RepositoryGoes,
           OfMigration, Statement, Record, Undo, UpFails, CommitTransaction
<1> QED BY <1>0, <1>1, <1>2, <1>3, <1>4, StepIs

(* After an end all modules are off.                                        *)
LEMMA GoneModules ==
    ASSUME MemoryGone, ServersInv
    PROVE  ModulesInv' /\ ServersInv'
<1>1. \A m \in BootModules : moduleAt'[m] = "off" /\ handlers'[m] = 0
    BY DEF MemoryGone
<1>2. moduleAt'["repository"] = "off" /\ moduleAt'["blockchain"] = "off"
      /\ moduleAt'["tripleStore"] = "off" /\ handlers'["blockchain"] = 0
    BY <1>1 DEF BootModules
<1>3. ModulesInv'
    BY <1>1, <1>2 DEF MemoryGone, ModulesInv, RequiredModules, BootModules
<1>4. \A r \in Repositories : repoAt'[r] = "probe"
    BY DEF MemoryGone
<1> QED BY <1>2, <1>3, <1>4 DEF ServersInv

(* A step of another module leaves what is said of a module.                *)
LEMMA StartsKeeps ==
    ASSUME BootIInv, Starts
    PROVE  ModulesInv' /\ ServersInv'
<1> USE DEF disk, schema, repo, rpc, store
<1>0. /\ ModulesInv /\ ServersInv /\ moduleAt \in [BootModules -> ModuleSteps]
      /\ Len(BootChains) \in Nat \ {0}
    BY BootAssumption DEF BootIInv, FunctionsOK
<1>1. CASE InitializeModules
    <2>1. /\ \A m \in BootModules : moduleAt[m] = "off"
          /\ UNCHANGED <<bootAt, recorded, committing, todo, handlers, ready, there, repoAt>>
          /\ bootAt = "modules"
          /\ moduleAt' = [m \in BootModules |-> IF Valid(m) THEN FirstStep[m] ELSE "failed"]
          /\ \A m \in RequiredModules : Valid(m)
        BY <1>1 DEF Starts, InitializeModules
    <2>2. /\ moduleAt'["repository"] = "database" /\ moduleAt'["blockchain"] = "rpc"
          /\ moduleAt'["tripleStore"] = "connect"
        BY <2>1 DEF RequiredModules, BootModules, FirstStep
    <2>3. \A m \in RequiredModules : moduleAt'[m] # "failed"
        BY <2>2 DEF RequiredModules
    <2>4. moduleAt["repository"] = "off" /\ moduleAt["blockchain"] = "off"
        BY <2>1 DEF BootModules
    <2>5. ModulesInv'
        BY <1>0, <2>1, <2>2, <2>3, <2>4 DEF ModulesInv
    <2> QED BY <1>0, <2>1, <2>2, <2>4, <2>5 DEF ServersInv
<1>2. CASE ChainFails("blockchainEvents")
    <2>1. /\ moduleAt' = [moduleAt EXCEPT !["blockchainEvents"] = "failed"] /\ bootAt = "modules"
          /\ UNCHANGED <<bootAt, recorded, committing, todo, handlers, ready, there, repoAt>>
        BY <1>2 DEF Starts, ChainFails, ModuleFails, ModuleGoes, IsAt
    <2>2. \A m \in RequiredModules : moduleAt'[m] = moduleAt[m]
        BY <1>0, <2>1 DEF RequiredModules, BootModules
    <2>3. ModulesInv'
        BY <1>0, <2>1, <2>2 DEF ModulesInv, RequiredModules
    <2> QED BY <1>0, <2>1, <2>2, <2>3 DEF ServersInv, RequiredModules
<1> QED BY <1>1, <1>2 DEF Starts

LEMMA OfModuleKeeps ==
    ASSUME BootIInv, OfModule
    PROVE  ModulesInv' /\ ServersInv'
<1> USE DEF disk, schema, repo, rpc, store
<1>0. /\ ModulesInv /\ ServersInv /\ moduleAt \in [BootModules -> ModuleSteps]
      /\ handlers \in [BootModules -> Nat] /\ Len(BootChains) \in Nat \ {0}
      /\ recorded \subseteq AllOf /\ there \subseteq Repositories
    BY BootAssumption DEF BootIInv, FunctionsOK, BootTypeOK
<1>1. /\ bootAt = "modules"
      /\ UNCHANGED <<bootAt, recorded, committing, ready, there, repoAt>>
    BY DEF OfModule, CreateDatabase, ReadPending, LoadModels, Connected, RepositoriesMade,
           TryEndpoint, ContractsRead, IsAt
<1>2. CASE CreateDatabase \/ ReadPending \/ LoadModels
    <2>1. PICK s \in {"pending", "up", "done"} : moduleAt' = [moduleAt EXCEPT !["repository"] = s]
        BY <1>2 DEF CreateDatabase, ReadPending, LoadModels, ModuleGoes
    <2>2. /\ moduleAt'["repository"] = s
          /\ \A m \in BootModules : m # "repository" => moduleAt'[m] = moduleAt[m] /\ handlers'[m] = handlers[m]
        BY <1>0, <1>2, <2>1 DEF BootModules, CreateDatabase, ReadPending, LoadModels
    <2>3. ServersInv'
        BY <1>0, <1>1, <2>2 DEF ServersInv, BootModules
    <2>4. CASE CreateDatabase
        BY <1>0, <1>1, <2>2, <2>1, <2>3, <2>4
        DEF CreateDatabase, ModulesInv, ModuleGoes, IsAt, RequiredModules, BootModules
    <2>5. CASE ReadPending
        BY <1>0, <1>1, <2>2, <2>1, <2>3, <2>5
        DEF ReadPending, ModulesInv, ModuleGoes, IsAt, RequiredModules, BootModules
    <2>6. CASE LoadModels
        <3>1. recorded = AllOf
            BY <1>0, <2>6 DEF LoadModels, IsAt, ModulesInv
        <3>2. s = "done" /\ handlers'["repository"] = 1
            BY <1>0, <2>6, <2>1 DEF LoadModels, ModuleGoes, BootModules
        <3> QED BY <1>0, <1>1, <2>2, <2>3, <3>1, <3>2 DEF ModulesInv, RequiredModules, BootModules
    <2> QED BY <1>2, <2>3, <2>4, <2>5, <2>6
<1>3. CASE Connected \/ RepositoriesMade
    <2>1. PICK s \in {"create", "done"} : moduleAt' = [moduleAt EXCEPT !["tripleStore"] = s]
        BY <1>3 DEF Connected, RepositoriesMade, ModuleGoes
    <2>2. /\ moduleAt'["tripleStore"] = s
          /\ \A m \in BootModules : m # "tripleStore" => moduleAt'[m] = moduleAt[m] /\ handlers'[m] = handlers[m]
        BY <1>0, <1>3, <2>1 DEF BootModules, Connected, RepositoriesMade
    <2>3. UNCHANGED todo
        BY <1>3 DEF Connected, RepositoriesMade
    <2>4. ModulesInv'
        BY <1>0, <1>1, <2>2, <2>3 DEF ModulesInv, BootModules, RequiredModules
    <2>5. CASE Connected
        BY <1>0, <1>1, <2>2, <2>1, <2>4, <2>5 DEF Connected, ServersInv, ModuleGoes, IsAt, BootModules
    <2>6. CASE RepositoriesMade
        <3>1. ready = Repositories /\ there = Repositories
            BY <1>0, <2>6 DEF RepositoriesMade, IsAt, ServersInv
        <3>2. handlers'["tripleStore"] = 1
            BY <1>0, <2>6 DEF RepositoriesMade, BootModules
        <3> QED BY <1>0, <1>1, <2>1, <2>2, <2>4, <3>1, <3>2 DEF ServersInv, BootModules
    <2> QED BY <1>3, <2>4, <2>5, <2>6
<1>4. CASE \E m \in RpcModules : TryEndpoint(m)
    <2>1. PICK m \in RpcModules : TryEndpoint(m)
        BY <1>4
    <2>2. /\ moduleAt[m] = "rpc" /\ UNCHANGED <<handlers, todo>>
          /\ moduleAt' = moduleAt \/ moduleAt' = [moduleAt EXCEPT ![m] = "contracts"]
        BY <2>1 DEF TryEndpoint, IsAt, ModuleGoes
    <2>3. /\ moduleAt'["repository"] = moduleAt["repository"]
          /\ moduleAt'["tripleStore"] = moduleAt["tripleStore"]
          /\ moduleAt'["blockchain"] = moduleAt["blockchain"]
                \/ (moduleAt["blockchain"] = "rpc" /\ moduleAt'["blockchain"] = "contracts")
        BY <1>0, <2>2 DEF BootModules, RpcModules
    <2>4. ModulesInv'
        BY <1>0, <1>1, <2>2, <2>3 DEF ModulesInv, RequiredModules
    <2> QED BY <1>0, <1>1, <2>2, <2>3, <2>4 DEF ServersInv
<1>5. CASE \E m \in RpcModules : ContractsRead(m)
    <2>1. PICK m \in RpcModules : ContractsRead(m)
        BY <1>5
    <2>2. /\ moduleAt[m] = "contracts" /\ UNCHANGED todo
          /\ handlers' = [handlers EXCEPT ![m] = @ + 1]
          /\ IF m = "blockchain" /\ handlers'[m] < Len(BootChains)
             THEN moduleAt' = [moduleAt EXCEPT ![m] = "rpc"]
             ELSE moduleAt' = [moduleAt EXCEPT ![m] = "done"]
        BY <2>1 DEF ContractsRead, IsAt, ModuleGoes
    <2>3. /\ moduleAt'["repository"] = moduleAt["repository"]
          /\ moduleAt'["tripleStore"] = moduleAt["tripleStore"]
          /\ handlers'["repository"] = handlers["repository"]
          /\ handlers'["tripleStore"] = handlers["tripleStore"]
        BY <1>0, <2>2 DEF BootModules, RpcModules
    <2>4. CASE m = "blockchain"
        <3>1. handlers'["blockchain"] = handlers["blockchain"] + 1 /\ handlers["blockchain"] < Len(BootChains)
              /\ handlers["blockchain"] \in Nat
            BY <1>0, <2>2, <2>4 DEF ServersInv, BootModules
        <3>2. IF handlers'["blockchain"] < Len(BootChains)
              THEN moduleAt'["blockchain"] = "rpc" ELSE moduleAt'["blockchain"] = "done"
            BY <1>0, <2>2, <2>4 DEF BootModules
        <3>3. handlers'["blockchain"] < Len(BootChains) \/ handlers'["blockchain"] = Len(BootChains)
            BY <1>0, <3>1
        <3>4. ModulesInv'
            BY <1>0, <1>1, <2>2, <2>3, <3>2 DEF ModulesInv, RequiredModules
        <3>5. ServersInv'
            BY <1>0, <1>1, <2>3, <3>2, <3>3 DEF ServersInv
        <3> QED BY <3>4, <3>5
    <2>5. CASE m # "blockchain"
        <3>1. moduleAt'["blockchain"] = moduleAt["blockchain"] /\ handlers'["blockchain"] = handlers["blockchain"]
            BY <1>0, <2>2, <2>5 DEF BootModules
        <3>2. ModulesInv'
            BY <1>0, <1>1, <2>2, <2>3, <3>1 DEF ModulesInv, RequiredModules
        <3> QED BY <1>0, <1>1, <2>3, <3>1, <3>2 DEF ServersInv
    <2> QED BY <2>4, <2>5
<1> QED BY <1>2, <1>3, <1>4, <1>5 DEF OfModule

LEMMA OfStoreKeeps ==
    ASSUME BootIInv, OfStore
    PROVE  ModulesInv' /\ ServersInv'
<1> USE DEF disk, schema, repo, rpc
<1>0. ModulesInv /\ ServersInv /\ BootTypeOK
    BY DEF BootIInv
<1>1. PICK r \in Repositories : \/ (CheckHealth(r) /\ ~ProcessEnds)
                               \/ RepositoryExists(r) \/ CreateRepository(r) \/ CreationFails(r)
    BY DEF OfStore
<1>2. UNCHANGED <<bootAt, recorded, committing, todo, handlers, moduleAt>>
    BY <1>1 DEF CheckHealth, RepositoryExists, CreateRepository, CreationFails, RepositoryGoes
<1>3. ModulesInv'
    BY <1>0, <1>2 DEF ModulesInv
<1>4. CASE CheckHealth(r) /\ ~ProcessEnds
    <2>1. moduleAt["tripleStore"] = "connect" /\ UNCHANGED <<repoAt, there>>
        BY <1>4 DEF CheckHealth, IsAt
    <2> QED BY <1>0, <1>2, <1>3, <2>1 DEF ServersInv
<1>5. CASE RepositoryExists(r) \/ CreateRepository(r) \/ CreationFails(r)
    <2>1. PICK s \in {"absent", "again", "made"} : repoAt' = [repoAt EXCEPT ![r] = s]
        BY <1>5 DEF RepositoryExists, CreateRepository, CreationFails, RepositoryGoes
    <2>2. /\ moduleAt["tripleStore"] = "create" /\ UNCHANGED ready /\ there \subseteq there'
          /\ repoAt'[r] = "made" => r \in there'
        BY <1>0, <1>5, <2>1 DEF RepositoryExists, CreateRepository, CreationFails, RepositoryGoes, IsAt, BootTypeOK
    <2>3. \A q \in Repositories : repoAt'[q] = "made" => q \in there'
        BY <1>0, <2>1, <2>2 DEF ServersInv, BootTypeOK
    <2> QED BY <1>0, <1>2, <1>3, <2>2, <2>3 DEF ServersInv
<1> QED BY <1>1, <1>4, <1>5

LEMMA OfMigrationKeeps ==
    ASSUME BootIInv, OfMigration
    PROVE  ModulesInv' /\ ServersInv'
<1> USE DEF disk, schema, rpc, store
<1>0. /\ ModulesInv /\ ServersInv /\ moduleAt \in [BootModules -> ModuleSteps]
      /\ recorded \subseteq AllOf
    BY DEF BootIInv, FunctionsOK, BootTypeOK
<1>1. UNCHANGED <<bootAt, handlers, ready, there, repoAt>>
    BY DEF OfMigration, Statement, Record, Undo, UpFails, CommitTransaction
<1>2. CASE \E m \in AllOf : CommitTransaction(m)
    <2>1. /\ UNCHANGED <<moduleAt, recorded, todo>> /\ committing' \subseteq committing
        BY <1>2 DEF CommitTransaction
    <2> QED BY <1>0, <1>1, <2>1 DEF ModulesInv, ServersInv
<1>3. CASE Statement \/ Record
    <2>1. /\ UNCHANGED moduleAt /\ moduleAt["repository"] = "up"
          /\ \/ recorded' = recorded \cup {NextPending} /\ todo' = todo \ {NextPending}
             \/ UNCHANGED <<recorded, todo>>
        BY <1>3 DEF Statement, Record, Running, IsAt
    <2>2. todo' = AllOf \ recorded'
        BY <1>0, <2>1 DEF ModulesInv
    <2> QED BY <1>0, <1>1, <2>1, <2>2 DEF ModulesInv, ServersInv
<1>4. CASE Undo \/ (UpFails /\ ~ProcessEnds)
    <2>1. /\ moduleAt["repository"] \in {"pending", "up", "down"} /\ bootAt = "modules"
          /\ UNCHANGED <<recorded, todo, committing>>
        BY <1>4 DEF Undo, UpFails, IsAt, repo
    <2>2. PICK s \in {"down", "unrecord"} : moduleAt' = [moduleAt EXCEPT !["repository"] = s]
        BY <1>4 DEF Undo, UpFails, ModuleGoes
    <2>3. /\ moduleAt'["repository"] = s
          /\ \A m \in BootModules : m # "repository" => moduleAt'[m] = moduleAt[m]
        BY <1>0, <2>2 DEF BootModules
    <2>4. ModulesInv'
        BY <1>0, <1>1, <2>1, <2>3 DEF ModulesInv, RequiredModules, BootModules
    <2> QED BY <1>0, <1>1, <2>3, <2>4 DEF ServersInv, BootModules
<1> QED BY <1>2, <1>3, <1>4 DEF OfMigration

LEMMA PrologueKeeps ==
    ASSUME BootIInv, Prologue
    PROVE  ModulesInv' /\ ServersInv'
<1> USE DEF disk, schema, repo, rpc, store
<1>0. ModulesInv /\ ServersInv
    BY DEF BootIInv
<1>1. UNCHANGED <<recorded, committing, todo, handlers, moduleAt, ready, there, repoAt>>
    BY DEF Prologue, BootStarts, ReadUserConfiguration, WriteUserConfiguration, MarkMigrated, ModulesDone
<1>2. ServersInv'
    BY <1>0, <1>1 DEF ServersInv
<1>3. \/ bootAt \notin {"modules", "booted"} /\ bootAt' # "booted"
      \/ bootAt' = "booted" /\ \A m \in BootModules : moduleAt[m] \in {"done", "failed"}
    BY DEF Prologue, BootStarts, ReadUserConfiguration, WriteUserConfiguration, MarkMigrated, ModulesDone
<1> QED BY <1>0, <1>1, <1>2, <1>3 DEF ModulesInv

LEMMA ModulesKeep ==
    ASSUME BootIInv, BootNext
    PROVE  ModulesInv' /\ ServersInv'
<1>1. CASE RevertEnds \/ Ends
    BY <1>1, GoneModules DEF RevertEnds, Ends, ProcessEnds, BootIInv
<1> QED BY <1>1, StepIs, PrologueKeeps, StartsKeeps, OfModuleKeeps, OfStoreKeeps, OfMigrationKeeps
        DEF BootIInv, BootTypes

-----------------------------------------------------------------------------
(* The database                                                            *)

SchemaInv == InOrder /\ RecordIsSchema /\ WorkInv

(* Steps elsewhere.                                                        *)
LEMMA SchemaStays ==
    ASSUME SchemaInv, UNCHANGED <<recorded, applied, torn, todo, at, committing>>,
           AtWork' = AtWork, Running' => Running,
           \/ moduleAt'["repository"] = moduleAt["repository"]
           \/ moduleAt'["repository"] \notin {"down", "unrecord"}
    PROVE  SchemaInv'
<1>1. NextPending' = NextPending /\ LastRecorded' = LastRecorded
    BY DEF NextPending, LastRecorded
<1>2. \A m \in AllOf : Whole(m)' <=> Whole(m)
    BY DEF Whole
<1>3. InOrder' /\ RecordIsSchema'
    BY <1>2 DEF SchemaInv, InOrder, RecordIsSchema
<1>4. WorkInv'
    BY <1>1 DEF SchemaInv, WorkInv
<1> QED BY <1>3, <1>4 DEF SchemaInv

(* An end, after which nothing is at work: what it fell into is torn.       *)
LEMMA EndKeepsSchema ==
    ASSUME BootIInv, ProcessEnds
    PROVE  SchemaInv'
<1>0. SchemaInv /\ UNCHANGED <<recorded, applied>> /\ moduleAt'["repository"] = "off"
      /\ bootAt' = "off" /\ committing' = {}
      /\ torn' = torn \cup {m \in AtWork \cup committing : ~Whole(m)}
    BY DEF BootIInv, SchemaInv, ProcessEnds, MemoryGone, BootModules
<1>1. \A m \in AllOf : Whole(m)' <=> Whole(m)
    BY <1>0 DEF Whole
<1>2. AtWork' = {} /\ ~Running'
    BY <1>0 DEF AtWork, Running, IsAt
<1>3. InOrder'
    BY <1>0 DEF SchemaInv, InOrder
<1>4. RecordIsSchema'
    BY <1>0, <1>1, <1>2 DEF SchemaInv, RecordIsSchema
<1> QED BY <1>0, <1>2, <1>3, <1>4 DEF SchemaInv, WorkInv

(* The migration that was recorded last is taken back.                      *)
LEMMA RevertEndsKeepsSchema ==
    ASSUME BootIInv, RevertEnds
    PROVE  SchemaInv'
<1>0. /\ SchemaInv /\ UNCHANGED applied /\ moduleAt'["repository"] = "off"
      /\ bootAt' = "off" /\ committing' = {} /\ moduleAt["repository"] = "unrecord" /\ bootAt = "modules"
      /\ torn' = torn \cup {m \in committing : ~Whole(m)}
      /\ recorded' = recorded \ {LastRecorded}
    BY DEF BootIInv, SchemaInv, RevertEnds, MemoryGone, BootModules, IsAt
<1>1. PICK k \in 0..Len(Migrations) : recorded = 1..k
    BY <1>0 DEF SchemaInv, InOrder
<1>2. k \in Nat /\ recorded # {}
    BY <1>0, MigrationsAre DEF SchemaInv, WorkInv
<1>3. k # 0 /\ LastRecorded = k
    BY <1>1, <1>2, LastIs
<1>4. InOrder'
    <2>1. recorded' = 1..(k - 1) /\ k - 1 \in 0..Len(Migrations)
        BY <1>0, <1>1, <1>2, <1>3, MigrationsAre
    <2> QED BY <2>1 DEF InOrder
<1>5. AtWork = {LastRecorded} /\ AtWork' = {} /\ ~Running'
    BY <1>0 DEF AtWork, Running, IsAt
<1>6. \A m \in AllOf : m # LastRecorded => (Whole(m)' <=> Whole(m))
    BY <1>0 DEF Whole
<1>7. k \in torn \/ (Whole(k)' /\ k \notin committing)
    <2>1. LastRecorded \in torn \/ (applied[LastRecorded] = {} /\ LastRecorded \notin committing)
        BY <1>0 DEF SchemaInv, WorkInv
    <2>2. k \notin recorded'
        BY <1>0, <1>3
    <2> QED BY <1>0, <1>3, <2>1, <2>2 DEF Whole
<1>8. RecordIsSchema'
    BY <1>0, <1>3, <1>5, <1>6, <1>7 DEF SchemaInv, RecordIsSchema
<1> QED BY <1>0, <1>4, <1>5, <1>8 DEF SchemaInv, WorkInv

(* A statement is made, or a transaction goes on to its commit.             *)
LEMMA StatementKeepsSchema ==
    ASSUME BootIInv, Statement
    PROVE  SchemaInv'
<1> USE DEF disk, rpc, store
<1>0. /\ SchemaInv /\ Running /\ at \in Statements(NextPending) /\ at' = at + 1
      /\ UNCHANGED <<recorded, torn, bootAt, moduleAt, todo>>
      /\ applied \in [AllOf -> SUBSET (1..2)] /\ todo = AllOf \ recorded
      /\ moduleAt["repository"] = "up"
    BY DEF BootIInv, SchemaInv, Statement, ModulesInv, Running, IsAt, FunctionsOK
<1>1. PICK k \in 0..Len(Migrations) : recorded = 1..k
    BY <1>0 DEF SchemaInv, InOrder
<1> DEFINE m == NextPending
<1>2. m \in AllOf /\ m \in todo
    BY <1>0, <1>1, NextIs DEF Running
<1>3. NextPending' = m /\ AtWork = {m} /\ AtWork' = {m}
    BY <1>0 DEF NextPending, AtWork, Running, IsAt
<1>4. CASE Migrations[m] = "transaction"
    <2>1. UNCHANGED applied /\ committing' = committing \cup {m} /\ at = 1 /\ at' = 2
        BY <1>0, <1>2, <1>4, StatementsAre DEF Statement
    <2>2. \A x \in AllOf : Whole(x)' <=> Whole(x)
        BY <1>0, <2>1 DEF Whole
    <2>3. RecordIsSchema' /\ InOrder'
        BY <1>0, <1>3, <2>1, <2>2 DEF SchemaInv, RecordIsSchema, InOrder
    <2> QED BY <1>0, <1>3, <1>4, <2>1, <2>3 DEF SchemaInv, WorkInv, Running, IsAt
<1>5. CASE Migrations[m] # "transaction"
    <2>1. applied' = [applied EXCEPT ![m] = @ \cup {at}] /\ UNCHANGED committing
        BY <1>5 DEF Statement
    <2>2. \A x \in AllOf : x # m => (Whole(x)' <=> Whole(x))
        BY <1>0, <2>1 DEF Whole
    <2>3. RecordIsSchema' /\ InOrder'
        BY <1>0, <1>3, <2>1, <2>2 DEF SchemaInv, RecordIsSchema, InOrder
    <2>4. 1..(at' - 1) \subseteq applied'[m]
        <3>1. at \in 1..2 /\ 1..(at - 1) \subseteq applied[m]
            BY <1>0, <1>2, <1>5, StatementsAre DEF SchemaInv, WorkInv
        <3>2. applied'[m] = applied[m] \cup {at}
            BY <1>0, <1>2, <2>1
        <3> QED BY <1>0, <3>1, <3>2
    <2> QED BY <1>0, <1>3, <1>5, <2>1, <2>3, <2>4 DEF SchemaInv, WorkInv
<1> QED BY <1>4, <1>5

(* A commit makes a migration whole that is recorded, and leaves one that   *)
(* is at work or torn.                                                     *)
LEMMA CommitKeepsSchema ==
    ASSUME BootIInv, NEW m \in AllOf, CommitTransaction(m)
    PROVE  SchemaInv'
<1> USE DEF disk, rpc, store
<1>0. /\ SchemaInv /\ m \in committing /\ committing' = committing \ {m}
      /\ applied' = [applied EXCEPT ![m] = Statements(m)]
      /\ UNCHANGED <<recorded, torn, bootAt, moduleAt, todo, at>>
      /\ applied \in [AllOf -> SUBSET (1..2)]
    BY DEF BootIInv, SchemaInv, CommitTransaction, FunctionsOK
<1>1. /\ NextPending' = NextPending /\ LastRecorded' = LastRecorded /\ AtWork' = AtWork
      /\ (Running' <=> Running)
    BY <1>0 DEF NextPending, LastRecorded, AtWork, Running, IsAt
<1>2. Migrations[m] = "transaction" /\ (m \in recorded \/ m \in AtWork \/ m \in torn)
    BY <1>0 DEF SchemaInv, WorkInv
<1>3. Statements(m) = {1} /\ applied'[m] = {1}
    BY <1>0, <1>2, StatementsAre
<1>4. \A x \in AllOf : x # m => applied'[x] = applied[x] /\ (Whole(x)' <=> Whole(x))
    BY <1>0 DEF Whole
<1>5. m \in recorded => Whole(m)'
    BY <1>0, <1>3 DEF Whole
<1>6. RecordIsSchema'
    BY <1>0, <1>1, <1>2, <1>4, <1>5 DEF SchemaInv, RecordIsSchema
<1>7. InOrder'
    BY <1>0 DEF SchemaInv, InOrder
<1>8. WorkInv'
    <2>1. Running => NextPending \in AllOf
        <3>1. PICK k \in 0..Len(Migrations) : recorded = 1..k
            BY <1>0 DEF SchemaInv, InOrder
        <3> QED BY <3>1, NextIs DEF BootIInv, ModulesInv, Running, IsAt
    <2>2. Running =>
             IF Migrations[NextPending] = "transaction"
             THEN at \in {1, 2} /\ (at = 2 => NextPending \in committing' \/ applied'[NextPending] = {1})
             ELSE 1..(at - 1) \subseteq applied'[NextPending]
        BY <1>0, <1>2, <1>3, <1>4, <2>1 DEF SchemaInv, WorkInv
    <2>3. \A x \in committing' :
             Migrations[x] = "transaction" /\ (x \in recorded \/ x \in AtWork \/ x \in torn)
        BY <1>0 DEF SchemaInv, WorkInv
    <2>4. recorded # {} => LastRecorded \in AllOf
        <3>1. recorded # {} => LastRecorded \in recorded
            BY WorkIsMigration DEF BootIInv, BootTypes
        <3> QED BY <3>1 DEF BootIInv, BootTypeOK
    <2>5. moduleAt["repository"] = "down" /\ Migrations[LastRecorded] \in {"alter", "indexes"} =>
             applied'[LastRecorded] \cap 1..(at - 1) = {}
        BY <1>0, <1>2, <1>4, <2>4 DEF SchemaInv, WorkInv
    <2>6. moduleAt["repository"] = "unrecord" =>
             LastRecorded \in torn \/ (applied'[LastRecorded] = {} /\ LastRecorded \notin committing')
        BY <1>0, <1>4, <2>4 DEF SchemaInv, WorkInv
    <2> QED BY <1>0, <1>1, <2>2, <2>3, <2>5, <2>6 DEF SchemaInv, WorkInv
<1> QED BY <1>6, <1>7, <1>8 DEF SchemaInv

(* The migration that is through is recorded; the one after it comes next.  *)
LEMMA RecordKeepsSchema ==
    ASSUME BootIInv, Record
    PROVE  SchemaInv'
<1> USE DEF disk, rpc, store
<1> DEFINE m == NextPending
<1>0. /\ SchemaInv /\ Running /\ at \notin Statements(m) /\ at' = 1 /\ at \in 1..3
      /\ recorded' = recorded \cup {m} /\ todo' = todo \ {m}
      /\ UNCHANGED <<applied, torn, bootAt, moduleAt, committing>>
      /\ todo = AllOf \ recorded /\ moduleAt["repository"] = "up"
      /\ \A x \in AllOf : applied[x] \subseteq Statements(x)
    BY DEF BootIInv, SchemaInv, Record, ModulesInv, Running, IsAt, BootTypeOK
<1>1. PICK k \in 0..Len(Migrations) : recorded = 1..k
    BY <1>0 DEF SchemaInv, InOrder
<1>2. /\ m \in AllOf /\ m \in todo /\ k + 1 \in AllOf /\ recorded \cup {m} = 1..(k + 1)
    BY <1>0, <1>1, NextIs DEF Running
<1>3. InOrder'
    <2>1. recorded' = 1..(k + 1) /\ k + 1 \in 0..Len(Migrations)
        BY <1>0, <1>2, MigrationsAre
    <2> QED BY <2>1 DEF InOrder
<1>4. AtWork = {m}
    BY <1>0 DEF AtWork, Running, IsAt
<1>5. m \in committing \/ applied[m] = Statements(m)
    <2>1. CASE Migrations[m] = "transaction"
        <3>1. Statements(m) = {1}
            BY <1>2, <2>1, StatementsAre
        <3> QED BY <1>0, <2>1, <3>1 DEF SchemaInv, WorkInv
    <2>2. CASE Migrations[m] # "transaction"
        <3>1. Statements(m) = {1, 2}
            BY <1>2, <2>2, StatementsAre
        <3>2. at = 3 /\ 1..(at - 1) \subseteq applied[m]
            BY <1>0, <2>2, <3>1 DEF SchemaInv, WorkInv
        <3>3. {1, 2} \subseteq applied[m]
            BY <3>2
        <3> QED BY <1>0, <1>2, <3>1, <3>3
    <2> QED BY <2>1, <2>2
<1>6. \A x \in AllOf : x # m => (Whole(x)' <=> Whole(x))
    BY <1>0 DEF Whole
<1>7. \A x \in AllOf : x = m => x \in committing \/ Whole(x)'
    BY <1>0, <1>5 DEF Whole
<1>8. RecordIsSchema'
    BY <1>0, <1>4, <1>6, <1>7 DEF SchemaInv, RecordIsSchema
<1>9. WorkInv'
    <2>1. \A x \in committing : Migrations[x] = "transaction" /\ (x \in recorded' \/ x \in torn)
        BY <1>0, <1>4 DEF SchemaInv, WorkInv
    <2>2. 1..(at' - 1) = {}
        BY <1>0
    <2> QED BY <1>0, <2>1, <2>2 DEF WorkInv
<1> QED BY <1>3, <1>8, <1>9 DEF SchemaInv

(* up() failed: what it was at is torn, unless nothing or all of it is      *)
(* there, and what was recorded last is to be undone.                      *)
LEMMA UpFailsKeepsSchema ==
    ASSUME BootIInv, UpFails, ~ProcessEnds
    PROVE  SchemaInv'
<1> USE DEF disk, rpc, store
<1>0. /\ SchemaInv /\ recorded # {} /\ bootAt = "modules" /\ at' = 1
      /\ moduleAt["repository"] \in {"pending", "up"} /\ moduleAt'["repository"] = "down"
      /\ torn' = torn \cup {m \in AtWork : ~Whole(m) \/ m \in committing}
      /\ UNCHANGED <<recorded, applied, bootAt, todo, committing>>
    BY DEF BootIInv, SchemaInv, UpFails, ModuleGoes, FunctionsOK, BootModules
<1>1. LastRecorded' = LastRecorded
    BY <1>0 DEF LastRecorded
<1>2. AtWork' = {LastRecorded} /\ ~Running'
    BY <1>0, <1>1 DEF AtWork, Running, IsAt
<1>3. \A m \in AllOf : Whole(m)' <=> Whole(m)
    BY <1>0 DEF Whole
<1>4. RecordIsSchema'
    BY <1>0, <1>3 DEF SchemaInv, RecordIsSchema
<1>5. InOrder'
    BY <1>0 DEF SchemaInv, InOrder
<1>6. 1..(at' - 1) = {}
    BY <1>0
<1>7. \A x \in committing : Migrations[x] = "transaction" /\ (x \in recorded \/ x \in torn')
    BY <1>0 DEF SchemaInv, WorkInv
<1>8. WorkInv'
    BY <1>0, <1>1, <1>2, <1>6, <1>7 DEF WorkInv
<1> QED BY <1>4, <1>5, <1>8 DEF SchemaInv

(* down(): the last migration is undone, statement by statement or at once. *)
LEMMA UndoKeepsSchema ==
    ASSUME BootIInv, Undo
    PROVE  SchemaInv'
<1> USE DEF disk, rpc, store
<1> DEFINE m == LastRecorded
<1>0. /\ SchemaInv /\ recorded # {} /\ bootAt = "modules" /\ moduleAt["repository"] = "down"
      /\ moduleAt'["repository"] \in {"down", "unrecord"}
      /\ UNCHANGED <<recorded, bootAt, todo, committing>>
      /\ applied \in [AllOf -> SUBSET (1..2)] /\ at \in 1..3
    <2>1. PICK s \in {"down", "unrecord"} : moduleAt' = [moduleAt EXCEPT !["repository"] = s]
        BY DEF Undo, ModuleGoes
    <2> QED BY <2>1 DEF BootIInv, SchemaInv, WorkInv, Undo, IsAt, FunctionsOK, BootModules, BootTypeOK, repo
<1>1. LastRecorded' = m
    BY <1>0 DEF LastRecorded
<1>2. AtWork = {m} /\ AtWork' = {m} /\ ~Running'
    BY <1>0, <1>1 DEF AtWork, Running, IsAt
<1>3. m \in AllOf
    <2>1. m \in recorded
        BY <1>0, WorkIsMigration DEF BootIInv, BootTypes
    <2> QED BY <2>1 DEF BootIInv, BootTypeOK
<1>4. torn \subseteq torn' /\ \A x \in AllOf : x # m => applied'[x] = applied[x]
    BY <1>0 DEF Undo
<1>5. \A x \in AllOf : x # m => (Whole(x)' <=> Whole(x))
    BY <1>0, <1>4 DEF Whole
<1>6. RecordIsSchema'
    BY <1>0, <1>2, <1>4, <1>5 DEF SchemaInv, RecordIsSchema
<1>7. InOrder'
    BY <1>0 DEF SchemaInv, InOrder
<1>8. \A x \in committing : Migrations[x] = "transaction" /\ (x \in recorded \/ x \in AtWork' \/ x \in torn')
    BY <1>0, <1>2, <1>4 DEF SchemaInv, WorkInv
<1>9. /\ moduleAt'["repository"] = "down" /\ Migrations[m] \in {"alter", "indexes"} =>
            applied'[m] \cap 1..(at' - 1) = {}
      /\ moduleAt'["repository"] = "unrecord" => m \in torn' \/ (applied'[m] = {} /\ m \notin committing)
    <2>1. CASE Migrations[m] = "create"
        <3>1. applied'[m] = {} /\ m \notin committing
            BY <1>0, <1>3, <2>1 DEF Undo, SchemaInv, WorkInv
        <3> QED BY <3>1
    <2>2. CASE Migrations[m] = "transaction"
        <3>1. m \in torn' \/ (applied'[m] = {} /\ m \notin committing)
            BY <1>0, <1>3, <2>2 DEF Undo
        <3> QED BY <2>2, <3>1
    <2>3. CASE Migrations[m] \in {"alter", "indexes"}
        <3>1. /\ at \in applied[m] /\ applied' = [applied EXCEPT ![m] = @ \ {at}] /\ at' = at + 1
              /\ moduleAt' = [moduleAt EXCEPT !["repository"] =
                                 IF at' \in Statements(m) THEN "down" ELSE "unrecord"]
            BY <2>3 DEF Undo, ModuleGoes
        <3>2. Statements(m) = {1, 2} /\ at \in 1..2 /\ m \notin committing
            BY <1>0, <1>3, <2>3, <3>1, StatementsAre DEF SchemaInv, WorkInv
        <3>3. applied[m] \cap 1..(at - 1) = {} /\ applied'[m] = applied[m] \ {at}
            BY <1>0, <1>3, <2>3, <3>1 DEF SchemaInv, WorkInv
        <3>4. applied'[m] \cap 1..(at' - 1) = {} /\ applied'[m] \subseteq 1..2
            <4>1. applied[m] \subseteq 1..2
                BY <1>0, <1>3
            <4>2. at' - 1 = at /\ 1..at = 1..(at - 1) \cup {at}
                BY <3>1, <3>2
            <4> QED BY <3>3, <4>1, <4>2
        <3>5. moduleAt'["repository"] = IF at' \in {1, 2} THEN "down" ELSE "unrecord"
            BY <3>1, <3>2 DEF BootIInv, FunctionsOK, BootModules
        <3>6. CASE at' = 2
            BY <3>4, <3>5, <3>6
        <3>7. CASE at' = 3
            <4>1. applied'[m] = {}
                BY <3>4, <3>7
            <4> QED BY <3>2, <3>4, <4>1
        <3> QED BY <3>1, <3>2, <3>4, <3>5, <3>6, <3>7
    <2> QED BY <1>3, <2>1, <2>2, <2>3, MigrationsAre DEF MigrationKinds
<1>10. WorkInv'
    BY <1>0, <1>1, <1>2, <1>8, <1>9 DEF WorkInv
<1> QED BY <1>6, <1>7, <1>10 DEF SchemaInv

(* The rest leaves the database alone.                                     *)
LEMMA OtherKeepsSchema ==
    ASSUME BootIInv, Prologue \/ Starts \/ OfModule \/ OfStore
    PROVE  SchemaInv'
<1> USE DEF disk, schema, repo, rpc, store
<1>0. /\ SchemaInv /\ ModulesInv /\ moduleAt \in [BootModules -> ModuleSteps]
      /\ UNCHANGED <<recorded, applied, torn, committing>>
    BY DEF BootIInv, SchemaInv, FunctionsOK, Prologue, BootStarts, ReadUserConfiguration,
           WriteUserConfiguration, MarkMigrated, ModulesDone,
           Starts, InitializeModules, ChainFails, ModuleFails,
           OfModule, CreateDatabase, ReadPending, LoadModels, Connected, RepositoriesMade,
           TryEndpoint, ContractsRead,
           OfStore, CheckHealth, RepositoryExists, CreateRepository, CreationFails, RepositoryGoes
<1>1. CASE ReadPending
    <2>1. /\ moduleAt["repository"] = "pending" /\ moduleAt'["repository"] = "up" /\ at' = 1
          /\ bootAt = "modules" /\ bootAt' = "modules"
        BY <1>0, <1>1 DEF ReadPending, IsAt, ModuleGoes, BootModules
    <2>2. AtWork = {} /\ committing = {}
        BY <1>0, <2>1 DEF AtWork, ModulesInv
    <2>3. \A m \in AllOf : Whole(m)' <=> Whole(m)
        BY <1>0 DEF Whole
    <2>4. RecordIsSchema' /\ InOrder'
        BY <1>0, <2>2, <2>3 DEF SchemaInv, RecordIsSchema, InOrder
    <2>5. 1..(at' - 1) = {} /\ committing' = {}
        BY <1>0, <2>1, <2>2
    <2> QED BY <2>1, <2>4, <2>5 DEF SchemaInv, WorkInv
<1>2. CASE Prologue
    <2>1. /\ UNCHANGED <<todo, at, moduleAt>>
          /\ \/ bootAt \notin {"modules", "booted"}
             \/ bootAt' = "booted" /\ moduleAt["repository"] \in {"done", "failed"}
        BY <1>2 DEF Prologue, BootStarts, ReadUserConfiguration, WriteUserConfiguration,
                    MarkMigrated, ModulesDone, BootModules
    <2>2. bootAt \notin {"modules", "booted"} => moduleAt["repository"] = "off"
        BY <1>0 DEF ModulesInv, BootModules
    <2>3. AtWork = {} /\ AtWork' = {} /\ ~Running'
        BY <2>1, <2>2 DEF AtWork, Running, IsAt
    <2> QED BY <1>0, <2>1, <2>3, SchemaStays
<1>3. CASE (Starts \/ OfModule \/ OfStore) /\ ~ReadPending
    <2>1. UNCHANGED <<todo, at, bootAt>>
        BY <1>3 DEF Starts, InitializeModules, ChainFails, ModuleFails,
           OfModule, CreateDatabase, LoadModels, Connected, RepositoriesMade,
           TryEndpoint, ContractsRead,
           OfStore, CheckHealth, RepositoryExists, CreateRepository, CreationFails, RepositoryGoes
    <2>2. \/ UNCHANGED moduleAt
          \/ /\ moduleAt["repository"] \in {"off", "database"} \/ (moduleAt["repository"] = "up" /\ todo = {})
             /\ moduleAt'["repository"] \in {"database", "pending", "done"}
          \/ moduleAt'["repository"] = moduleAt["repository"]
        <3>1. CASE InitializeModules /\ ~ProcessEnds
            BY <3>1 DEF InitializeModules, FirstStep, BootModules, RequiredModules
        <3>2. CASE CreateDatabase \/ LoadModels
            BY <1>0, <3>2 DEF CreateDatabase, LoadModels, ModuleGoes, IsAt, BootModules
        <3>3. CASE Connected \/ RepositoriesMade \/ (ChainFails("blockchainEvents") /\ ~ProcessEnds)
            BY <1>0, <3>3 DEF Connected, RepositoriesMade, ChainFails, ModuleFails, ModuleGoes, BootModules
        <3>4. CASE \E m \in RpcModules : TryEndpoint(m) \/ ContractsRead(m)
            <4>1. PICK m \in RpcModules : TryEndpoint(m) \/ ContractsRead(m)
                BY <3>4
            <4>2. UNCHANGED moduleAt \/ \E s : moduleAt' = [moduleAt EXCEPT ![m] = s]
                BY <4>1 DEF TryEndpoint, ContractsRead, ModuleGoes
            <4> QED BY <1>0, <4>2 DEF RpcModules, BootModules
        <3>5. CASE OfStore
            BY <3>5 DEF OfStore, CheckHealth, RepositoryExists, CreateRepository, CreationFails, RepositoryGoes
        <3> QED BY <1>3, <3>1, <3>2, <3>3, <3>4, <3>5 DEF Starts, OfModule
    <2>3. NextPending' = NextPending /\ LastRecorded' = LastRecorded
        BY <1>0, <2>1 DEF NextPending, LastRecorded
    <2>4. AtWork' = AtWork /\ (Running' => Running)
        BY <2>1, <2>2, <2>3 DEF AtWork, Running, IsAt
    <2> QED BY <1>0, <2>1, <2>2, <2>4, SchemaStays
<1> QED BY <1>1, <1>2, <1>3

LEMMA SchemaKeeps ==
    ASSUME BootIInv, BootNext
    PROVE  SchemaInv'
<1>1. CASE OfMigration
    BY <1>1, StatementKeepsSchema, RecordKeepsSchema, UndoKeepsSchema, UpFailsKeepsSchema,
       CommitKeepsSchema DEF OfMigration
<1> QED BY <1>1, StepIs, OtherKeepsSchema, RevertEndsKeepsSchema, EndKeepsSchema
        DEF Ends, BootIInv, BootTypes

-----------------------------------------------------------------------------
(* What a boot leaves behind                                               *)

LEMMA InitKeeps == BootInit => BootIInv
<1> SUFFICES ASSUME BootInit PROVE BootIInv
    OBVIOUS
<1> USE DEF BootInit
<1>1. PICK k \in 0..Len(Migrations) : recorded = 1..k
    OBVIOUS
<1>2. \A m \in AllOf : applied[m] \subseteq Statements(m) /\ Statements(m) \subseteq 1..2 /\ Whole(m)
    BY StatementsAre DEF Whole
<1>3. 0 \in 0..Endpoints /\ 0 \in 0..0 /\ 0 \in 0..TripleStoreRetries /\ 0 \in 0..Len(BootChains)
      /\ 0 \in 0..MaxBootFaults
    BY BootAssumption
<1>4. recorded \subseteq AllOf
    BY <1>1, MigrationsAre
<1>5. FunctionsOK
    <2>1. applied \in [AllOf -> SUBSET (1..2)]
        BY <1>2
    <2> QED BY <2>1 DEF FunctionsOK, RpcModules, ModuleSteps
<1>6. \A m \in DOMAIN tried : tried[m] \in 0..Endpoints /\ good[m] \in 0..tried[m]
    BY <1>3
<1>7. handlers["blockchain"] = 0 /\ \A m \in BootModules : moduleAt[m] = "off"
    BY DEF BootModules
<1>8. BootTypeOK
    <2>1. retries \in [Repositories -> 0..TripleStoreRetries]
        BY <1>3
    <2>2. at \in 1..3 /\ handlers["blockchain"] \in 0..Len(BootChains)
        BY <1>3, <1>7
    <2> QED BY <1>2, <1>3, <1>4, <1>6, <2>1, <2>2 DEF BootTypeOK
<1>9. ConfigInv
    BY DEF ConfigInv, MarkedIsMigrated
<1>10. /\ moduleAt["repository"] = "off" /\ moduleAt["blockchain"] = "off" /\ moduleAt["tripleStore"] = "off"
    BY <1>7 DEF BootModules
<1>11. ModulesInv
    BY <1>7, <1>10 DEF ModulesInv, RequiredModules, BootModules
<1>12. ServersInv
    BY <1>7, <1>10 DEF ServersInv
<1>13. AtWork = {} /\ ~Running
    BY DEF AtWork, Running, IsAt
<1>14. WorkInv
    BY <1>10, <1>13 DEF WorkInv
<1>15. InOrder /\ RecordIsSchema
    BY <1>1, <1>2 DEF InOrder, RecordIsSchema
<1> QED BY <1>5, <1>8, <1>9, <1>11, <1>12, <1>14, <1>15 DEF BootIInv

LEMMA BootStays == BootIInv /\ [BootNext]_bootVars => BootIInv'
<1> SUFFICES ASSUME BootIInv, [BootNext]_bootVars PROVE BootIInv'
    OBVIOUS
<1>1. CASE BootNext
    BY <1>1, TypesKeep, ConfigKeeps, ModulesKeep, SchemaKeeps DEF BootIInv, BootTypes, SchemaInv
<1>2. CASE UNCHANGED bootVars
    <2>1. UNCHANGED <<configFile, marker, recorded, applied, torn, bootAt, dkgKnown, moduleAt, handlers,
                      todo, at, committing, tried, good, retries, ready, repoAt, there, bootFaults>>
        BY <1>2 DEF bootVars, disk, schema, repo, rpc, store
    <2>2. BootTypeOK' /\ FunctionsOK' /\ ConfigInv' /\ ModulesInv' /\ ServersInv'
        BY <2>1 DEF BootIInv, BootTypeOK, FunctionsOK, ConfigInv, MarkedIsMigrated, ModulesInv, ServersInv
    <2>3. AtWork' = AtWork /\ (Running' => Running)
        BY <2>1 DEF AtWork, Running, IsAt, NextPending, LastRecorded
    <2>4. SchemaInv'
        BY <2>1, <2>3, SchemaStays DEF BootIInv, SchemaInv
    <2> QED BY <2>2, <2>4 DEF BootIInv, SchemaInv
<1> QED BY <1>1, <1>2

LEMMA BootIsRight == BootIInv => BootInv
<1> SUFFICES ASSUME BootIInv PROVE BootInv
    OBVIOUS
<1>0. ModulesInv /\ ServersInv /\ RecordIsSchema /\ MarkedIsMigrated /\ BootTypeOK
    BY DEF BootIInv, ConfigInv
<1>1. PICK k \in 0..Len(Migrations) : recorded = 1..k
    BY DEF BootIInv, InOrder
<1>2. NoneSkipped
    <2>1. k \in Nat
        BY MigrationsAre
    <2>2. Cardinality(1..k) = k
        BY <2>1, FS_Interval
    <2> QED BY <1>1, <2>2 DEF NoneSkipped
<1>3. BootedIsWhole
    <2> SUFFICES ASSUME bootAt = "booted"
                 PROVE  /\ recorded = AllOf /\ \A m \in AllOf \ (torn \cup committing) : Whole(m)
                        /\ handlers["blockchain"] = Len(BootChains)
                        /\ handlers["repository"] = 1 /\ handlers["tripleStore"] = 1
                        /\ ready = Repositories /\ there = Repositories
        BY DEF BootedIsWhole
    <2>1. /\ moduleAt["repository"] = "done" /\ moduleAt["blockchain"] = "done"
          /\ moduleAt["tripleStore"] = "done"
        BY <1>0 DEF ModulesInv, RequiredModules, BootModules
    <2>2. AtWork = {}
        BY DEF AtWork
    <2> QED BY <1>0, <2>1, <2>2 DEF ModulesInv, ServersInv, RecordIsSchema
<1> QED BY <1>0, <1>2, <1>3 DEF BootInv

(* The variables of a boot keep their types, however often it fails.        *)
THEOREM BootTypeCorrect == BootSpec => []BootTypeOK
<1>1. BootIInv => BootTypeOK
    BY DEF BootIInv
<1> QED BY InitKeeps, BootStays, <1>1, PTL DEF BootSpec

(* Wherever the process ends or fails, the names umzug keeps are those of   *)
(* what the schema has, without a gap, a booted node is whole, and a        *)
(* configuration that is marked as migrated is.                            *)
THEOREM BootCorrect == BootSpec => []BootInv
BY InitKeeps, BootStays, BootIsRight, PTL DEF BootSpec

-----------------------------------------------------------------------------
(* The start of a node.                                                    *)

Alive == stage # "off"
Early == stage \in {"key", "save", "modules", "events", "sharding", "paranets"}
Keyed == Alive /\ stage \notin {"key", "save"}
AllWallets(c) == [w \in 1..WalletsOf[c] |-> w]

StartupTypes ==
    /\ DOMAIN identityOf = StartChains /\ DOMAIN wallets = StartChains
    /\ \A c \in StartChains : /\ identityOf[c] \in [1..WalletsOf[c] -> 0..2]
                              /\ wallets[c] \in Seq(1..WalletsOf[c])
    /\ nodeId \in [StartChains -> [Identities -> 0..Foreign]]
    /\ registered \subseteq StartChains
    /\ identity \in [StartChains -> 0..2]
    /\ createTry \in [StartChains -> 0..CreateTries - 1]
    /\ profileAt \in [StartChains -> {"exists", "create", "identity", "check",
                                      "done", "removed"}]
    /\ stage \in {"off", "key", "save", "modules", "events", "sharding", "paranets", "profiles",
                  "executor", "routers", "network", "up"}
    /\ publicCurrent \in BOOLEAN /\ paranet \in 1..Len(Paranets) + 1
    /\ paranetStep \in {"read", "identity", "repository", "record"}
    /\ validParanets \cup toRecord \cup paranetRecords \subseteq DOMAIN Paranets

(* A key is made again only after an end of the process left none, so that  *)
(* there are as many as faults; and who made a profile had saved its key.   *)
KeyInv ==
    /\ keyFile \in -1..MaxKeys /\ keys \in 0..MaxKeys /\ peerId \in 0..MaxKeys
    /\ startFaults \in 0..MaxStartFaults
    /\ stage = "save" => peerId > 0 /\ keyFile = 0 /\ keys <= startFaults + 1
    /\ Keyed => peerId = keyFile /\ keyFile > 0
    /\ keyFile = 0 /\ stage # "save" => keys <= startFaults
    /\ KeyOutlivesProfile

RegisteredInv ==
    /\ Alive => registered = {c \in StartChains : profileAt[c] # "removed"}
    /\ Started => /\ registered # {}
                  /\ \A c \in StartChains : profileAt[c] \in {"done", "removed"}

(* The list of wallets is whole until the identity is known, and then as     *)
(* long as it has wallets.                                                  *)
WalletInv(c) ==
    /\ identity[c] = 0 => wallets[c] = AllWallets(c)
    /\ identity[c] # 0 =>
          Len(wallets[c]) = Cardinality({w \in 1..WalletsOf[c] : identityOf[c][w] = identity[c]})

(* Until an attempt to create the profile passes nobody has one, and then it *)
(* is the node's.                                                            *)
NotMade(c) == \A w \in 1..WalletsOf[c] : identityOf[c][w] = 0
Made(c) == /\ \A w \in 1..WalletsOf[c] : identityOf[c][w] = 1
           /\ nodeId[c][1] = peerId
ProfileInv(c) ==
    /\ Early => profileAt[c] = "exists"
    /\ profileAt[c] \in {"create", "identity"} => identity[c] = 0 /\ (NotMade(c) \/ Made(c))
    /\ profileAt[c] = "check" => identity[c] # 0
    /\ profileAt[c] = "done" /\ identity[c] # 0 => nodeId[c][identity[c]] = peerId

ChainsInv == Alive => \A c \in StartChains : WalletInv(c) /\ ProfileInv(c)

(* Who was let into a curated paranet has an identity, which stays.          *)
LetIn(k) == Paranets[k].access = "curated" =>
    Paranets[k].chain \in StartChains /\ identity[Paranets[k].chain] \in Paranets[k].members
ParanetInv ==
    Alive =>
        /\ \A k \in validParanets :
              /\ LetIn(k) /\ publicCurrent
              /\ k \in toRecord \cup paranetRecords
                    \/ (stage = "paranets" /\ k = paranet /\ paranetStep = "record")
        /\ paranet \in DOMAIN Paranets =>
              /\ paranetStep = "identity" => Paranets[paranet].chain \in StartChains
              /\ paranetStep = "repository" => LetIn(paranet)

StartIInv == StartupTypes /\ KeyInv /\ RegisteredInv /\ ChainsInv /\ ParanetInv

-----------------------------------------------------------------------------
(* The identity of the wallets: the first there is.                          *)
LEMMA FirstIsThere ==
    ASSUME NEW c \in StartChains, Identified(c) # {}
    PROVE  \E k \in Identified(c) : FirstIdentity(c) = identityOf[c][wallets[c][k]]
<1> DEFINE S == Identified(c)
           Least(k) == \A j \in S : k <= j
<1>1. S \subseteq Nat
    BY DEF Identified
<1>2. PICK m \in S : \A j \in S : ~(<<j, m>> \in OpToRel(<, Nat))
    BY <1>1, NatLessThanWellFounded, WFMin, Zenon
<1>3. \E k \in S : Least(k)
  <2>1. S \subseteq Nat /\ m \in S /\ \A j \in S : ~(j < m)
      BY <1>1, <1>2, Zenon DEF OpToRel
  <2> HIDE DEF S
  <2>2. \A j \in S : m <= j
      BY <2>1
  <2> QED
      BY <2>1, <2>2
<1> HIDE DEF S
<1>4. (CHOOSE k \in S : Least(k)) \in S
    BY <1>3
<1> QED
    BY <1>4 DEF S, FirstIdentity

LEMMA IdentityResolved ==
    ASSUME StartupTypes, NEW c \in StartChains, WalletInv(c)
    PROVE  /\ Resolved(c) \in 0..2
           /\ identity[c] # 0 => Resolved(c) = identity[c]
           /\ identity[c] = 0 /\ Resolved(c) = 0 => NotMade(c)
           /\ identity[c] = 0 /\ Made(c) => Resolved(c) = 1
           /\ identity[c] = 0 /\ NotMade(c) => Resolved(c) = 0
<1>1. CASE identity[c] # 0
    BY <1>1 DEF Resolved, StartupTypes
<1>2. CASE identity[c] = 0
  <2>1. /\ wallets[c] = AllWallets(c) /\ WalletsOf[c] \in Nat \ {0}
        /\ identityOf[c] \in [1..WalletsOf[c] -> 0..2] /\ Resolved(c) = FirstIdentity(c)
      BY <1>2, StartAssumption DEF WalletInv, Resolved, StartupTypes
  <2>2. Identified(c) = {k \in 1..WalletsOf[c] : identityOf[c][k] # 0}
    <3>1. Len(wallets[c]) = WalletsOf[c] /\ \A k \in 1..WalletsOf[c] : wallets[c][k] = k
        BY <2>1 DEF AllWallets
    <3> QED
        BY <3>1 DEF Identified
  <2>3. CASE Identified(c) = {}
    <3>1. NotMade(c) /\ FirstIdentity(c) = 0 /\ 1 \in 1..WalletsOf[c]
        BY <2>1, <2>2, <2>3 DEF NotMade, FirstIdentity
    <3> QED
        BY <3>1, <2>1, <1>2 DEF NotMade, Made
  <2>4. CASE Identified(c) # {}
    <3>1. PICK k \in Identified(c) : FirstIdentity(c) = identityOf[c][wallets[c][k]]
        BY <2>4, FirstIsThere
    <3>2. k \in 1..WalletsOf[c] /\ wallets[c][k] = k /\ identityOf[c][k] # 0
        BY <3>1, <2>1, <2>2 DEF AllWallets
    <3> QED
        BY <3>1, <3>2, <2>1, <1>2 DEF NotMade, Made
  <2> QED
      BY <2>3, <2>4
<1> QED
    BY <1>1, <1>2

(* Taking one wallet off the list for every one of another identity leaves   *)
(* as many as have this one.                                                 *)
LEMMA WalletsLeft ==
    ASSUME NEW n \in Nat \ {0}, NEW f \in [1..n -> 0..2], NEW i \in 1..2
    PROVE  LET list == [w \in 1..n |-> w]
               others == {w \in Range(list) : f[w] # i}
               rest == SubSeq(list, Cardinality(others) + 1, Len(list))
           IN /\ rest \in Seq(1..n)
              /\ Len(rest) = Cardinality({w \in 1..n : f[w] = i})
<1> DEFINE list == [w \in 1..n |-> w]
           others == {w \in Range(list) : f[w] # i}
           mine == {w \in 1..n : f[w] = i}
           m == Cardinality(others)
           rest == SubSeq(list, m + 1, Len(list))
<1>1. list \in Seq(1..n) /\ Len(list) = n /\ \A w \in 1..n : list[w] = w
    OBVIOUS
<1>2. Range(list) = 1..n
    BY <1>1 DEF Range
<1> HIDE DEF list
<1>3. IsFiniteSet(1..n) /\ Cardinality(1..n) = n
    BY FS_Interval
<1>4. others = (1..n) \ mine /\ (1..n) \cap mine = mine
    BY <1>2
<1>5. m = n - Cardinality(mine)
  <2> HIDE DEF mine, others
  <2>1. Cardinality((1..n) \ mine) = Cardinality(1..n) - Cardinality((1..n) \cap mine)
      BY ONLY <1>3, FS_Difference
  <2> QED
      BY ONLY <2>1, <1>3, <1>4 DEF m
<1>6. Cardinality(mine) \in Nat /\ Cardinality(mine) <= n
  <2>1. mine \subseteq 1..n
      OBVIOUS
  <2> HIDE DEF mine
  <2>2. IsFiniteSet(mine) /\ Cardinality(mine) <= Cardinality(1..n)
      BY <2>1, <1>3, FS_Subset
  <2>3. Cardinality(mine) \in Nat
      BY <2>2, FS_CardinalityType
  <2> QED
      BY <2>2, <2>3, <1>3
<1> HIDE DEF m, mine, others
<1>7. \A k \in m + 1..n : list[k] \in 1..n
    BY <1>1, <1>5, <1>6
<1>8. rest \in Seq(1..n) /\ Len(rest) = IF m + 1 <= n THEN n - (m + 1) + 1 ELSE 0
    BY <1>1, <1>5, <1>6, <1>7, SubSeqProperties
<1>9. Len(rest) = Cardinality(mine)
    BY <1>8, <1>5, <1>6
<1> QED
    BY <1>8, <1>9 DEF list, mine, others, m

LEMMA IdentityIsRead ==
    ASSUME StartupTypes, NEW c \in StartChains, WalletInv(c), IdentityRead(c), UNCHANGED identityOf
    PROVE  /\ identity' = [identity EXCEPT ![c] = Resolved(c)]
           /\ identity'[c] = Resolved(c)
           /\ DOMAIN wallets' = StartChains /\ wallets'[c] \in Seq(1..WalletsOf[c])
           /\ \A d \in StartChains \ {c} : identity'[d] = identity[d] /\ wallets'[d] = wallets[d]
           /\ WalletInv(c)'
<1>1. /\ identity' = [identity EXCEPT ![c] = Resolved(c)] /\ DOMAIN wallets' = StartChains
      /\ identity'[c] = Resolved(c)
      /\ \A d \in StartChains \ {c} : identity'[d] = identity[d] /\ wallets'[d] = wallets[d]
    BY DEF StartupTypes, IdentityRead, KeepWallets
<1>2. CASE Resolved(c) = 0 \/ identity[c] # 0
  <2>1. wallets'[c] = wallets[c] /\ identity'[c] = identity[c]
    <3>1. identity[c] # 0 => Resolved(c) = identity[c]
        BY DEF Resolved
    <3>2. wallets'[c] = wallets[c]
        BY <1>2 DEF StartupTypes, IdentityRead, KeepWallets
    <3> QED
        BY <1>1, <1>2, <3>1, <3>2
  <2>2. wallets[c] \in Seq(1..WalletsOf[c])
      BY DEF StartupTypes
  <2>3. WalletInv(c)'
      BY <2>1 DEF WalletInv, AllWallets
  <2> QED
      BY <1>1, <2>1, <2>2, <2>3
<1>3. CASE Resolved(c) # 0 /\ identity[c] = 0
  <2>1. wallets[c] = AllWallets(c) /\ Resolved(c) \in 1..2 /\ WalletsOf[c] \in Nat \ {0}
        /\ identityOf[c] \in [1..WalletsOf[c] -> 0..2]
    <3>1. Resolved(c) \in 0..2
        BY IdentityResolved
    <3>2. WalletsOf[c] \in Nat \ {0}
        BY StartAssumption
    <3> QED
        BY <3>1, <3>2, <1>3 DEF WalletInv, StartupTypes
  <2>2. wallets'[c] = SubSeq(wallets[c], Cardinality(Dropped(c, Resolved(c))) + 1, Len(wallets[c]))
      BY <1>3 DEF StartupTypes, IdentityRead, KeepWallets
  <2> DEFINE i == Resolved(c)
             n == WalletsOf[c]
             f == identityOf[c]
  <2>3. Dropped(c, i) = {w \in Range(AllWallets(c)) : f[w] # i}
      BY <2>1 DEF Dropped
  <2>4. wallets'[c] \in Seq(1..n) /\ Len(wallets'[c]) = Cardinality({w \in 1..n : f[w] = i})
    <3> HIDE DEF i, n, f
    <3>1. i \in 1..2 /\ n \in Nat \ {0} /\ f \in [1..n -> 0..2] /\ AllWallets(c) = [w \in 1..n |-> w]
        BY <2>1 DEF i, n, f, AllWallets
    <3>2. wallets'[c] = SubSeq(AllWallets(c),
              Cardinality({w \in Range(AllWallets(c)) : f[w] # i}) + 1, Len(AllWallets(c)))
        BY <2>1, <2>2, <2>3 DEF i
    <3> DEFINE list == [w \in 1..n |-> w]
               others == {w \in Range(list) : f[w] # i}
               rest == SubSeq(list, Cardinality(others) + 1, Len(list))
    <3>3. rest \in Seq(1..n) /\ Len(rest) = Cardinality({w \in 1..n : f[w] = i})
        BY ONLY <3>1, WalletsLeft
    <3> QED
        BY <3>1, <3>2, <3>3
  <2>5. /\ identity'[c] = Resolved(c) /\ identity'[c] # 0 /\ identityOf' = identityOf
        /\ Len(wallets'[c])
              = Cardinality({w \in 1..WalletsOf[c] : identityOf[c][w] = Resolved(c)})
      BY <1>1, <2>1, <2>4
  <2>6. WalletInv(c)'
      BY ONLY <2>5 DEF WalletInv
  <2> QED
      BY <1>1, <2>4, <2>6
<1> QED
    BY <1>1, <1>2, <1>3

-----------------------------------------------------------------------------
(* The steps that the parts of the invariant have in common.                 *)

ChainSteps == \E c \in StartChains : ChainStep(c)
OneByOne == ReadPrivateKey \/ SavePrivateKey \/ KeyIsBroken \/ StageDone \/ ProfilesDone

LEMMA StartSteps ==
    ASSUME [StartNext]_startVars
    PROVE  \/ ProcessStarts \/ StartEndsEarly \/ OneByOne \/ ParanetStep
           \/ (\E c \in StartChains : ChainStep(c)) \/ UNCHANGED startVars
BY DEF StartNext, StartStep, OneByOne

(* The contracts and the profiles change only where profiles are made.       *)
LEMMA TriesAreLeft ==
    ASSUME StartupTypes, NEW c \in StartChains, TryAgain(c)
    PROVE  [createTry EXCEPT ![c] = @ + 1] \in [StartChains -> 0..CreateTries - 1]
BY StartAssumption DEF StartupTypes, TryAgain

LEMMA CreatedTypes ==
    ASSUME StartupTypes, KeyInv, NEW c \in StartChains, Created(c)
    PROVE  /\ DOMAIN identityOf' = StartChains
           /\ \A d \in StartChains : identityOf'[d] \in [1..WalletsOf[d] -> 0..2]
           /\ nodeId' \in [StartChains -> [Identities -> 0..Foreign]]
           /\ \A d \in StartChains \ {c} : identityOf'[d] = identityOf[d] /\ nodeId'[d] = nodeId[d]
           /\ \A w \in 1..WalletsOf[c] : identityOf'[c][w] = 1
           /\ nodeId'[c][1] = peerId /\ nodeId'[c][2] = nodeId[c][2]
<1>1. identityOf' = [identityOf EXCEPT ![c] = [w \in DOMAIN identityOf[c] |-> 1]]
    BY DEF Created
<1>2. identityOf'[c] = [w \in 1..WalletsOf[c] |-> 1]
    BY <1>1 DEF StartupTypes
<1>3. nodeId' = [nodeId EXCEPT ![c] = [nodeId[c] EXCEPT ![1] = peerId]]
    BY DEF Created
<1>4. nodeId[c] \in [Identities -> 0..Foreign] /\ peerId \in 0..Foreign
    BY StartAssumption DEF StartupTypes, KeyInv, Foreign
<1>5. [nodeId[c] EXCEPT ![1] = peerId] \in [Identities -> 0..Foreign]
    BY <1>4
<1> QED
    BY <1>1, <1>2, <1>3, <1>4, <1>5 DEF StartupTypes, Identities

LEMMA RemovedTypes ==
    ASSUME StartupTypes, NEW c \in StartChains, RemoveImplementation(c)
    PROVE  registered' \subseteq StartChains
BY DEF StartupTypes, RemoveImplementation

LEMMA TypesOfChainStep ==
    ASSUME StartupTypes, KeyInv, ChainsInv, NEW c \in StartChains, ChainStep(c)
    PROVE  StartupTypes'
<1> USE DEF chainState, loaded, paranetVars, Goes
<1>0. stage = "profiles" /\ WalletInv(c)
    BY DEF ChainStep, GetIdentityId, CreateProfile, CreateProfileFails, CheckNodeId, ProfileFails,
           ChainsInv, Alive
<1>1. CASE GetIdentityId(c)
  <2>1. IdentityRead(c) /\ UNCHANGED identityOf
      BY <1>1 DEF GetIdentityId
  <2>2. /\ identity' = [identity EXCEPT ![c] = Resolved(c)] /\ Resolved(c) \in 0..2
        /\ DOMAIN wallets' = StartChains /\ wallets'[c] \in Seq(1..WalletsOf[c])
        /\ \A d \in StartChains \ {c} : wallets'[d] = wallets[d]
      BY <1>0, <2>1, IdentityIsRead, IdentityResolved
  <2>3. \A d \in StartChains : wallets'[d] \in Seq(1..WalletsOf[d])
      BY <2>2 DEF StartupTypes
  <2>4. identity' \in [StartChains -> 0..2]
      BY <2>2 DEF StartupTypes
  <2> QED
      BY <1>1, <2>2, <2>3, <2>4 DEF GetIdentityId, StartupTypes
<1>2. CASE CreateProfile(c)
    BY <1>2, CreatedTypes DEF CreateProfile, NotCreated, StartupTypes
<1>3. CASE CreateProfileFails(c)
  <2>1. UNCHANGED <<stage, wallets, identity, paranetVars>>
      BY <1>3 DEF CreateProfileFails
  <2>2. NotCreated \/ Created(c)
      BY <1>3 DEF CreateProfileFails
  <2>3. /\ DOMAIN identityOf' = StartChains
        /\ \A d \in StartChains : identityOf'[d] \in [1..WalletsOf[d] -> 0..2]
        /\ nodeId' \in [StartChains -> [Identities -> 0..Foreign]]
      BY <2>2, CreatedTypes DEF NotCreated, StartupTypes
  <2>4. /\ profileAt' = profileAt \/ Goes(c, "removed") \/ Goes(c, "identity")
        /\ registered' = registered \/ RemoveImplementation(c)
      BY <1>3 DEF CreateProfileFails
  <2>5. createTry' = createTry \/ (TryAgain(c) /\ createTry' = [createTry EXCEPT ![c] = @ + 1])
      BY <1>3 DEF CreateProfileFails
  <2>6. registered' \subseteq StartChains
      BY <2>4, RemovedTypes DEF StartupTypes
  <2>7. createTry' \in [StartChains -> 0..CreateTries - 1]
    <3>1. CASE createTry' = createTry
        BY <3>1 DEF StartupTypes
    <3>2. CASE TryAgain(c) /\ createTry' = [createTry EXCEPT ![c] = @ + 1]
        BY <3>2, TriesAreLeft
    <3> QED
        BY <2>5, <3>1, <3>2
  <2>8. profileAt' \in [StartChains -> {"exists", "create", "identity", "check", "done", "removed"}]
      BY <2>4 DEF StartupTypes
  <2> QED
      BY <2>1, <2>3, <2>6, <2>7, <2>8 DEF StartupTypes
<1>4. CASE CheckNodeId(c) \/ ProfileFails(c)
    BY <1>4, RemovedTypes DEF CheckNodeId, ProfileFails, StartupTypes
<1> QED
    BY <1>1, <1>2, <1>3, <1>4 DEF ChainStep

LEMMA TypesStep ==
    ASSUME StartIInv, [StartNext]_startVars
    PROVE  StartupTypes'
<1> USE DEF chainState, loaded, paranetVars, StartIInv
<1>1. CASE ProcessStarts
  <2>1. \A c \in StartChains : AllWallets(c) \in Seq(1..WalletsOf[c])
      BY StartAssumption DEF AllWallets
  <2>2. wallets' = [c \in StartChains |-> AllWallets(c)]
      BY <1>1 DEF ProcessStarts, AllWallets
  <2>3. 0 \in 0..CreateTries - 1 /\ 1 \in 1..Len(Paranets) + 1
      BY StartAssumption
  <2>4. DOMAIN wallets' = StartChains /\ \A c \in StartChains : wallets'[c] \in Seq(1..WalletsOf[c])
      BY <2>1, <2>2
  <2>5. /\ identity' \in [StartChains -> 0..2] /\ createTry' \in [StartChains -> 0..CreateTries - 1]
        /\ profileAt' \in [StartChains -> {"exists", "create", "identity", "check", "done",
                                           "removed"}]
      BY <1>1, <2>3 DEF ProcessStarts
  <2> QED
      BY <1>1, <2>3, <2>4, <2>5 DEF ProcessStarts, StartupTypes
<1>2. CASE StartEndsEarly \/ OneByOne
    BY <1>2 DEF StartEndsEarly, OneByOne, ReadPrivateKey, SavePrivateKey, KeyIsBroken, StageDone,
                ProfilesDone, Following, StartupTypes
<1>3. CASE ExamineParanet \/ InitializeParanetRepository \/ InitializeParanetRecord
  <2>1. paranet \in 1..Len(Paranets) + 1 /\ Len(Paranets) \in Nat /\ paranet \in 1..Len(Paranets)
      BY <1>3, StartAssumption DEF ExamineParanet, InitializeParanetRepository, InitializeParanetRecord,
         ParanetAt, StartupTypes
  <2>2. paranet \in DOMAIN Paranets /\ paranet + 1 \in 1..Len(Paranets) + 1
      BY <2>1, StartAssumption
  <2> QED
      BY <1>3, <2>1, <2>2 DEF ExamineParanet, InitializeParanetRepository, InitializeParanetRecord,
         ParanetGoes, StartupTypes
<1>4. CASE CheckCurated
  <2> DEFINE c == Paranets[paranet].chain
  <2>1. paranet \in DOMAIN Paranets /\ stage = "paranets" /\ c \in StartChains /\ IdentityRead(c)
        /\ UNCHANGED identityOf
      BY <1>4 DEF CheckCurated, ParanetAt, ParanetInv, Alive, ParanetGoes
  <2>2. WalletInv(c)
      BY <2>1 DEF ChainsInv, Alive
  <2> HIDE DEF c
  <2>3. /\ identity' = [identity EXCEPT ![c] = Resolved(c)] /\ Resolved(c) \in 0..2
        /\ DOMAIN wallets' = StartChains /\ wallets'[c] \in Seq(1..WalletsOf[c])
        /\ \A d \in StartChains \ {c} : wallets'[d] = wallets[d]
      BY <2>1, <2>2, IdentityIsRead, IdentityResolved
  <2>4. \A d \in StartChains : wallets'[d] \in Seq(1..WalletsOf[d])
      BY <2>3 DEF StartupTypes
  <2>5. paranet \in 1..Len(Paranets) /\ Len(Paranets) \in Nat /\ paranet + 1 \in 1..Len(Paranets) + 1
      BY <2>1, StartAssumption
  <2> QED
      BY <1>4, <2>3, <2>4, <2>5 DEF CheckCurated, ParanetGoes, StartupTypes
<1>5. CASE ParanetsDone \/ StartParanetSync \/ \E k \in DOMAIN Paranets : RecordLands(k)
    BY <1>5 DEF ParanetsDone, StartParanetSync, RecordLands, StartupTypes
<1>6. CASE \E c \in StartChains : ChainStep(c)
    BY <1>6, TypesOfChainStep
<1>7. CASE UNCHANGED startVars
    BY <1>7 DEF startVars, StartupTypes
<1> QED
    BY <1>1, <1>2, <1>3, <1>4, <1>5, <1>6, <1>7, StartSteps DEF ParanetStep

-----------------------------------------------------------------------------
(* The key.                                                                  *)
LEMMA KeyStep ==
    ASSUME StartIInv, [StartNext]_startVars
    PROVE  KeyInv'
<1> USE DEF chainState, loaded, paranetVars, StartIInv
<1>0. MaxKeys \in Nat /\ MaxStartFaults \in Nat /\ MaxKeys > MaxStartFaults
      /\ keyFile \in -1..MaxKeys /\ keys \in 0..MaxKeys /\ startFaults \in 0..MaxStartFaults
    BY StartAssumption DEF KeyInv
<1>1. CASE ProcessStarts
    BY <1>0, <1>1 DEF ProcessStarts, KeyInv, Keyed, Alive, KeyOutlivesProfile
<1>2. CASE StartEndsEarly
    BY <1>0, <1>2 DEF StartEndsEarly, StartFault, KeyInv, Keyed, Alive, KeyOutlivesProfile, BrokenKey
<1>3. CASE ReadPrivateKey
    BY <1>0, <1>3 DEF ReadPrivateKey, KeyInv, Keyed, Alive, KeyOutlivesProfile, BrokenKey
<1>4. CASE SavePrivateKey
    BY <1>0, <1>4 DEF SavePrivateKey, KeyInv, Keyed, Alive, KeyOutlivesProfile
<1>5. CASE KeyIsBroken \/ StageDone \/ ProfilesDone
    BY <1>0, <1>5 DEF KeyIsBroken, StageDone, Following, ProfilesDone, KeyInv, Keyed, Alive,
                      KeyOutlivesProfile, BrokenKey
<1>6. CASE ParanetStep
  <2>1. UNCHANGED <<keyFile, keys, nodeId, peerId, startFaults>>
      BY <1>6 DEF ParanetStep, ExamineParanet, CheckCurated, InitializeParanetRepository,
         InitializeParanetRecord, ParanetsDone, StartParanetSync, RecordLands, ParanetGoes
  <2>2. stage' = stage \/ (Keyed /\ stage' \notin {"key", "save"})
      BY <1>6 DEF ParanetStep, ExamineParanet, CheckCurated, InitializeParanetRepository,
         InitializeParanetRecord, ParanetsDone, StartParanetSync, RecordLands, ParanetAt, Keyed, Alive
  <2> QED
      BY <1>0, <2>1, <2>2 DEF KeyInv, Keyed, Alive, KeyOutlivesProfile
<1>7. ASSUME NEW c \in StartChains, ChainStep(c) PROVE KeyInv'
  <2>1. /\ stage = "profiles" /\ stage' = "profiles" /\ UNCHANGED <<keyFile, keys, peerId>>
        /\ startFaults' \in 0..MaxStartFaults /\ startFaults' >= startFaults
      BY <1>0, <1>7 DEF ChainStep, GetIdentityId, CreateProfile, CreateProfileFails, CheckNodeId,
                        ProfileFails, StartFault
  <2>2. NotCreated \/ Created(c) \/ UNCHANGED nodeId
      BY <1>7 DEF ChainStep, GetIdentityId, CreateProfile, CreateProfileFails, CheckNodeId, ProfileFails
  <2>3. \A d \in StartChains : nodeId'[d][1] \in {nodeId[d][1], peerId}
      BY <2>2, CreatedTypes DEF NotCreated
  <2>4. peerId = keyFile
      BY <2>1 DEF KeyInv, Keyed, Alive
  <2>5. KeyOutlivesProfile'
      BY <2>1, <2>3, <2>4 DEF KeyInv, KeyOutlivesProfile
  <2> QED
      BY <1>0, <2>1, <2>5 DEF KeyInv, Keyed, Alive
<1>8. CASE UNCHANGED startVars
    BY <1>8 DEF startVars, KeyInv, Keyed, Alive, KeyOutlivesProfile
<1> QED
    BY <1>1, <1>2, <1>3, <1>4, <1>5, <1>6, <1>7, <1>8, StartSteps DEF OneByOne

-----------------------------------------------------------------------------
(* The blockchains that are left.                                            *)

(* The only one that is left goes whatever its name, since it is the one.     *)
LEMMA RemovedIsTheOne ==
    ASSUME NEW c \in registered, RemoveImplementation(c), IsFiniteSet(registered)
    PROVE  registered' = registered \ {c}
<1>1. CASE Cardinality(registered) = 1
  <2>1. \E x : registered = {x}
      BY <1>1, FS_Singleton
  <2> QED
      BY <2>1, <1>1 DEF RemoveImplementation
<1>2. CASE Cardinality(registered) # 1
    BY <1>2 DEF RemoveImplementation
<1> QED
    BY <1>1, <1>2

LEMMA RegisteredStep ==
    ASSUME StartIInv, [StartNext]_startVars
    PROVE  RegisteredInv'
<1> USE DEF chainState, loaded, paranetVars, StartIInv
<1>1. CASE ProcessStarts
    BY <1>1 DEF ProcessStarts, RegisteredInv, Alive, Started
<1>2. CASE StartEndsEarly
    BY <1>2 DEF StartEndsEarly, RegisteredInv, Alive, Started
<1>3. CASE OneByOne
    BY <1>3 DEF OneByOne, ReadPrivateKey, SavePrivateKey, KeyIsBroken, StageDone, ProfilesDone,
                Following, RegisteredInv, Alive, Started
<1>4. CASE ParanetStep
  <2>1. UNCHANGED <<registered, profileAt>> /\ (stage' = stage \/ (Alive /\ ~Started'))
      BY <1>4 DEF ParanetStep, ExamineParanet, CheckCurated, InitializeParanetRepository,
         InitializeParanetRecord, ParanetsDone, StartParanetSync, RecordLands, ParanetGoes, ParanetAt,
         Alive, Started
  <2> QED
      BY <2>1 DEF RegisteredInv, Alive, Started
<1>5. ASSUME NEW c \in StartChains, ChainStep(c) PROVE RegisteredInv'
  <2>1. stage = "profiles" /\ stage' = "profiles" /\ ~Started' /\ profileAt[c] # "removed"
      BY <1>5 DEF ChainStep, GetIdentityId, CreateProfile, CreateProfileFails, CheckNodeId,
                  ProfileFails, Started
  <2>2. registered = {d \in StartChains : profileAt[d] # "removed"} /\ c \in registered
      BY <2>1 DEF RegisteredInv, Alive
  <2>3. IsFiniteSet(registered)
      BY <2>2, StartAssumption, FS_Subset
  <2>4. \/ Goes(c, "removed") /\ RemoveImplementation(c)
        \/ UNCHANGED registered /\ \E step \in {"exists", "create", "identity", "check", "done"} :
                                       Goes(c, step)
        \/ UNCHANGED <<registered, profileAt>>
      BY <1>5 DEF ChainStep, GetIdentityId, CreateProfile, CreateProfileFails, CheckNodeId, ProfileFails
  <2>5. CASE Goes(c, "removed") /\ RemoveImplementation(c)
    <3>1. registered' = registered \ {c}
        BY <2>2, <2>3, <2>5, RemovedIsTheOne
    <3> QED
        BY <3>1, <2>1, <2>2, <2>5 DEF Goes, RegisteredInv, Alive, StartupTypes
  <2>6. CASE ~(Goes(c, "removed") /\ RemoveImplementation(c))
    <3>1. registered' = {d \in StartChains : profileAt'[d] # "removed"}
        BY <2>1, <2>2, <2>4, <2>6 DEF Goes, StartupTypes
    <3> QED
        BY <3>1, <2>1 DEF RegisteredInv, Alive
  <2> QED
      BY <2>5, <2>6
<1>6. CASE UNCHANGED startVars
    BY <1>6 DEF startVars, RegisteredInv, Alive, Started
<1> QED
    BY <1>1, <1>2, <1>3, <1>4, <1>5, <1>6, StartSteps

-----------------------------------------------------------------------------
(* The profiles and the wallets.                                             *)

LEMMA OthersStay ==
    ASSUME NEW d \in StartChains, WalletInv(d), ProfileInv(d), UNCHANGED <<stage, peerId>>,
           identity'[d] = identity[d], wallets'[d] = wallets[d], identityOf'[d] = identityOf[d],
           nodeId'[d] = nodeId[d], profileAt'[d] = profileAt[d]
    PROVE  WalletInv(d)' /\ ProfileInv(d)'
BY DEF WalletInv, ProfileInv, NotMade, Made, Early, AllWallets

LEMMA IdentityStep ==
    ASSUME StartIInv, NEW c \in StartChains, GetIdentityId(c)
    PROVE  WalletInv(c)' /\ ProfileInv(c)'
<1>0. /\ stage = "profiles" /\ profileAt[c] \in {"exists", "identity"} /\ IdentityRead(c)
      /\ UNCHANGED <<identityOf, nodeId, peerId, stage>> /\ StartupTypes
    BY DEF GetIdentityId, chainState, StartIInv
<1>1. WalletInv(c) /\ ProfileInv(c)
    BY <1>0 DEF StartIInv, ChainsInv, Alive
<1>2. /\ WalletInv(c)' /\ identity'[c] = Resolved(c) /\ Resolved(c) \in 0..2
      /\ identity[c] = 0 /\ Resolved(c) = 0 => NotMade(c)
      /\ identity[c] = 0 /\ Made(c) => Resolved(c) = 1
      /\ identity[c] = 0 /\ NotMade(c) => Resolved(c) = 0
      /\ identity[c] # 0 => Resolved(c) = identity[c]
    BY <1>0, <1>1, IdentityIsRead, IdentityResolved
<1>3. profileAt'[c] = IF profileAt[c] = "identity" THEN "done"
                     ELSE IF Resolved(c) = 0 THEN "create" ELSE "check"
    BY <1>0 DEF GetIdentityId, Goes, StartupTypes
<1>4. ~Early'
    BY <1>0 DEF Early
<1>5. CASE profileAt[c] = "identity"
  <2>1. profileAt'[c] = "done" /\ identity[c] = 0 /\ (NotMade(c) \/ Made(c))
      BY <1>1, <1>3, <1>5 DEF ProfileInv
  <2>2. Resolved(c) # 0 => Resolved(c) = 1 /\ nodeId[c][1] = peerId
      BY <2>1, <1>2 DEF Made
  <2> QED
      BY <2>1, <2>2, <1>0, <1>2, <1>4 DEF ProfileInv
<1>6. CASE profileAt[c] = "exists" /\ Resolved(c) = 0
  <2>1. profileAt'[c] = "create" /\ identity[c] = 0 /\ NotMade(c) /\ identity'[c] = 0
      BY <1>2, <1>3, <1>6
  <2>2. NotMade(c)'
      BY <2>1, <1>0 DEF NotMade
  <2> QED
      BY <2>1, <2>2, <1>2, <1>4 DEF ProfileInv
<1>7. CASE profileAt[c] = "exists" /\ Resolved(c) # 0
    BY <1>2, <1>3, <1>4, <1>7 DEF ProfileInv
<1> QED
    BY <1>0, <1>5, <1>6, <1>7

LEMMA CreationStep ==
    ASSUME StartIInv, NEW c \in StartChains, CreateProfile(c) \/ CreateProfileFails(c)
    PROVE  WalletInv(c)' /\ ProfileInv(c)'
<1>0. /\ stage = "profiles" /\ profileAt[c] = "create" /\ UNCHANGED <<peerId, stage, identity, wallets>>
      /\ profileAt'[c] \in {"create", "identity", "removed"}
      /\ NotCreated \/ (~Exists(c) /\ Created(c))
      /\ StartupTypes /\ KeyInv
    BY DEF CreateProfile, CreateProfileFails, StartIInv, Goes, StartupTypes
<1>1. WalletInv(c) /\ identity[c] = 0 /\ (NotMade(c) \/ Made(c))
    BY <1>0 DEF StartIInv, ChainsInv, Alive, ProfileInv
<1>2. WalletInv(c)'
    BY <1>0, <1>1 DEF WalletInv, AllWallets
<1>3. NotMade(c)' \/ Made(c)'
  <2>1. CASE NotCreated
      BY <2>1, <1>0, <1>1 DEF NotCreated, NotMade, Made
  <2>2. CASE Created(c)
      BY <2>2, <1>0, CreatedTypes DEF Made
  <2> QED
      BY <2>1, <2>2, <1>0
<1> QED
    BY <1>0, <1>1, <1>2, <1>3 DEF ProfileInv, Early

LEMMA CheckStep ==
    ASSUME StartIInv, NEW c \in StartChains, CheckNodeId(c) \/ ProfileFails(c)
    PROVE  WalletInv(c)' /\ ProfileInv(c)'
<1>0. /\ stage = "profiles" /\ UNCHANGED <<peerId, stage, identity, wallets, identityOf, nodeId>>
      /\ profileAt'[c] \in {"done", "removed"}
      /\ profileAt'[c] = "done" => nodeId[c][identity[c]] = peerId
    BY DEF CheckNodeId, ProfileFails, chainState, StartIInv, StartupTypes, Goes
<1>1. WalletInv(c)
    BY <1>0 DEF StartIInv, ChainsInv, Alive
<1>2. WalletInv(c)'
    BY <1>0, <1>1 DEF WalletInv, AllWallets
<1> QED
    BY <1>0, <1>2 DEF ProfileInv, Early

LEMMA ChainsStep ==
    ASSUME StartIInv, [StartNext]_startVars
    PROVE  ChainsInv'
<1> USE DEF chainState, loaded, paranetVars
<1>0. StartupTypes /\ KeyInv /\ ChainsInv /\ ParanetInv
    BY DEF StartIInv
<1>1. CASE ProcessStarts
  <2> SUFFICES ASSUME NEW c \in StartChains PROVE WalletInv(c)' /\ ProfileInv(c)'
      BY DEF ChainsInv
  <2> QED
      BY <1>1 DEF ProcessStarts, WalletInv, ProfileInv, AllWallets
<1>2. CASE StartEndsEarly \/ KeyIsBroken
    BY <1>2 DEF StartEndsEarly, KeyIsBroken, ChainsInv, Alive
<1>3. CASE ReadPrivateKey \/ SavePrivateKey \/ StageDone \/ ParanetsDone
  <2>1. /\ UNCHANGED <<identity, wallets, identityOf, nodeId, profileAt>> /\ Alive
        /\ (UNCHANGED peerId \/ Early)
      BY <1>3 DEF ReadPrivateKey, SavePrivateKey, StageDone, ParanetsDone, Alive, Early, Following
  <2>2. Early' => Early
      BY <1>3 DEF ReadPrivateKey, SavePrivateKey, StageDone, ParanetsDone, Early, Following
  <2> SUFFICES ASSUME NEW c \in StartChains PROVE WalletInv(c)' /\ ProfileInv(c)'
      BY DEF ChainsInv
  <2>3. WalletInv(c) /\ ProfileInv(c)
      BY <1>0, <2>1 DEF ChainsInv
  <2>4. WalletInv(c)'
      BY <2>1, <2>3 DEF WalletInv, AllWallets
  <2>5. ProfileInv(c)'
      BY <2>1, <2>2, <2>3 DEF ProfileInv, NotMade, Made
  <2> QED
      BY <2>4, <2>5
<1>4. CASE ProfilesDone
  <2>1. UNCHANGED <<identity, wallets, identityOf, nodeId, profileAt, peerId>> /\ Alive /\ ~Early'
      BY <1>4 DEF ProfilesDone, Alive, Early
  <2> SUFFICES ASSUME NEW c \in StartChains PROVE WalletInv(c)' /\ ProfileInv(c)'
      BY DEF ChainsInv
  <2>2. WalletInv(c) /\ ProfileInv(c)
      BY <1>0, <2>1 DEF ChainsInv
  <2>3. WalletInv(c)'
      BY <2>1, <2>2 DEF WalletInv, AllWallets
  <2> QED
      BY <2>1, <2>2, <2>3 DEF ProfileInv, NotMade, Made
<1>5. CASE ExamineParanet \/ InitializeParanetRepository \/ InitializeParanetRecord \/ StartParanetSync
           \/ \E k \in DOMAIN Paranets : RecordLands(k)
  <2>1. UNCHANGED <<identity, wallets, identityOf, nodeId, profileAt, peerId>>
        /\ (stage' = stage \/ ~Alive')
      BY <1>5 DEF ExamineParanet, InitializeParanetRepository, InitializeParanetRecord,
                  StartParanetSync, RecordLands, ParanetGoes, Alive
  <2> QED
      BY <1>0, <2>1, OthersStay DEF ChainsInv, Alive
<1>6. CASE CheckCurated
  <2>0. PICK c \in StartChains : c = Paranets[paranet].chain
      BY <1>0, <1>6 DEF CheckCurated, ParanetAt, ParanetInv, Alive
  <2>1. /\ stage = "paranets" /\ IdentityRead(c)
        /\ UNCHANGED <<identityOf, nodeId, profileAt, peerId, stage>>
      BY <1>6, <2>0 DEF CheckCurated, ParanetAt, ParanetGoes
  <2>2. \A d \in StartChains : WalletInv(d) /\ ProfileInv(d)
      BY <1>0, <2>1 DEF ChainsInv, Alive
  <2>3. /\ WalletInv(c)'
        /\ \A d \in StartChains \ {c} : identity'[d] = identity[d] /\ wallets'[d] = wallets[d]
      BY <1>0, <2>1, <2>2, IdentityIsRead
  <2>4. ProfileInv(c)'
    <3>1. ProfileInv(c) /\ profileAt[c] = "exists" /\ profileAt'[c] = "exists"
        BY <2>1, <2>2 DEF ProfileInv, Early
    <3> QED
        BY <3>1 DEF ProfileInv
  <2>5. ASSUME NEW d \in StartChains, d # c
        PROVE  WalletInv(d)' /\ ProfileInv(d)'
    <3>1. WalletInv(d) /\ ProfileInv(d) /\ identity'[d] = identity[d] /\ wallets'[d] = wallets[d]
        BY <2>2, <2>3, <2>5
    <3> QED
        BY <2>1, <3>1, OthersStay
  <2>6. \A d \in StartChains : WalletInv(d)' /\ ProfileInv(d)'
      BY <2>3, <2>4, <2>5
  <2> QED
      BY <2>6 DEF ChainsInv
<1>7. ASSUME NEW c \in StartChains, ChainStep(c) PROVE ChainsInv'
  <2>1. stage = "profiles" /\ UNCHANGED <<stage, peerId>>
      BY <1>7 DEF ChainStep, GetIdentityId, CreateProfile, CreateProfileFails, CheckNodeId, ProfileFails
  <2>2. WalletInv(c)' /\ ProfileInv(c)'
      BY <1>7, IdentityStep, CreationStep, CheckStep DEF ChainStep
  <2>3. ASSUME NEW d \in StartChains, d # c
        PROVE  /\ identity'[d] = identity[d] /\ wallets'[d] = wallets[d]
               /\ profileAt'[d] = profileAt[d]
      BY <1>0, <1>7, <2>3 DEF ChainStep, GetIdentityId, CreateProfile, CreateProfileFails, CheckNodeId,
         ProfileFails, IdentityRead, KeepWallets, Goes, StartupTypes
  <2>4. ASSUME NEW d \in StartChains, d # c
        PROVE  identityOf'[d] = identityOf[d] /\ nodeId'[d] = nodeId[d]
      BY <1>0, <1>7, <2>4, CreatedTypes DEF ChainStep, GetIdentityId, CreateProfile, CreateProfileFails,
         CheckNodeId, ProfileFails, NotCreated
  <2>5. \A d \in StartChains : WalletInv(d) /\ ProfileInv(d)
      BY <1>0, <2>1 DEF ChainsInv, Alive
  <2> QED
      BY <2>1, <2>2, <2>3, <2>4, <2>5, OthersStay DEF ChainsInv
<1>8. CASE UNCHANGED startVars
    BY <1>0, <1>8, OthersStay DEF startVars, ChainsInv, Alive
<1> QED
    BY <1>1, <1>2, <1>3, <1>4, <1>5, <1>6, <1>7, <1>8, StartSteps DEF OneByOne, ParanetStep

-----------------------------------------------------------------------------
(* The paranets.                                                             *)

(* An identity that let the node in is not looked for again.                 *)
LEMMA LetInStays ==
    ASSUME StartupTypes, NEW c \in StartChains, WalletInv(c), IdentityRead(c), UNCHANGED identityOf,
           NEW k \in DOMAIN Paranets, LetIn(k)
    PROVE  LetIn(k)'
<1>1. CASE Paranets[k].access # "curated" \/ Paranets[k].chain # c
    BY <1>1, IdentityIsRead DEF LetIn
<1>2. CASE Paranets[k].access = "curated" /\ Paranets[k].chain = c
  <2>1. identity[c] \in Paranets[k].members /\ 0 \notin Paranets[k].members
      BY <1>2, StartAssumption DEF LetIn
  <2>2. identity'[c] = identity[c]
      BY <2>1, IdentityIsRead, IdentityResolved
  <2> QED
      BY <1>2, <2>1, <2>2 DEF LetIn
<1> QED
    BY <1>1, <1>2

LEMMA ParanetsStep ==
    ASSUME StartIInv, [StartNext]_startVars
    PROVE  ParanetInv'
<1> USE DEF chainState, loaded, paranetVars
<1>0. /\ StartupTypes /\ ChainsInv /\ ParanetInv
      /\ registered \subseteq StartChains /\ validParanets \subseteq DOMAIN Paranets
    BY DEF StartIInv, StartupTypes
<1>1. CASE ProcessStarts
    BY <1>1 DEF ProcessStarts, ParanetInv
<1>2. CASE StartEndsEarly \/ KeyIsBroken \/ StartParanetSync
    BY <1>2 DEF StartEndsEarly, KeyIsBroken, StartParanetSync, ParanetInv, Alive
<1>3. CASE ReadPrivateKey \/ SavePrivateKey \/ StageDone \/ ProfilesDone \/ ParanetsDone
  <2>1. /\ UNCHANGED <<identity, paranetVars>> /\ Alive
        /\ stage = "paranets" => paranet \notin DOMAIN Paranets
      BY <1>3 DEF ReadPrivateKey, SavePrivateKey, StageDone, ProfilesDone, ParanetsDone, Following,
         Alive
  <2> QED
      BY <1>0, <2>1 DEF ParanetInv, LetIn
<1>4. CASE ExamineParanet
  <2>1. /\ stage = "paranets" /\ paranetStep = "read" /\ UNCHANGED <<stage, identity, publicCurrent>>
        /\ UNCHANGED <<validParanets, toRecord, paranetRecords>>
        /\ paranetStep' = "identity" => Paranets[paranet].chain \in StartChains
        /\ paranetStep' = "repository" => Paranets[paranet].access # "curated"
        /\ paranetStep' # "read" => paranet' = paranet
      BY <1>0, <1>4 DEF ExamineParanet, ParanetAt, ParanetGoes
  <2> QED
      BY <1>0, <2>1 DEF ParanetInv, LetIn, Alive
<1>5. CASE CheckCurated
  <2>0. PICK c \in StartChains : c = Paranets[paranet].chain
      BY <1>0, <1>5 DEF CheckCurated, ParanetAt, ParanetInv, Alive
  <2>1. /\ stage = "paranets" /\ paranetStep = "identity" /\ UNCHANGED <<stage, publicCurrent>>
        /\ UNCHANGED <<validParanets, toRecord, paranetRecords, identityOf>> /\ IdentityRead(c)
        /\ paranetStep' \in {"repository", "read"}
        /\ paranetStep' = "repository" => /\ paranet' = paranet
                                          /\ Resolved(c) \in Paranets[paranet].members
      BY <1>5, <2>0 DEF CheckCurated, ParanetAt, ParanetGoes
  <2>2. WalletInv(c)
      BY <1>0, <2>1 DEF ChainsInv, Alive
  <2>3. \A k \in validParanets : LetIn(k)'
      BY <1>0, <2>1, <2>2, LetInStays DEF ParanetInv, Alive
  <2>4. identity'[c] = Resolved(c)
      BY <1>0, <2>1, <2>2, IdentityIsRead
  <2>5. paranetStep' = "repository" => LetIn(paranet)'
      BY <2>0, <2>1, <2>4 DEF LetIn
  <2> QED
      BY <1>0, <2>1, <2>3, <2>5 DEF ParanetInv, Alive
<1>6. CASE InitializeParanetRepository
  <2>1. /\ stage = "paranets" /\ paranet \in DOMAIN Paranets /\ paranetStep = "repository"
        /\ validParanets' = validParanets \cup {paranet} /\ paranetStep' = "record"
        /\ UNCHANGED <<identity, toRecord, paranetRecords, publicCurrent, paranet>>
        /\ stage' = "off" \/ (stage' = "paranets" /\ publicCurrent)
      BY <1>6 DEF InitializeParanetRepository, ParanetAt, ParanetGoes
  <2>2. LetIn(paranet) /\ \A k \in validParanets : LetIn(k)
      BY <1>0, <2>1 DEF ParanetInv, Alive
  <2> QED
      BY <1>0, <2>1, <2>2 DEF ParanetInv, LetIn, Alive
<1>7. CASE InitializeParanetRecord
  <2>1. /\ stage = "paranets" /\ paranetStep = "record" /\ paranetStep' = "read"
        /\ toRecord' = toRecord \cup ({paranet} \ paranetRecords)
        /\ UNCHANGED <<identity, validParanets, paranetRecords, publicCurrent, stage>>
      BY <1>7 DEF InitializeParanetRecord, ParanetAt, ParanetGoes
  <2> QED
      BY <1>0, <2>1 DEF ParanetInv, LetIn, Alive
<1>8. CASE \E k \in DOMAIN Paranets : RecordLands(k)
    BY <1>0, <1>8 DEF RecordLands, ParanetInv, LetIn, Alive
<1>9. ASSUME NEW c \in StartChains, ChainStep(c) PROVE ParanetInv'
  <2>1. stage = "profiles" /\ UNCHANGED <<stage, paranetVars>>
      BY <1>9 DEF ChainStep, GetIdentityId, CreateProfile, CreateProfileFails, CheckNodeId, ProfileFails
  <2>2. UNCHANGED identity \/ (IdentityRead(c) /\ UNCHANGED identityOf)
      BY <1>9 DEF ChainStep, GetIdentityId, CreateProfile, CreateProfileFails, CheckNodeId, ProfileFails
  <2>3. WalletInv(c) /\ \A k \in validParanets : LetIn(k)
      BY <1>0, <2>1 DEF ChainsInv, ParanetInv, Alive
  <2>4. \A k \in DOMAIN Paranets : LetIn(k) => LetIn(k)'
      BY <1>0, <2>2, <2>3, LetInStays DEF LetIn
  <2> QED
      BY <1>0, <2>1, <2>3, <2>4 DEF ParanetInv, Alive
<1>10. CASE UNCHANGED startVars
    BY <1>0, <1>10 DEF startVars, ParanetInv, LetIn, Alive
<1> QED
    BY <1>1, <1>2, <1>3, <1>4, <1>5, <1>6, <1>7, <1>8, <1>9, <1>10, StartSteps DEF OneByOne, ParanetStep

-----------------------------------------------------------------------------

LEMMA StartBegins ==
    ASSUME StartInit
    PROVE  StartIInv
<1> USE DEF StartInit
<1>1. stage = "off" /\ keyFile \in {0, 1} /\ keys = keyFile /\ peerId = 0 /\ startFaults = 0
      /\ MaxKeys \in Nat /\ MaxKeys > 0 /\ MaxStartFaults \in Nat /\ Foreign = MaxKeys + 1
    BY StartAssumption DEF Foreign
<1>2. /\ DOMAIN identityOf = StartChains /\ DOMAIN wallets = StartChains
      /\ \A c \in StartChains : wallets[c] \in Seq(1..WalletsOf[c])
    BY EmptySeq
<1>3. \A c \in StartChains : identityOf[c] \in [1..WalletsOf[c] -> 0..2]
  <2> TAKE c \in StartChains
  <2>1. identityOf[c] \in UNION {[1..WalletsOf[d] -> 0..2] : d \in StartChains}
        /\ DOMAIN identityOf[c] = 1..WalletsOf[c]
      OBVIOUS
  <2>2. PICK d \in StartChains : identityOf[c] \in [1..WalletsOf[d] -> 0..2]
      BY <2>1
  <2> QED
      BY <2>1, <2>2
<1>4. \A c \in StartChains : nodeId[c] \in [Identities -> {0, keyFile, Foreign}]
    OBVIOUS
<1>5. nodeId \in [StartChains -> [Identities -> 0..Foreign]]
  <2>1. {0, keyFile, Foreign} \subseteq 0..Foreign
      BY <1>1
  <2>2. nodeId \in [StartChains -> [Identities -> {0, keyFile, Foreign}]]
      OBVIOUS
  <2>3. [Identities -> {0, keyFile, Foreign}] \subseteq [Identities -> 0..Foreign]
      BY <2>1
  <2> QED
      BY <2>2, <2>3
<1>6. KeyOutlivesProfile
    BY <1>1, <1>4 DEF KeyOutlivesProfile, Identities
<1>7. StartupTypes
  <2>1. 0 \in 0..CreateTries - 1 /\ 1 \in 1..Len(Paranets) + 1
      BY StartAssumption
  <2>2. identity \in [StartChains -> 0..2] /\ createTry \in [StartChains -> 0..CreateTries - 1]
        /\ profileAt \in [StartChains -> {"exists", "create", "identity", "check", "done",
                                           "removed"}]
      BY <2>1
  <2> QED
      BY <1>1, <1>2, <1>3, <1>5, <2>1, <2>2 DEF StartupTypes
<1> QED
    BY <1>1, <1>6, <1>7 DEF StartIInv, KeyInv, Keyed, RegisteredInv, ChainsInv, ParanetInv, Alive,
                            Started

LEMMA StartTypesHold ==
    ASSUME StartIInv
    PROVE  StartTypeOK
<1>1. \A c \in StartChains : Range(wallets[c]) \subseteq 1..WalletsOf[c]
  <2> TAKE c \in StartChains
  <2>1. wallets[c] \in Seq(1..WalletsOf[c])
      BY DEF StartIInv, StartupTypes
  <2>2. \A j \in DOMAIN wallets[c] : wallets[c][j] \in 1..WalletsOf[c]
    <3> DEFINE s == wallets[c]
               S == 1..WalletsOf[c]
    <3>1. s \in Seq(S)
        BY <2>1
    <3> HIDE DEF s, S
    <3>2. \A j \in DOMAIN s : s[j] \in S
        BY <3>1, ElementOfSeq
    <3> QED
        BY <3>2 DEF s, S
  <2> QED
      BY <2>2 DEF Range
<1>2. stage \in {"off", "key", "save", "paranets", "profiles", "up"} \cup DOMAIN Following
    BY DEF StartIInv, StartupTypes, Following
<1> QED
    BY <1>1, <1>2 DEF StartIInv, StartupTypes, KeyInv, StartTypeOK

LEMMA StartIsRight ==
    ASSUME StartIInv
    PROVE  StartInv
<1> USE DEF StartIInv
<1>1. KeyOutlivesProfile
    BY DEF KeyInv
<1>2. RemovedAreTheFailed
    BY DEF RegisteredInv, RemovedAreTheFailed, Alive, Started
<1>3. UpIsOurs
  <2> SUFFICES ASSUME Started
               PROVE  /\ registered # {}
                      /\ \A c \in registered : identity[c] # 0 => nodeId[c][identity[c]] = peerId
      BY DEF UpIsOurs
  <2> QED
      BY DEF RegisteredInv, ChainsInv, ProfileInv, Alive, Started
<1>4. WalletsCounted
  <2> SUFFICES ASSUME Started, NEW c \in registered, identity[c] # 0
               PROVE  Len(wallets[c])
                   = Cardinality({w \in DOMAIN identityOf[c] : identityOf[c][w] = identity[c]})
      BY DEF WalletsCounted
  <2>1. c \in StartChains /\ WalletInv(c) /\ DOMAIN identityOf[c] = 1..WalletsOf[c]
      BY DEF StartupTypes, ChainsInv, Alive, Started
  <2> QED
      BY <2>1 DEF WalletInv
<1>5. SyncedAsMember
    BY DEF SyncedAsMember, ParanetInv, LetIn, Alive, Started
<1> QED
    BY <1>1, <1>2, <1>3, <1>4, <1>5 DEF StartInv

LEMMA StartStays == StartIInv /\ [StartNext]_startVars => StartIInv'
BY TypesStep, KeyStep, RegisteredStep, ChainsStep, ParanetsStep DEF StartIInv

(* Every part of the state of the start of a node keeps its type: the steps  *)
(* of start() in ot-node.js, createProfiles, initializeParanets and the      *)
(* key of the network module.                                                *)
THEOREM StartTypeCorrect == StartSpec => []StartTypeOK
BY StartBegins, StartStays, StartTypesHold, PTL DEF StartSpec

(* A node that is up is the node its profiles name, on every blockchain it   *)
(* did not remove, with as many wallets as have its identity, and synced     *)
(* only with paranets that its identity is a member of: whatever the         *)
(* contracts held, however often it died and whichever attempts to create a  *)
(* profile failed (start() in ot-node.js).                                   *)
THEOREM StartCorrect == StartSpec => []StartInv
BY StartBegins, StartStays, StartIsRight, PTL DEF StartSpec

-----------------------------------------------------------------------------
(* The migration of the data: its inductive invariant.                     *)

AtDatabase == migAt \in {"batch", "fetch", "insert", "verify", "mark", "rpc", "newer", "insertNewer",
                         "verifyNewer", "saveNewer", "finish"}
OfNewer == migAt \in {"rpc", "newer", "insertNewer", "verifyNewer", "saveNewer"}
Rows == rowsTodo \cup rowsDone

(* There are rows once the database is whole: all that it listed, and of    *)
(* the newer tokens no gap.                                                *)
WholeInv ==
    /\ migAt = "download" => dbFile = "partial"
    /\ dbFile # "whole" => rowsTodo = {} /\ rowsDone = {}
    /\ AtDatabase => dbFile = "whole" /\ chainIndex \in ChainIds
    /\ dbFile = "whole" =>
          /\ \A c \in ChainIds : \A n \in Listed[c] : <<c, n>> \in Rows
          /\ \A t \in Rows : \A n \in DueOf(t[1]) : n < t[2] => <<t[1], n>> \in Rows

(* What is inserted and still unchecked, and what is done, of a batch.      *)
BatchInv ==
    /\ migAt \in {"fetch", "insert", "verify", "mark"} => batchIds \subseteq Rows
    /\ migAt \in {"insert", "verify", "mark"} => fetched \subseteq batchIds
    /\ migAt = "verify" => toCheck = Insertable(fetched) /\ processed = fetched \ toCheck
    /\ migAt = "mark" => processed \subseteq fetched /\ Insertable(processed) \subseteq kaGraphs

(* The blockchains before this one are done, and of this one the tokens     *)
(* before the newer one that is at work.                                   *)
NewerInv ==
    /\ AtDatabase => \A c \in ChainIds : c < chainIndex => \A n \in DueOf(c) : <<c, n>> \in rowsDone
    /\ OfNewer =>
          /\ TodoOf(chainIndex) = {} /\ newTokenId # 0
          /\ \A n \in DueOf(chainIndex) : n < newTokenId => <<chainIndex, n>> \in rowsDone
    /\ migAt \in {"insertNewer", "verifyNewer", "saveNewer"} => newTokenId <= Minted[chainIndex]
    /\ migAt = "saveNewer" => Insertable({NewToken}) \subseteq kaGraphs
    /\ migAt = "finish" => Due \subseteq rowsDone

MigIInv == MigTypeOK /\ WholeInv /\ BatchInv /\ NewerInv /\ DoneIsStored /\ MigratedIsComplete

-----------------------------------------------------------------------------
(* Tokens                                                                  *)

LEMMA TokensAre ==
    /\ \A t \in Tokens : t[1] \in ChainIds /\ t[2] \in 1..Minted[t[1]] /\ t[2] \in Nat /\ t = <<t[1], t[2]>>
    /\ \A c \in ChainIds : \A n \in 1..Minted[c] : <<c, n>> \in Tokens
    /\ \A c \in ChainIds : c \in Nat /\ Minted[c] \in Nat /\ Listed[c] \subseteq 1..Minted[c] /\ Listed[c] # {}
<1>1. \A c \in ChainIds : c \in Nat /\ Minted[c] \in Nat /\ Listed[c] \subseteq 1..Minted[c] /\ Listed[c] # {}
    BY MigAssumption DEF ChainIds
<1>2. \A t \in Tokens : t[1] \in ChainIds /\ t[2] \in 1..Minted[t[1]] /\ t = <<t[1], t[2]>>
    BY DEF Tokens
<1>3. \A c \in ChainIds : \A n \in 1..Minted[c] : <<c, n>> \in Tokens
    BY DEF Tokens
<1> QED BY <1>1, <1>2, <1>3

LEMMA DueIs == /\ \A t \in Due : t[1] \in ChainIds /\ t[2] \in DueOf(t[1]) /\ t = <<t[1], t[2]>>
               /\ \A c \in ChainIds : \A n \in DueOf(c) : n \in 1..Minted[c] /\ n \in Nat
BY TokensAre DEF Due, DueOf

LEMMA OfFinite ==
    ASSUME NEW c \in ChainIds, MigTypeOK
    PROVE  IsFiniteSet(TodoOf(c))
<1>1. IsFiniteSet({c}) /\ IsFiniteSet(1..Minted[c])
    <2>1. Minted[c] \in Int /\ 1 \in Int
        BY TokensAre
    <2>2. IsFiniteSet({c})
        BY FS_Singleton
    <2> QED BY <2>1, <2>2, FS_Interval
<1>2. IsFiniteSet({c} \X (1..Minted[c]))
    BY <1>1, FS_Product
<1>3. TodoOf(c) \subseteq {c} \X (1..Minted[c])
    BY TokensAre DEF TodoOf, Of
<1> QED BY <1>2, <1>3, FS_Subset

(* The highest token of a blockchain that has a row.                        *)
LEMMA HighestIs ==
    ASSUME MigTypeOK, NEW c \in ChainIds, \E n : <<c, n>> \in Rows
    PROVE  /\ HighestTokenId(c) \in Nat /\ <<c, HighestTokenId(c)>> \in Rows
           /\ \A t \in Rows \cap Of(c) : t[2] <= HighestTokenId(c)
<1> DEFINE S == {t[2] : t \in Rows \cap Of(c)}
<1>1. Rows \subseteq Tokens
    BY DEF MigTypeOK, Rows
<1>2. S \in SUBSET (0..Minted[c])
    BY <1>1, TokensAre DEF Of
<1>3. S # {}
    <2>1. PICK n : <<c, n>> \in Rows
        OBVIOUS
    <2>2. <<c, n>> \in Rows \cap Of(c)
        BY <1>1, <2>1 DEF Of
    <2> QED BY <2>2
<1>4. \E n \in S : \A k \in S : k <= n
    BY <1>2, <1>3, TokensAre, MaximumExists
<1>5. HighestTokenId(c) \in S /\ \A t \in Rows \cap Of(c) : t[2] <= HighestTokenId(c)
    <2>1. \E n \in S : \A t \in Rows \cap Of(c) : t[2] <= n
        BY <1>4
    <2> QED BY <2>1 DEF HighestTokenId, Rows
<1>6. PICK t \in Rows \cap Of(c) : t[2] = HighestTokenId(c)
    BY <1>5
<1>7. t = <<c, HighestTokenId(c)>>
    BY <1>1, <1>6, TokensAre DEF Of
<1> QED BY <1>1, <1>2, <1>5, <1>6, <1>7, TokensAre

-----------------------------------------------------------------------------
(* Every step keeps the types ...                                          *)

DiskTypes ==
    /\ dbFile \in {"none", "partial", "whole"} /\ progressFile \in {"none", "empty", "MIGRATED"}
    /\ rowsTodo \subseteq Tokens /\ rowsDone \subseteq Tokens /\ kaGraphs \subseteq Tokens
    /\ holds \in [Tokens -> MigKinds]

PlaceTypes ==
    /\ migAt \in {"stopped", "connect", "download", "open", "batch", "fetch", "insert",
                  "verify", "mark", "rpc", "newer", "insertNewer", "verifyNewer", "saveNewer",
                  "finish"}
    /\ checks \in 0..ConnectRetries /\ connected \in BOOLEAN
    /\ chainIndex \in 0..MigChains /\ newTokenId \in Nat

BatchTypes == batchIds \subseteq Tokens /\ fetched \subseteq Tokens /\ toCheck \subseteq Tokens
                  /\ processed \subseteq Tokens

LEMMA TypesAre == MigTypeOK <=> DiskTypes /\ PlaceTypes /\ BatchTypes /\ migFaults \in 0..MaxMigFaults
BY DEF MigTypeOK, DiskTypes, PlaceTypes, BatchTypes

LEMMA ExitsTypes == ASSUME Exits PROVE PlaceTypes' /\ BatchTypes'
<1>1. 0 \in 0..ConnectRetries /\ 0 \in 0..MigChains
    BY MigAssumption
<1> QED BY <1>1 DEF Exits, PlaceTypes, BatchTypes

LEMMA MigFaultTypes ==
    ASSUME MigTypeOK, MigFault \/ UNCHANGED migFaults
    PROVE  migFaults' \in 0..MaxMigFaults
BY MigAssumption DEF MigFault, MigTypeOK

(* The only steps that write the disk write tokens there.                   *)
LEMMA DiskKeeps ==
    ASSUME MigIInv, MigNext
    PROVE  DiskTypes'
<1> USE DEF migDisk, MigGoes
<1>0. DiskTypes /\ PlaceTypes /\ BatchTypes
    BY TypesAre DEF MigIInv
<1>2. CASE \/ EnsureConnection \/ OpenDatabase \/ StartBatch \/ GetAssertionsInBatch
          \/ ProcessAndInsertAssertions \/ ConnectRpc \/ NewerAssertionsEnd \/ FetchNewer
          \/ VerifyNewer \/ MigrationDies
    <2>1. UNCHANGED <<dbFile, progressFile, rowsTodo, rowsDone, kaGraphs, holds>>
        BY <1>2 DEF EnsureConnection, OpenDatabase, StartBatch, GetAssertionsInBatch,
           ProcessAndInsertAssertions, ConnectRpc, NewerAssertionsEnd, FetchNewer, VerifyNewer, MigrationDies
    <2> QED BY <1>0, <2>1 DEF DiskTypes
<1>3. CASE EnsureProgressFile \/ Download \/ MarkMigrationAsSuccessfull
    BY <1>0, <1>3 DEF EnsureProgressFile, Download, MarkMigrationAsSuccessfull, DiskTypes
<1>4. CASE DownloadFinishes
    <2>1. rowsTodo' \subseteq Tokens
        BY <1>4, TokensAre DEF DownloadFinishes
    <2> QED BY <1>0, <1>4, <2>1 DEF DownloadFinishes, DiskTypes
<1>5. CASE InsertAssertions
    BY <1>0, <1>5 DEF InsertAssertions, Landed, Insertable, DiskTypes, BatchTypes
<1>6. CASE MarkRowsAsProcessed
    BY <1>0, <1>6 DEF MarkRowsAsProcessed, MarkRows, DiskTypes, BatchTypes
<1>7. CASE InsertNewer \/ SaveNewer
    <2>1. NewToken \in Tokens
        <3>1. newTokenId \in 1..Minted[chainIndex] /\ chainIndex \in ChainIds
            BY <1>0, <1>7, TokensAre DEF InsertNewer, SaveNewer, MigIInv, NewerInv, OfNewer, WholeInv,
               AtDatabase, PlaceTypes
        <3> QED BY <3>1, TokensAre DEF NewToken
    <2> QED BY <1>0, <1>7, <2>1 DEF InsertNewer, SaveNewer, InsertRow, Landed, Insertable, DiskTypes
<1> QED BY <1>2, <1>3, <1>4, <1>5, <1>6, <1>7 DEF MigNext, MigStep

LEMMA PlaceKeeps ==
    ASSUME MigIInv, MigNext
    PROVE  PlaceTypes' /\ BatchTypes'
<1> USE DEF migBatch, MigGoes, PlaceTypes, BatchTypes
<1>0. DiskTypes /\ PlaceTypes /\ BatchTypes /\ WholeInv
    BY TypesAre DEF MigIInv
<1>1. CASE Exits
    BY <1>1, ExitsTypes
<1>2. CASE EnsureProgressFile \/ Download \/ DownloadFinishes
    BY <1>0, <1>2 DEF EnsureProgressFile, Download, DownloadFinishes
<1>3. CASE EnsureConnection /\ ~Exits
    <2>1. /\ checks # ConnectRetries /\ checks' = checks + 1 /\ connected' \in BOOLEAN
          /\ UNCHANGED <<migAt, chainIndex, batchIds, fetched, toCheck, processed, newTokenId>>
        <3>1. PICK r : IF LastCheck
                         THEN Exits
                         ELSE /\ checks' = checks + 1 /\ connected' = HealthCheck(r)
                              /\ UNCHANGED <<migAt, chainIndex, migBatch, newTokenId>>
            BY <1>3, Zenon DEF EnsureConnection
        <3>2. HealthCheck(r) \in BOOLEAN
            <4>1. CASE TripleStore = "ot-graphdb"
                BY <4>1 DEF HealthCheck
            <4>2. CASE TripleStore # "ot-graphdb"
                BY <4>2 DEF HealthCheck
            <4> QED BY <4>1, <4>2
        <3> QED BY <1>3, <3>1, <3>2 DEF LastCheck
    <2> QED BY <1>0, <2>1, MigAssumption
<1>4. CASE OpenDatabase /\ ~Exits
    BY <1>0, <1>4, MigAssumption DEF OpenDatabase
<1>5. CASE StartBatch
    <2>1. chainIndex \in ChainIds /\ MigTypeOK
        BY <1>5 DEF MigIInv, StartBatch, WholeInv, AtDatabase
    <2>2. batchIds' \subseteq Tokens
        BY <1>0, <1>5 DEF StartBatch, GetBatchOfUnprocessedTokenIds, TodoOf, DiskTypes
    <2>3. newTokenId' \in Nat
        <3>1. \E n : <<chainIndex, n>> \in Rows
            BY <1>5, <2>1, TokensAre DEF MigIInv, WholeInv, AtDatabase, StartBatch
        <3>2. HighestTokenId(chainIndex) \in Nat
            BY <2>1, <3>1, HighestIs
        <3> QED BY <1>5, <3>2 DEF StartBatch
    <2> QED BY <1>0, <1>5, <2>2, <2>3 DEF StartBatch
<1>6. CASE GetAssertionsInBatch
    <2>1. fetched' \subseteq Tokens /\ migAt' \in {"batch", "insert"}
        BY <1>0, <1>6 DEF GetAssertionsInBatch, Fetchable
    <2> QED BY <1>0, <1>6, <2>1 DEF GetAssertionsInBatch
<1>7. CASE InsertAssertions
    <2>1. toCheck' \subseteq Tokens /\ processed' \subseteq Tokens /\ migAt' \in {"batch", "verify"}
        BY <1>0, <1>7 DEF InsertAssertions, Insertable
    <2> QED BY <1>0, <1>7, <2>1 DEF InsertAssertions
<1>8. CASE ProcessAndInsertAssertions
    <2>1. processed' \subseteq Tokens /\ migAt' \in {"batch", "mark"}
        BY <1>0, <1>8 DEF ProcessAndInsertAssertions, InsertConfirmed
    <2> QED BY <1>0, <1>8, <2>1 DEF ProcessAndInsertAssertions
<1>9. CASE MarkRowsAsProcessed \/ ((ConnectRpc \/ InsertNewer) /\ ~Exits) \/ FetchNewer \/ VerifyNewer
    <2>1. /\ UNCHANGED <<checks, connected, chainIndex, batchIds, fetched, toCheck, processed, newTokenId>>
          /\ migAt' \in {migAt, "batch", "newer", "insertNewer", "saveNewer", "verifyNewer"}
        BY <1>9 DEF MarkRowsAsProcessed, ConnectRpc, InsertNewer, FetchNewer, VerifyNewer
    <2> QED BY <1>0, <2>1
<1>10. CASE NewerAssertionsEnd
    <2>1. chainIndex' \in 0..MigChains
        BY <1>0, <1>10, MigAssumption DEF NewerAssertionsEnd
    <2> QED BY <1>0, <1>10, <2>1 DEF NewerAssertionsEnd
<1>11. CASE SaveNewer
    BY <1>0, <1>11 DEF SaveNewer
<1>12. CASE MarkMigrationAsSuccessfull \/ MigrationDies
    BY <1>1, <1>12 DEF MarkMigrationAsSuccessfull, MigrationDies
<1> QED BY <1>1, <1>2, <1>3, <1>4, <1>5, <1>6, <1>7, <1>8, <1>9, <1>10, <1>11, <1>12 DEF MigNext, MigStep

LEMMA MigTypesKeep ==
    ASSUME MigIInv, MigNext
    PROVE  MigTypeOK'
<1>1. MigFault \/ UNCHANGED migFaults
    BY DEF MigNext, MigStep, EnsureProgressFile, EnsureConnection, Download, DownloadFinishes,
       OpenDatabase, StartBatch, GetAssertionsInBatch, InsertAssertions, ProcessAndInsertAssertions,
       MarkRowsAsProcessed, ConnectRpc, NewerAssertionsEnd, FetchNewer, InsertNewer, VerifyNewer,
       SaveNewer, MarkMigrationAsSuccessfull, MigrationDies
<1> QED BY <1>1, DiskKeeps, PlaceKeeps, MigFaultTypes, TypesAre DEF MigIInv, MigTypeOK, DiskTypes, PlaceTypes, BatchTypes

(* ... the rows ...                                                        *)

(* More rows leave no gap if none is missing before a new one.              *)
LEMMA RowsKeep ==
    ASSUME WholeInv, MigTypeOK', UNCHANGED dbFile, Rows \subseteq Rows',
           \A t \in Rows' \ Rows : \A n \in DueOf(t[1]) : n < t[2] => <<t[1], n>> \in Rows,
           dbFile = "whole" \/ Rows' = {},
           migAt' = "download" => dbFile' = "partial",
           AtDatabase' => dbFile' = "whole" /\ chainIndex' \in ChainIds
    PROVE  WholeInv'
<1>1. dbFile' # "whole" => rowsTodo' = {} /\ rowsDone' = {}
    BY DEF Rows
<1>2. dbFile' = "whole" => \A c \in ChainIds : \A n \in Listed[c] : <<c, n>> \in Rows'
    BY DEF WholeInv
<1>3. dbFile' = "whole" => \A t \in Rows' : \A n \in DueOf(t[1]) : n < t[2] => <<t[1], n>> \in Rows'
    BY DEF WholeInv
<1> QED BY <1>1, <1>2, <1>3 DEF WholeInv

LEMMA DatabaseKeeps ==
    ASSUME MigIInv, MigNext
    PROVE  WholeInv'
<1> USE DEF migDisk, migBatch, MigGoes
<1>0. MigTypeOK /\ WholeInv /\ BatchInv /\ NewerInv /\ MigTypeOK'
    BY MigTypesKeep DEF MigIInv
<1>1. CASE UNCHANGED <<dbFile, rowsTodo, rowsDone>>
    <2>1. UNCHANGED Rows /\ (dbFile = "whole" \/ Rows' = {})
        BY <1>0, <1>1 DEF Rows, WholeInv
    <2>2. /\ migAt' = "download" => dbFile' = "partial"
          /\ AtDatabase' => dbFile' = "whole" /\ chainIndex' \in ChainIds
        BY <1>0, <1>1, MigAssumption DEF MigNext, MigStep, EnsureProgressFile, EnsureConnection, Download,
           DownloadFinishes, OpenDatabase, StartBatch, GetAssertionsInBatch, InsertAssertions,
           ProcessAndInsertAssertions, MarkRowsAsProcessed, ConnectRpc, NewerAssertionsEnd, FetchNewer,
           InsertNewer, VerifyNewer, SaveNewer, MarkMigrationAsSuccessfull, MigrationDies, Exits,
           WholeInv, AtDatabase, ChainIds
    <2> QED BY <1>0, <1>1, <2>1, <2>2, RowsKeep
<1>2. CASE Download
    BY <1>0, <1>2 DEF Download, WholeInv, AtDatabase, Rows
<1>3. CASE DownloadFinishes
    <2>1. rowsDone' = {} /\ dbFile' = "whole" /\ migAt' = "open"
        BY <1>0, <1>3 DEF DownloadFinishes, WholeInv
    <2>2. \A c \in ChainIds : \A n \in Listed[c] : <<c, n>> \in rowsTodo'
        BY <1>3 DEF DownloadFinishes
    <2>3. \A t \in rowsTodo' : t[1] \in ChainIds /\ t[2] \in Listed[t[1]] /\ t[2] \in Nat
        BY <1>3, TokensAre DEF DownloadFinishes
    <2>4. ASSUME NEW t \in rowsTodo', NEW n \in DueOf(t[1]), n < t[2]
          PROVE  <<t[1], n>> \in rowsTodo'
        <3>1. n \in Listed[t[1]]
            BY <2>3, <2>4, TokensAre DEF DueOf
        <3> QED BY <2>2, <2>3, <3>1
    <2> QED BY <2>1, <2>2, <2>4 DEF WholeInv, AtDatabase, Rows
<1>4. CASE MarkRowsAsProcessed
    <2>1. Rows \subseteq Rows' /\ dbFile = "whole" /\ migAt' = "batch" /\ UNCHANGED <<dbFile, chainIndex>>
          /\ chainIndex \in ChainIds
        BY <1>0, <1>4 DEF MarkRowsAsProcessed, MarkRows, Rows, WholeInv, AtDatabase
    <2>2. Rows' \ Rows \subseteq processed
        BY <1>0, <1>4 DEF MarkRowsAsProcessed, MarkRows, Rows
    <2>3. processed \subseteq Rows
        BY <1>0, <1>4 DEF MarkRowsAsProcessed, BatchInv
    <2> QED BY <1>0, <2>1, <2>2, <2>3, RowsKeep DEF AtDatabase
<1>5. CASE SaveNewer
    <2>1. /\ dbFile = "whole" /\ migAt' = "newer" /\ UNCHANGED <<dbFile, chainIndex, rowsTodo>>
          /\ chainIndex \in ChainIds /\ Rows \subseteq Rows'
        BY <1>0, <1>5 DEF SaveNewer, InsertRow, Rows, WholeInv, AtDatabase
    <2>2. Rows' \ Rows \subseteq {NewToken}
        BY <1>5 DEF SaveNewer, InsertRow, Rows
    <2>3. \A n \in DueOf(chainIndex) : n < newTokenId => <<chainIndex, n>> \in Rows
        BY <1>0, <1>5 DEF SaveNewer, NewerInv, OfNewer, Rows
    <2>4. \A t \in Rows' \ Rows : \A n \in DueOf(t[1]) : n < t[2] => <<t[1], n>> \in Rows
        BY <2>2, <2>3 DEF NewToken
    <2> QED BY <1>0, <2>1, <2>4, RowsKeep DEF AtDatabase
<1>6. \/ UNCHANGED <<dbFile, rowsTodo, rowsDone>>
      \/ Download \/ DownloadFinishes \/ MarkRowsAsProcessed \/ SaveNewer
    BY DEF MigNext, MigStep, EnsureProgressFile, EnsureConnection, OpenDatabase, StartBatch,
       GetAssertionsInBatch, InsertAssertions, ProcessAndInsertAssertions, ConnectRpc,
       NewerAssertionsEnd, FetchNewer, InsertNewer, VerifyNewer, MarkMigrationAsSuccessfull, MigrationDies
<1> QED BY <1>1, <1>2, <1>3, <1>4, <1>5, <1>6

(* ... the batch at work ...                                                *)

LEMMA OnlyGrows ==
    ASSUME MigNext
    PROVE  /\ rowsDone \subseteq rowsDone' /\ kaGraphs \subseteq kaGraphs' /\ holds' = holds
           /\ migAt # "download" => Rows \subseteq Rows'
           /\ \A s : Insertable(s)' = {t \in s' : holds[t] # "absent" /\ holds[t] # "illegal"}
<1>1. holds' = holds
    BY DEF migDisk, MigNext, MigStep, EnsureProgressFile, EnsureConnection, Download, DownloadFinishes,
       OpenDatabase, StartBatch, GetAssertionsInBatch, InsertAssertions, ProcessAndInsertAssertions,
       MarkRowsAsProcessed, ConnectRpc, NewerAssertionsEnd, FetchNewer, InsertNewer, VerifyNewer,
       SaveNewer, MarkMigrationAsSuccessfull, MigrationDies
<1>2. \/ UNCHANGED <<rowsTodo, rowsDone>>
      \/ UNCHANGED rowsDone /\ migAt = "download"
      \/ rowsTodo' = rowsTodo \ processed /\ rowsDone' = rowsDone \cup processed
      \/ UNCHANGED rowsTodo /\ rowsDone' = rowsDone \cup {NewToken}
    BY DEF migDisk, MigGoes, MigNext, MigStep, EnsureProgressFile, EnsureConnection, Download,
       DownloadFinishes, OpenDatabase, StartBatch, GetAssertionsInBatch, InsertAssertions,
       ProcessAndInsertAssertions, MarkRowsAsProcessed, ConnectRpc, NewerAssertionsEnd, FetchNewer,
       InsertNewer, VerifyNewer, SaveNewer, MarkMigrationAsSuccessfull, MigrationDies, MarkRows, InsertRow
<1>3. kaGraphs' = kaGraphs \/ (\E s : kaGraphs' \in {kaGraphs, Landed(s)})
    BY DEF migDisk, MigGoes, MigNext, MigStep, EnsureProgressFile, EnsureConnection, Download,
       DownloadFinishes, OpenDatabase, StartBatch, GetAssertionsInBatch, InsertAssertions,
       ProcessAndInsertAssertions, MarkRowsAsProcessed, ConnectRpc, NewerAssertionsEnd, FetchNewer,
       InsertNewer, VerifyNewer, SaveNewer, MarkMigrationAsSuccessfull, MigrationDies
<1>4. kaGraphs \subseteq kaGraphs'
    BY <1>3 DEF Landed
<1> QED BY <1>1, <1>2, <1>4 DEF Rows, Insertable, HasSpecialCharactersInIRI

LEMMA BatchKeeps ==
    ASSUME MigIInv, MigNext
    PROVE  BatchInv'
<1> USE DEF migDisk, migBatch, MigGoes, BatchInv
<1>0. BatchInv
    BY DEF MigIInv
<1>1. CASE StartBatch
    <2>1. batchIds' \subseteq Rows' /\ migAt' \in {"rpc", "fetch"}
        BY <1>1 DEF StartBatch, GetBatchOfUnprocessedTokenIds, TodoOf, Rows
    <2> QED BY <2>1
<1>2. CASE GetAssertionsInBatch
    <2>1. fetched' \subseteq batchIds' /\ batchIds' \subseteq Rows' /\ migAt' \in {"batch", "insert"}
        BY <1>0, <1>2 DEF GetAssertionsInBatch, Fetchable, Rows
    <2> QED BY <2>1
<1>3. CASE InsertAssertions
    <2>1. fetched' \subseteq batchIds' /\ batchIds' \subseteq Rows' /\ migAt' \in {"batch", "verify"}
        BY <1>0, <1>3 DEF InsertAssertions, Rows
    <2>2. toCheck' = Insertable(fetched)' /\ processed' = fetched' \ toCheck'
        BY <1>3 DEF InsertAssertions, Insertable, HasSpecialCharactersInIRI
    <2> QED BY <2>1, <2>2
<1>4. CASE ProcessAndInsertAssertions
    <2>1. fetched' \subseteq batchIds' /\ batchIds' \subseteq Rows' /\ migAt' \in {"batch", "mark"}
        BY <1>0, <1>4 DEF ProcessAndInsertAssertions, Rows
    <2>2. processed' \subseteq fetched /\ Insertable(processed') \subseteq kaGraphs
        BY <1>0, <1>4 DEF ProcessAndInsertAssertions, InsertConfirmed, Insertable
    <2>3. processed' \subseteq fetched' /\ Insertable(processed)' \subseteq kaGraphs'
        BY <1>4, <2>2 DEF ProcessAndInsertAssertions, Insertable, HasSpecialCharactersInIRI
    <2> QED BY <2>1, <2>3
<1>5. \/ StartBatch \/ GetAssertionsInBatch \/ InsertAssertions \/ ProcessAndInsertAssertions
      \/ migAt' \notin {"fetch", "insert", "verify", "mark"}
    BY DEF MigNext, MigStep, EnsureProgressFile, EnsureConnection, Download, DownloadFinishes,
       OpenDatabase, MarkRowsAsProcessed, ConnectRpc, NewerAssertionsEnd, FetchNewer, InsertNewer,
       VerifyNewer, SaveNewer, MarkMigrationAsSuccessfull, MigrationDies, Exits
<1> QED BY <1>1, <1>2, <1>3, <1>4, <1>5

(* ... the newer tokens ...                                                 *)

(* A batch is empty only when no row of the blockchain is left; the tokens   *)
(* up to its highest one are done then.                                    *)
LEMMA EmptyBatch ==
    ASSUME MigIInv, StartBatch, batchIds' = {}
    PROVE  /\ TodoOf(chainIndex) = {} /\ chainIndex \in ChainIds
           /\ newTokenId' = HighestTokenId(chainIndex) + 1 /\ HighestTokenId(chainIndex) \in Nat
           /\ \A n \in DueOf(chainIndex) : n <= HighestTokenId(chainIndex) => <<chainIndex, n>> \in rowsDone
<1>0. MigTypeOK /\ WholeInv /\ chainIndex \in ChainIds /\ dbFile = "whole"
    BY DEF MigIInv, StartBatch, WholeInv, AtDatabase
<1>1. TodoOf(chainIndex) = {}
    <2>1. IsFiniteSet(TodoOf(chainIndex)) /\ Cardinality(TodoOf(chainIndex)) \in Nat
        BY <1>0, OfFinite, FS_CardinalityType
    <2>2. Cardinality({}) = 0
        BY FS_EmptySet
    <2>3. 0 = IF Cardinality(TodoOf(chainIndex)) < BatchSize
                THEN Cardinality(TodoOf(chainIndex)) ELSE BatchSize
        BY <2>2 DEF StartBatch, GetBatchOfUnprocessedTokenIds
    <2>4. Cardinality(TodoOf(chainIndex)) = 0
        BY <2>1, <2>3, MigAssumption
    <2> QED BY <2>1, <2>4, FS_EmptySet
<1> DEFINE h == HighestTokenId(chainIndex)
<1>2. h \in Nat /\ <<chainIndex, h>> \in Rows
    <2>1. \E n : <<chainIndex, n>> \in Rows
        <3>1. PICK n : n \in Listed[chainIndex]
            BY <1>0, TokensAre
        <3> QED BY <1>0, <3>1 DEF WholeInv
    <2> QED BY <1>0, <2>1, HighestIs
<1>3. ASSUME NEW n \in DueOf(chainIndex), n <= h
      PROVE  <<chainIndex, n>> \in rowsDone
    <2>1. n \in Nat /\ <<chainIndex, n>> \in Of(chainIndex)
        BY <1>0, TokensAre DEF DueOf, Of
    <2>2. <<chainIndex, n>> \in Rows
        <3>1. CASE n = h
            BY <1>2, <3>1
        <3>2. CASE n < h
            BY <1>0, <1>2, <3>2 DEF WholeInv
        <3> QED BY <1>2, <1>3, <2>1, <3>1, <3>2
    <2> QED BY <1>1, <2>1, <2>2 DEF TodoOf, Rows
<1> QED BY <1>0, <1>1, <1>2, <1>3 DEF StartBatch

LEMMA NewerKeeps ==
    ASSUME MigIInv, MigNext
    PROVE  NewerInv'
<1> USE DEF migDisk, migBatch, MigGoes
<1>0. MigTypeOK /\ WholeInv /\ NewerInv /\ WholeInv'
    BY DatabaseKeeps DEF MigIInv
<1>1. rowsDone \subseteq rowsDone'
    BY OnlyGrows
<1>2. CASE OpenDatabase
    <2>1. \/ migAt' = "batch" /\ chainIndex' = 1
          \/ migAt' = "stopped"
        BY <1>2 DEF OpenDatabase, Exits
    <2>2. \A c \in ChainIds : ~(c < 1)
        BY DEF ChainIds
    <2> QED BY <2>1, <2>2 DEF NewerInv, AtDatabase, OfNewer
<1>3. CASE StartBatch
    <2>1. UNCHANGED <<chainIndex, rowsTodo, rowsDone>> /\ AtDatabase
        BY <1>3 DEF StartBatch, AtDatabase
    <2>2. CASE batchIds' = {}
        <3>1. migAt' = "rpc"
            BY <1>3, <2>2 DEF StartBatch
        <3>2. /\ TodoOf(chainIndex)' = {} /\ newTokenId' # 0
              /\ \A n \in DueOf(chainIndex') : n < newTokenId' => <<chainIndex', n>> \in rowsDone'
            BY <1>0, <1>3, <2>1, <2>2, EmptyBatch, DueIs DEF TodoOf, MigIInv
        <3> QED BY <1>0, <2>1, <3>1, <3>2 DEF NewerInv, AtDatabase, OfNewer
    <2>3. CASE batchIds' # {}
        <3>1. migAt' = "fetch"
            BY <1>3, <2>3 DEF StartBatch
        <3> QED BY <1>0, <2>1, <3>1 DEF NewerInv, AtDatabase, OfNewer
    <2> QED BY <2>2, <2>3
<1>4. CASE NewerAssertionsEnd
    <2>1. AtDatabase /\ chainIndex \in ChainIds /\ newTokenId > Minted[chainIndex] /\ newTokenId \in Nat
        BY <1>0, <1>4 DEF NewerAssertionsEnd, WholeInv, AtDatabase, MigTypeOK
    <2>2. \A n \in DueOf(chainIndex) : <<chainIndex, n>> \in rowsDone'
        BY <1>0, <1>1, <1>4, <2>1, DueIs, TokensAre DEF NewerAssertionsEnd, NewerInv, OfNewer
    <2>3. \A c \in ChainIds : c <= chainIndex => \A n \in DueOf(c) : <<c, n>> \in rowsDone'
        BY <1>0, <1>1, <2>1, <2>2, TokensAre DEF NewerInv
    <2>4. \/ migAt' = "batch" /\ chainIndex' = chainIndex + 1
          \/ migAt' = "finish" /\ chainIndex' = chainIndex /\ chainIndex = MigChains
        BY <1>4 DEF NewerAssertionsEnd
    <2>5. \A c \in ChainIds : c < chainIndex' => c <= chainIndex
        BY <2>1, <2>4, TokensAre
    <2>6. migAt' = "finish" => Due \subseteq rowsDone'
        <3>1. migAt' = "finish" => \A c \in ChainIds : c <= chainIndex
            BY <2>1, <2>4 DEF ChainIds
        <3> QED BY <2>3, <3>1, DueIs
    <2> QED BY <2>3, <2>4, <2>5, <2>6 DEF NewerInv, AtDatabase, OfNewer
<1>5. CASE MarkRowsAsProcessed
    BY <1>0, <1>1, <1>5 DEF MarkRowsAsProcessed, NewerInv, AtDatabase, OfNewer
<1>6. CASE GetAssertionsInBatch \/ InsertAssertions \/ ProcessAndInsertAssertions
    BY <1>0, <1>1, <1>6 DEF GetAssertionsInBatch, InsertAssertions, ProcessAndInsertAssertions, NewerInv,
       AtDatabase, OfNewer
<1>7. CASE ConnectRpc \/ FetchNewer \/ InsertNewer \/ VerifyNewer
    <2>1. CASE migAt' = "stopped"
        BY <2>1 DEF NewerInv, AtDatabase, OfNewer
    <2>2. CASE migAt' # "stopped"
        <3>1. UNCHANGED <<chainIndex, newTokenId, rowsTodo, rowsDone, holds>> /\ OfNewer /\ OfNewer' /\ AtDatabase
              /\ migAt' # "finish"
            BY <1>7, <2>2 DEF ConnectRpc, FetchNewer, InsertNewer, VerifyNewer, Exits, OfNewer, AtDatabase
        <3>2. migAt' \in {"insertNewer", "verifyNewer", "saveNewer"} => newTokenId <= Minted[chainIndex]
            BY <1>0, <1>7 DEF ConnectRpc, FetchNewer, InsertNewer, VerifyNewer, Exits, NewerInv
        <3>3. migAt' = "saveNewer" => Insertable({NewToken}) \subseteq kaGraphs'
            BY <1>7, <2>2 DEF ConnectRpc, FetchNewer, InsertNewer, VerifyNewer, Exits, Insertable, InsertConfirmed
        <3>4. Insertable({NewToken})' = Insertable({NewToken})
            BY <3>1 DEF Insertable, HasSpecialCharactersInIRI, NewToken
        <3> QED BY <1>0, <3>1, <3>2, <3>3, <3>4 DEF NewerInv, TodoOf, OfNewer
    <2> QED BY <2>1, <2>2
<1>8. CASE SaveNewer
    <2>1. UNCHANGED <<chainIndex, rowsTodo>> /\ AtDatabase /\ OfNewer /\ migAt' = "newer"
          /\ chainIndex \in ChainIds /\ newTokenId \in Nat
        BY <1>0, <1>8 DEF SaveNewer, AtDatabase, OfNewer, WholeInv, MigTypeOK
    <2>2. NewToken \notin rowsTodo
        <3>1. NewToken \in Tokens
            BY <1>0, <1>8, <2>1, TokensAre DEF SaveNewer, NewerInv, NewToken
        <3> QED BY <1>0, <2>1, <3>1 DEF NewerInv, TodoOf, Of, NewToken
    <2>3. CASE newTokenId' = newTokenId
        BY <1>0, <1>1, <2>1, <2>3 DEF NewerInv, TodoOf, OfNewer, AtDatabase
    <2>4. CASE newTokenId' = newTokenId + 1 /\ rowsDone' = rowsDone \cup {NewToken}
        <3>1. \A n \in DueOf(chainIndex) : n < newTokenId + 1 => n < newTokenId \/ n = newTokenId
            BY <2>1, DueIs
        <3>2. \A n \in DueOf(chainIndex) : n < newTokenId' => <<chainIndex, n>> \in rowsDone'
            BY <1>0, <2>1, <2>4, <3>1 DEF NewerInv, NewToken
        <3> QED BY <1>0, <1>1, <2>1, <2>4, <3>2 DEF NewerInv, TodoOf, OfNewer, AtDatabase
    <2> QED BY <1>8, <2>2, <2>3, <2>4 DEF SaveNewer, InsertRow
<1>9. CASE ~AtDatabase'
    BY <1>9 DEF NewerInv, AtDatabase, OfNewer
<1>10. \/ OpenDatabase \/ StartBatch \/ NewerAssertionsEnd \/ MarkRowsAsProcessed
       \/ GetAssertionsInBatch \/ InsertAssertions \/ ProcessAndInsertAssertions
       \/ ConnectRpc \/ FetchNewer \/ InsertNewer \/ VerifyNewer \/ SaveNewer \/ ~AtDatabase'
    BY DEF MigNext, MigStep, EnsureProgressFile, EnsureConnection, Download, DownloadFinishes,
       MarkMigrationAsSuccessfull, MigrationDies, Exits, AtDatabase
<1> QED BY <1>2, <1>3, <1>4, <1>5, <1>6, <1>7, <1>8, <1>9, <1>10

(* ... and what is written of the progress.                                 *)
LEMMA ProgressKeeps ==
    ASSUME MigIInv, MigNext
    PROVE  DoneIsStored' /\ MigratedIsComplete'
<1> USE DEF migDisk, migBatch, MigGoes
<1>0. BatchInv /\ NewerInv /\ DoneIsStored /\ MigratedIsComplete
    BY DEF MigIInv
<1>1. rowsDone \subseteq rowsDone' /\ kaGraphs \subseteq kaGraphs' /\ holds' = holds
    BY OnlyGrows
<1>2. Insertable(rowsDone') \subseteq kaGraphs'
    <2>1. CASE MarkRowsAsProcessed
        BY <1>0, <1>1, <2>1 DEF MarkRowsAsProcessed, MarkRows, BatchInv, Insertable, DoneIsStored
    <2>2. CASE SaveNewer
        BY <1>0, <1>1, <2>2 DEF SaveNewer, InsertRow, NewerInv, Insertable, DoneIsStored
    <2>3. CASE rowsDone' = rowsDone
        BY <1>0, <1>1, <2>3 DEF DoneIsStored
    <2>4. MarkRowsAsProcessed \/ SaveNewer \/ rowsDone' = rowsDone
        BY DEF MigNext, MigStep, EnsureProgressFile, EnsureConnection, Download, DownloadFinishes,
           OpenDatabase, StartBatch, GetAssertionsInBatch, InsertAssertions, ProcessAndInsertAssertions,
           ConnectRpc, NewerAssertionsEnd, FetchNewer, InsertNewer, VerifyNewer,
           MarkMigrationAsSuccessfull, MigrationDies
    <2> QED BY <2>1, <2>2, <2>3, <2>4
<1>3. DoneIsStored'
    BY <1>1, <1>2 DEF DoneIsStored, Insertable, HasSpecialCharactersInIRI
<1>4. progressFile' = "MIGRATED" => progressFile = "MIGRATED" \/ migAt = "finish"
    BY DEF MigNext, MigStep, EnsureProgressFile, EnsureConnection, Download, DownloadFinishes,
       OpenDatabase, StartBatch, GetAssertionsInBatch, InsertAssertions, ProcessAndInsertAssertions,
       MarkRowsAsProcessed, ConnectRpc, NewerAssertionsEnd, FetchNewer, InsertNewer, VerifyNewer,
       SaveNewer, MarkMigrationAsSuccessfull, MigrationDies
<1>5. MigratedIsComplete'
    BY <1>0, <1>1, <1>4 DEF NewerInv, MigratedIsComplete
<1> QED BY <1>3, <1>5

LEMMA MigInductive ==
    /\ MigInit => MigIInv
    /\ MigIInv /\ [MigNext]_migVars => MigIInv'
<1>1. MigInit => MigIInv
    <2> SUFFICES ASSUME MigInit PROVE MigIInv
        OBVIOUS
    <2> USE DEF MigInit
    <2>1. PlaceTypes /\ migFaults \in 0..MaxMigFaults
        <3>1. 0 \in 0..ConnectRetries /\ 0 \in 0..MigChains /\ 0 \in 0..MaxMigFaults
            BY MigAssumption
        <3> QED BY <3>1 DEF PlaceTypes
    <2>2. DiskTypes /\ BatchTypes
        BY MigAssumption DEF DiskTypes, BatchTypes
    <2>3. WholeInv /\ BatchInv /\ NewerInv /\ DoneIsStored /\ MigratedIsComplete
        BY DEF WholeInv, BatchInv, NewerInv, DoneIsStored, MigratedIsComplete, AtDatabase, OfNewer, Insertable
    <2> QED BY <2>1, <2>2, <2>3, TypesAre DEF MigIInv
<1>2. MigIInv /\ [MigNext]_migVars => MigIInv'
    <2> SUFFICES ASSUME MigIInv, [MigNext]_migVars PROVE MigIInv'
        OBVIOUS
    <2>1. CASE MigNext
        BY <2>1, MigTypesKeep, DatabaseKeeps, BatchKeeps, NewerKeeps, ProgressKeeps DEF MigIInv
    <2>2. CASE UNCHANGED migVars
        BY <2>2 DEF migVars, migDisk, migBatch, MigIInv, MigTypeOK, WholeInv, BatchInv, NewerInv,
           DoneIsStored, MigratedIsComplete, AtDatabase, OfNewer, Rows, TodoOf, Insertable,
           HasSpecialCharactersInIRI, NewToken
    <2> QED BY <2>1, <2>2
<1> QED BY <1>1, <1>2

(* Whatever fails or dies, and however often the script runs: what its rows *)
(* and its progress file say is done is in the new repository, all of it.   *)
THEOREM MigrationCorrect == MigSpec => []MigInv
<1>1. MigIInv => MigInv
    BY DEF MigIInv, MigInv
<1> QED BY MigInductive, <1>1, PTL DEF MigSpec

-----------------------------------------------------------------------------
(* The update of a node: its inductive invariant.  A directory is named by  *)
(* the version that was read, what is in it may be newer; the directory a   *)
(* process runs from may be gone once a later update has cleaned up.        *)

Updating == updateAt \in {"download", "stalled", "unzip", "move", "copy", "install", "unlink", "link",
                          "clean"}
Unpacked == updateAt \in {"copy", "install", "unlink", "link", "clean"}

VersionsInv ==
    /\ newVersion <= remote
    /\ \A d \in Versions : directory[d] = Nothing \/ directory[d].version >= d

RunningInv ==
    /\ runsFrom = 0 => updateAt = "idle"
    /\ runsFrom # 0 =>
          \/ directory[runsFrom].state = "installed" /\ directory[runsFrom].version >= runsFrom
          \/ directory[runsFrom] = Nothing /\ runsFrom < newVersion /\ link # runsFrom

StageInv ==
    /\ updateAt = "read" => CurrentVersion < remote
    /\ Updating => CurrentVersion < newVersion /\ runsFrom < newVersion
    /\ updateAt = "unzip" => archive[newVersion] >= newVersion
    /\ updateAt = "move" => \E v \in extracted : v >= newVersion
    /\ Unpacked => directory[newVersion].version >= newVersion
    /\ updateAt \in {"unlink", "link"} => directory[newVersion].state \in {"installed", "broken"}
    /\ updateAt = "clean" => link = newVersion

UpdIInv == UpdTypeOK /\ VersionsInv /\ RunningInv /\ StageInv

LEMMA DirectoriesAre ==
    ASSUME UpdTypeOK
    PROVE  /\ Newest \in Nat \ {0} /\ \A d \in Versions : d \in Nat /\ d # 0
           /\ \A d \in Versions : directory[d].version \in Nat /\ directory[d].state \in States
           /\ runsFrom # 0 => runsFrom \in Versions /\ CurrentVersion \in 0..Newest
           /\ newVersion \in Nat /\ remote \in Nat /\ runsFrom \in Nat /\ link \in Nat
           /\ newVersion # 0 => newVersion \in Versions
BY UpdAssumption DEF UpdTypeOK, Versions, CurrentVersion

(* The process is running and the new version another one.                  *)
LEMMA AtUpdate ==
    ASSUME UpdIInv, Updating
    PROVE  /\ newVersion \in Versions /\ runsFrom \in Versions /\ runsFrom # newVersion
           /\ CurrentVersion \in Nat
<1>1. UpdTypeOK /\ runsFrom # 0 /\ runsFrom < newVersion
    BY DEF UpdIInv, RunningInv, StageInv, Updating
<1> QED BY <1>1, DirectoriesAre

(* The newest of what was unpacked.                                         *)
LEMMA NewestUnpacked ==
    ASSUME UpdTypeOK, NEW n \in Versions, \E v \in extracted : v >= n
    PROVE  LET m == CHOOSE v \in extracted : \A w \in extracted : w <= v
           IN  m \in Versions /\ m >= n
<1> DEFINE m == CHOOSE v \in extracted : \A w \in extracted : w <= v
<1>1. extracted \in SUBSET (1..Newest) /\ extracted # {} /\ Newest \in Nat
    BY UpdAssumption DEF UpdTypeOK, Versions
<1>2. \E v \in extracted : \A w \in extracted : w <= v
    <2>1. extracted \in SUBSET (0..Newest)
        BY <1>1
    <2> QED BY <1>1, <2>1, MaximumExists
<1>3. m \in extracted /\ \A w \in extracted : w <= m
    BY <1>2
<1>4. PICK v \in extracted : v >= n
    OBVIOUS
<1>5. v <= m /\ m \in Nat /\ v \in Nat /\ n \in Nat
    <2>1. m \in 1..Newest /\ v \in 1..Newest /\ n \in 1..Newest
        BY <1>1, <1>3, <1>4 DEF Versions
    <2>2. v <= m
        BY <1>3, <1>4
    <2> HIDE DEF m
    <2> QED BY <1>1, <2>1, <2>2
<1> QED BY <1>1, <1>3, <1>4, <1>5 DEF Versions

(* The steps that leave the directories alone.                              *)
LEMMA OtherKeepsUpdate ==
    ASSUME UpdIInv,
           \/ Release \/ NodeStarts \/ ProcessDies \/ UpdateFails \/ CompareVersions \/ ReadRemoteVersion
           \/ DownloadUpdate \/ UnzipFile \/ RemoveSymlink \/ EnsureSymlink \/ NodeWillRestart
    PROVE  UpdIInv'
<1> USE DEF updDisk
<1>0. UpdTypeOK /\ VersionsInv /\ RunningInv /\ StageInv
    BY DEF UpdIInv
<1>1. CASE Release
    BY <1>0, <1>1, DirectoriesAre DEF Release, UpdIInv, UpdTypeOK, VersionsInv, RunningInv, StageInv, Versions,
       CurrentVersion, Updating, Unpacked
<1>2. CASE NodeStarts
    <2>1. link \in Versions /\ directory[link] # Nothing
        BY <1>0, <1>2, UpdAssumption DEF NodeStarts, UpdTypeOK, Versions, Nothing
    <2> QED BY <1>0, <1>2, <2>1, DirectoriesAre DEF NodeStarts, UpdIInv, UpdTypeOK, VersionsInv, RunningInv,
               StageInv, Updating, Unpacked
<1>3. CASE ProcessDies \/ NodeWillRestart \/ UpdateFails
    BY <1>0, <1>3, UpdAssumption DEF ProcessDies, NodeWillRestart, UpdateFails, UpdFault, UpdIInv, UpdTypeOK,
       VersionsInv, RunningInv, StageInv, Updating, Unpacked
<1>4. CASE CompareVersions
    <2>1. CurrentVersion < remote
        BY <1>0, <1>4, DirectoriesAre DEF CompareVersions
    <2>2. StageInv'
        BY <1>4, <2>1 DEF CompareVersions, StageInv, CurrentVersion, Updating, Unpacked
    <2> QED BY <1>0, <1>4, <2>2 DEF CompareVersions, UpdIInv, UpdTypeOK, VersionsInv, RunningInv
<1>5. CASE ReadRemoteVersion
    <2>1. CurrentVersion < remote /\ runsFrom \in Versions /\ CurrentVersion \in Nat /\ remote \in Versions
        BY <1>0, <1>5, DirectoriesAre DEF ReadRemoteVersion, StageInv, UpdTypeOK
    <2>2. runsFrom < remote
        BY <1>0, <1>5, <2>1, DirectoriesAre DEF ReadRemoteVersion, RunningInv, VersionsInv, CurrentVersion
    <2>3. VersionsInv' /\ RunningInv'
        BY <1>0, <1>5, <2>1, <2>2, DirectoriesAre DEF ReadRemoteVersion, VersionsInv, RunningInv
    <2>4. StageInv'
        BY <1>5, <2>1, <2>2 DEF ReadRemoteVersion, StageInv, Updating, Unpacked, CurrentVersion
    <2>5. UpdTypeOK'
        BY <1>0, <1>5, <2>1, UpdAssumption DEF ReadRemoteVersion, UpdTypeOK, Versions
    <2> QED BY <2>3, <2>4, <2>5 DEF UpdIInv
<1>6. CASE DownloadUpdate
    <2>1. newVersion \in Versions /\ remote \in 0..Newest
        BY <1>6, AtUpdate, <1>0 DEF DownloadUpdate, Updating, UpdTypeOK, Versions
    <2>2. archive' \in [Versions -> 0..Newest] /\ updFaults' \in 0..MaxUpdFaults
          /\ updateAt' \in {"unzip", "stalled"}
        BY <1>0, <1>6, <2>1, UpdAssumption DEF DownloadUpdate, UpdTypeOK, UpdFault
    <2>3. updateAt' = "unzip" => archive'[newVersion] = remote
        BY <1>0, <1>6, <2>1 DEF DownloadUpdate, UpdTypeOK
    <2>4. UpdTypeOK'
        BY <1>0, <1>6, <2>2 DEF DownloadUpdate, UpdTypeOK
    <2>5. StageInv'
        BY <1>0, <1>6, <2>2, <2>3, DirectoriesAre DEF DownloadUpdate, StageInv, VersionsInv, Updating, Unpacked, CurrentVersion
    <2> QED BY <1>0, <1>6, <2>2, <2>4, <2>5 DEF DownloadUpdate, UpdIInv, VersionsInv, RunningInv
<1>7. CASE UnzipFile
    <2>1. newVersion \in Versions /\ archive[newVersion] >= newVersion
        BY <1>0, <1>7, AtUpdate DEF UnzipFile, Updating, StageInv
    <2>2. archive[newVersion] \in Versions
        BY <1>0, <2>1, UpdAssumption DEF UpdTypeOK, Versions
    <2>3. archive' \in [Versions -> 0..Newest] /\ extracted' \subseteq Versions
        <3>1. 0 \in 0..Newest /\ archive \in [Versions -> 0..Newest] /\ extracted \subseteq Versions
            BY <1>0, UpdAssumption DEF UpdTypeOK
        <3> QED BY <1>7, <2>2, <3>1 DEF UnzipFile
    <2>4. UpdTypeOK'
        BY <1>0, <1>7, <2>3 DEF UnzipFile, UpdTypeOK
    <2>5. StageInv'
        BY <1>0, <1>7, <2>1, <2>2 DEF UnzipFile, StageInv, Updating, Unpacked, CurrentVersion
    <2> QED BY <1>0, <1>7, <2>4, <2>5 DEF UnzipFile, UpdIInv, VersionsInv, RunningInv
<1>8. CASE RemoveSymlink
    BY <1>0, <1>8, UpdAssumption DEF RemoveSymlink, UpdIInv, UpdTypeOK, VersionsInv, RunningInv, StageInv, Updating,
       Unpacked, CurrentVersion
<1>9. CASE EnsureSymlink
    <2>1. newVersion \in Versions /\ runsFrom # newVersion
        BY <1>9, AtUpdate DEF EnsureSymlink, Updating
    <2> QED BY <1>0, <1>9, <2>1, UpdAssumption DEF EnsureSymlink, UpdIInv, UpdTypeOK, VersionsInv, RunningInv, StageInv,
               Updating, Unpacked, CurrentVersion, Versions
<1> QED BY <1>1, <1>2, <1>3, <1>4, <1>5, <1>6, <1>7, <1>8, <1>9

(* A step that writes the new version's directory and no other.             *)
LEMMA NewKeepsUpdate ==
    ASSUME UpdIInv, Updating, updateAt' \in {"copy", "install", "unlink"}, NEW h,
           directory' = [directory EXCEPT ![newVersion] = h],
           h \in [version : 0..Newest, state : States], h.version >= newVersion,
           updateAt' = "unlink" => h.state \in {"installed", "broken"},
           extracted' \subseteq Versions, updFaults' \in 0..MaxUpdFaults,
           UNCHANGED <<remote, link, archive, runsFrom, newVersion>>
    PROVE  UpdIInv'
<1>0. UpdTypeOK /\ VersionsInv /\ RunningInv /\ StageInv
    BY DEF UpdIInv
<1>1. newVersion \in Versions /\ runsFrom \in Versions /\ runsFrom # newVersion
    BY AtUpdate
<1>2. directory' \in [Versions -> [version : 0..Newest, state : States]]
    BY <1>0 DEF UpdTypeOK
<1>3. directory'[newVersion] = h /\ \A d \in Versions : d # newVersion => directory'[d] = directory[d]
    BY <1>0, <1>1 DEF UpdTypeOK
<1>4. UpdTypeOK'
    BY <1>0, <1>2 DEF UpdTypeOK
<1>5. VersionsInv'
    BY <1>0, <1>3 DEF VersionsInv
<1>6. RunningInv'
    BY <1>0, <1>1, <1>3 DEF RunningInv, Updating
<1>7. StageInv'
    BY <1>0, <1>1, <1>3 DEF StageInv, Updating, Unpacked, CurrentVersion
<1> QED BY <1>4, <1>5, <1>6, <1>7 DEF UpdIInv

LEMMA WritesKeepUpdate ==
    ASSUME UpdIInv, MoveAndCleanExtractedData \/ CopyConfigFiles \/ InstallDependencies
    PROVE  UpdIInv'
<1>0. UpdTypeOK /\ VersionsInv /\ StageInv /\ Updating
    BY DEF UpdIInv, MoveAndCleanExtractedData, CopyConfigFiles, InstallDependencies, Updating
<1>1. newVersion \in Versions
    BY <1>0, AtUpdate
<1>2. CASE MoveAndCleanExtractedData
    <2> DEFINE m == CHOOSE v \in extracted : \A w \in extracted : w <= v
    <2>1. m \in Versions /\ m >= newVersion
        BY <1>0, <1>1, <1>2, NewestUnpacked DEF MoveAndCleanExtractedData, StageInv
    <2>2. directory' = [directory EXCEPT ![newVersion] = Holds(m, "unpacked")]
        BY <1>2 DEF MoveAndCleanExtractedData, Destination
    <2>3. Holds(m, "unpacked") \in [version : 0..Newest, state : States] /\ Holds(m, "unpacked").version = m
        BY <2>1, UpdAssumption DEF Holds, States, Versions
    <2>4. updateAt' = "copy" /\ extracted' = {} /\ updFaults' = updFaults
          /\ UNCHANGED <<remote, link, archive, runsFrom, newVersion>>
        BY <1>2 DEF MoveAndCleanExtractedData, AfterMove
    <2>5. updFaults' \in 0..MaxUpdFaults
        BY <1>0, <2>4 DEF UpdTypeOK
    <2> HIDE DEF m
    <2> QED BY <1>0, <2>1, <2>2, <2>3, <2>4, <2>5, NewKeepsUpdate
<1>3. CASE CopyConfigFiles \/ InstallDependencies
    <2>1. PICK t \in {"configured", "installed", "broken"} :
              /\ directory' = [directory EXCEPT ![newVersion].state = t]
              /\ updateAt' = IF t = "configured" THEN "install" ELSE "unlink"
        BY <1>3 DEF CopyConfigFiles, InstallDependencies
    <2> DEFINE h == [directory[newVersion] EXCEPT !.state = t]
    <2>2. directory' = [directory EXCEPT ![newVersion] = h]
        BY <2>1
    <2>3. h \in [version : 0..Newest, state : States] /\ h.version = directory[newVersion].version /\ h.state = t
        BY <1>0, <1>1 DEF UpdTypeOK, States
    <2>4. directory[newVersion].version >= newVersion
        BY <1>0, <1>3 DEF StageInv, Unpacked, CopyConfigFiles, InstallDependencies
    <2>5. UNCHANGED <<remote, link, archive, runsFrom, newVersion, extracted>> /\ (UpdFault \/ UNCHANGED updFaults)
        BY <1>3 DEF CopyConfigFiles, InstallDependencies
    <2>6. updFaults' \in 0..MaxUpdFaults /\ extracted' \subseteq Versions
        BY <1>0, <2>5, UpdAssumption DEF UpdTypeOK, UpdFault
    <2>7. updateAt' \in {"install", "unlink"} /\ (updateAt' = "unlink" => t \in {"installed", "broken"})
        BY <2>1
    <2> HIDE DEF h
    <2> QED BY <1>0, <2>2, <2>3, <2>4, <2>5, <2>6, <2>7, NewKeepsUpdate
<1> QED BY <1>2, <1>3

(* The clean-up may take the directory the process runs from.               *)
LEMMA CleanKeepsUpdate ==
    ASSUME UpdIInv, RemoveOldVersions
    PROVE  UpdIInv'
<1>0. UpdTypeOK /\ VersionsInv /\ RunningInv /\ StageInv
    BY DEF UpdIInv
<1>1. newVersion \in Versions /\ runsFrom \in Versions /\ runsFrom < newVersion /\ link = newVersion
    BY <1>0, AtUpdate DEF RemoveOldVersions, Updating, StageInv
<1>2. \A d \in Versions : directory'[d] = directory[d] \/ directory'[d] = Nothing
    BY DEF RemoveOldVersions
<1>3. Nothing \in [version : 0..Newest, state : States]
    BY UpdAssumption DEF Nothing, States
<1>4. directory' \in [Versions -> [version : 0..Newest, state : States]]
    BY <1>0, <1>3 DEF RemoveOldVersions, UpdTypeOK
<1>5. UpdTypeOK'
    BY <1>0, <1>4 DEF RemoveOldVersions, UpdTypeOK, updDisk
<1>6. VersionsInv'
    BY <1>0, <1>2 DEF RemoveOldVersions, VersionsInv
<1>7. RunningInv'
    <2>1. runsFrom # link
        BY <1>0, <1>1, DirectoriesAre
    <2> QED BY <1>0, <1>1, <1>2, <2>1 DEF RemoveOldVersions, RunningInv
<1>8. StageInv'
    BY DEF RemoveOldVersions, StageInv, Updating, Unpacked
<1> QED BY <1>5, <1>6, <1>7, <1>8 DEF UpdIInv

LEMMA UpdInductive ==
    /\ UpdInit => UpdIInv
    /\ UpdIInv /\ [UpdNext]_updVars => UpdIInv'
<1>1. UpdInit => UpdIInv
    <2> SUFFICES ASSUME UpdInit PROVE UpdIInv
        OBVIOUS
    <2> USE DEF UpdInit
    <2>1. 1 \in Versions /\ 1 \in 0..Newest /\ 0 \in 0..Newest /\ 0 \in 0..MaxUpdFaults
        BY UpdAssumption DEF Versions
    <2>2. /\ Holds(1, "installed") \in [version : 0..Newest, state : States]
          /\ Nothing \in [version : 0..Newest, state : States]
        BY <2>1 DEF Holds, Nothing, States
    <2>3. UpdTypeOK
        BY <2>1, <2>2 DEF UpdTypeOK
    <2>4. VersionsInv /\ RunningInv /\ StageInv
        BY DEF VersionsInv, RunningInv, StageInv, Updating, Unpacked, Holds, Versions
    <2> QED BY <2>3, <2>4 DEF UpdIInv
<1>2. UpdIInv /\ [UpdNext]_updVars => UpdIInv'
    <2> SUFFICES ASSUME UpdIInv, [UpdNext]_updVars PROVE UpdIInv'
        OBVIOUS
    <2>1. CASE UpdNext
        BY <2>1, OtherKeepsUpdate, WritesKeepUpdate, CleanKeepsUpdate DEF UpdNext
    <2>2. CASE UNCHANGED updVars
        BY <2>2 DEF updVars, updDisk, UpdIInv, UpdTypeOK, VersionsInv, RunningInv, StageInv, Updating, Unpacked,
           CurrentVersion
    <2> QED BY <2>1, <2>2
<1> QED BY <1>1, <1>2

LEMMA LinkedStep ==
    UpdIInv /\ [UpdNext]_updVars =>
        [(link' # link /\ link' # 0) => directory[link'].state \in {"installed", "broken"}]_updVars
<1> SUFFICES ASSUME UpdIInv, UpdNext, link' # link, link' # 0
             PROVE  directory[link'].state \in {"installed", "broken"}
    OBVIOUS
<1>1. EnsureSymlink
    BY DEF UpdNext, updDisk, Release, NodeStarts, ProcessDies, UpdateFails, CompareVersions, ReadRemoteVersion,
       DownloadUpdate, UnzipFile, MoveAndCleanExtractedData, CopyConfigFiles, InstallDependencies, RemoveSymlink,
       RemoveOldVersions, NodeWillRestart
<1> QED BY <1>1 DEF EnsureSymlink, UpdIInv, StageInv

LEMMA NewerStep ==
    UpdIInv /\ [UpdNext]_updVars =>
        [(link' # link /\ link' # 0) => directory[link'].version > directory[runsFrom].version]_updVars
<1> SUFFICES ASSUME UpdIInv, UpdNext, link' # link, link' # 0
             PROVE  directory[link'].version > directory[runsFrom].version
    OBVIOUS
<1>1. EnsureSymlink
    BY DEF UpdNext, updDisk, Release, NodeStarts, ProcessDies, UpdateFails, CompareVersions, ReadRemoteVersion,
       DownloadUpdate, UnzipFile, MoveAndCleanExtractedData, CopyConfigFiles, InstallDependencies, RemoveSymlink,
       RemoveOldVersions, NodeWillRestart
<1>2. newVersion \in Versions /\ CurrentVersion \in Nat /\ UpdTypeOK
    BY <1>1, AtUpdate DEF EnsureSymlink, Updating, UpdIInv
<1>3. directory[newVersion].version >= newVersion /\ CurrentVersion < newVersion
    BY <1>1 DEF EnsureSymlink, UpdIInv, StageInv, Updating, Unpacked
<1>4. directory[newVersion].version > CurrentVersion
    BY <1>2, <1>3, DirectoriesAre
<1> QED BY <1>1, <1>4 DEF EnsureSymlink, CurrentVersion

LEMMA RunningStays == UpdIInv => RunningVersionStays
BY DEF UpdIInv, RunningInv, RunningVersionStays

(* Only RemoveSymlink lets the link go, and EnsureSymlink makes it; what    *)
(* else leaves the step between them is a failure.                          *)
LEMMA LinkStays ==
    /\ UpdInit => LinkMissing
    /\ UpdIInv /\ LinkMissing /\ [UpdNext]_updVars => LinkMissing'
<1>1. UpdInit => LinkMissing
    BY DEF UpdInit, LinkMissing
<1>2. UpdIInv /\ LinkMissing /\ [UpdNext]_updVars => LinkMissing'
    <2> SUFFICES ASSUME UpdIInv, LinkMissing, [UpdNext]_updVars PROVE LinkMissing'
        OBVIOUS
    <2>1. updFaults \in Nat
        BY UpdAssumption DEF UpdIInv, UpdTypeOK
    <2>2. CASE EnsureSymlink
        <3>1. newVersion # 0
            BY <2>2, AtUpdate DEF EnsureSymlink, Updating, Versions
        <3> QED BY <2>2, <3>1 DEF EnsureSymlink, LinkMissing
    <2>3. CASE RemoveSymlink
        BY <2>3 DEF RemoveSymlink, LinkMissing
    <2>4. CASE ProcessDies \/ UpdateFails
        BY <2>1, <2>4 DEF ProcessDies, UpdateFails, UpdFault, LinkMissing
    <2>5. CASE DownloadUpdate \/ InstallDependencies
        <3>1. link' = link /\ updateAt # "link" /\ (updFaults' = updFaults \/ updFaults' = updFaults + 1)
            BY <2>5 DEF DownloadUpdate, InstallDependencies, UpdFault
        <3> QED BY <2>1, <3>1 DEF LinkMissing
    <2>6. CASE \/ CompareVersions \/ ReadRemoteVersion \/ UnzipFile \/ MoveAndCleanExtractedData
               \/ CopyConfigFiles \/ RemoveOldVersions \/ NodeWillRestart
        BY <2>6 DEF CompareVersions, ReadRemoteVersion, UnzipFile, MoveAndCleanExtractedData, CopyConfigFiles,
           RemoveOldVersions, NodeWillRestart, updDisk, LinkMissing
    <2>7. CASE Release \/ NodeStarts
        BY <2>7 DEF Release, NodeStarts, updDisk, LinkMissing
    <2>8. CASE UNCHANGED updVars
        BY <2>8 DEF updVars, updDisk, LinkMissing
    <2> QED BY <2>2, <2>3, <2>4, <2>5, <2>6, <2>7, <2>8 DEF UpdNext
<1> QED BY <1>1, <1>2

(* Wherever updates end, fail or die, and whatever is released meanwhile:   *)
(* the version that runs and is linked is whole; the link is made only to a *)
(* directory that went through all steps and holds newer code than the      *)
(* running one; and it is missing only after a failure, or while it is made *)
(* anew.                                                                    *)
THEOREM UpdateCorrect == UpdSpec => UpdateKept
BY UpdInductive, RunningStays, LinkStays, LinkedStep, NewerStep, PTL
    DEF UpdSpec, UpdateKept, LinkedWasInstalled, NeverOlder

-----------------------------------------------------------------------------
(* The cleaners: their inductive invariant.  A row keeps the time it was    *)
(* made at; the rows of a batch are finished and due, and still are when    *)
(* they are deleted; an archive is named by times around those of its rows. *)

TableInv ==
    /\ made \in Seq(0..MaxClock) /\ Len(made) <= MaxRows
    /\ \A r \in table : r.id \in 1..Len(made) /\ r.at = made[r.id]
    /\ \A r, s \in table : r.id = s.id => r = s

ArchivesInv ==
    \A a \in archives : \A i \in a.ids :
        i \in 1..Len(made) /\ a.name[1] <= made[i] /\ made[i] <= a.name[2]

RemovalInv ==
    /\ cleanAt # "idle" => before + CleanupDelay <= clock
    /\ \A b \in batch :
          /\ b.id \in 1..Len(made) /\ b.at = made[b.id] /\ b.at <= before
          /\ \A r \in table : r.id = b.id => r.finished
    /\ cleanAt = "archive" => batch # {}
    /\ cleanAt \notin {"archive", "delete"} => batch = {}
    /\ cleanAt = "delete" => \E a \in archives : a.ids = Ids(batch)

CleanIInv == CleanTypeOK /\ TableInv /\ ArchivesInv /\ RemovalInv /\ DeletedIsArchived

LEMMA ClockNumbers ==
    CleanTypeOK => clock \in Nat /\ before \in Nat /\ CleanupDelay \in Nat /\ RemovalMax \in Nat \ {0}
                   /\ MaxClock \in Nat /\ MaxRows \in Nat
BY CleanerAssumption DEF CleanTypeOK

LEMMA RowIsMadeKeeps ==
    ASSUME CleanIInv, RowIsMade
    PROVE  CleanIInv'
<1>0. CleanTypeOK /\ TableInv /\ ArchivesInv /\ RemovalInv /\ DeletedIsArchived
    BY DEF CleanIInv
<1>1. PICK f \in BOOLEAN : table' = table \cup {[id |-> Len(made'), at |-> clock, finished |-> f]}
    BY DEF RowIsMade
<1> DEFINE n == Len(made) + 1
           row == [id |-> n, at |-> clock, finished |-> f]
<1>2. /\ made' \in Seq(0..MaxClock) /\ Len(made') = n /\ Len(made) \in Nat /\ n <= MaxRows
      /\ made'[n] = clock /\ \A i \in 1..Len(made) : made'[i] = made[i]
    <2>1. clock \in 0..MaxClock /\ made \in Seq(0..MaxClock) /\ Len(made) < MaxRows /\ made' = Append(made, clock)
        BY <1>0 DEF RowIsMade, TableInv, CleanTypeOK
    <2>2. Len(made) \in Nat /\ MaxRows \in Nat /\ n <= MaxRows
        BY <1>0, <2>1, ClockNumbers
    <2>3. made' \in Seq(0..MaxClock) /\ Len(made') = n
        BY <2>1
    <2>4. made'[n] = clock /\ \A i \in 1..Len(made) : made'[i] = made[i]
        BY <2>1
    <2> QED BY <2>2, <2>3, <2>4
<1>3. table' = table \cup {row} /\ UNCHANGED <<clock, archives, cleanAt, before, batch, cleanFaults>>
    BY <1>1, <1>2 DEF RowIsMade
<1>4. row \in [id : 1..MaxRows, at : 0..MaxClock, finished : BOOLEAN] /\ row.id = n /\ row.at = clock
    BY <1>0, <1>2, ClockNumbers DEF CleanTypeOK
<1>5. \A r \in table : r.id \in 1..Len(made) /\ r.id # n
    BY <1>0, <1>2 DEF TableInv
<1> HIDE DEF row
<1>6. CleanTypeOK'
    BY <1>0, <1>3, <1>4 DEF CleanTypeOK
<1>7. TableInv'
    BY <1>0, <1>2, <1>3, <1>4, <1>5 DEF TableInv
<1>8. ArchivesInv'
    BY <1>0, <1>2, <1>3 DEF ArchivesInv
<1>9. RemovalInv'
    BY <1>0, <1>2, <1>3, <1>4 DEF RemovalInv, Ids
<1>10. Deleted' = Deleted
    <2>1. Ids(table)' = Ids(table) \cup {n}
        BY <1>3, <1>4 DEF Ids
    <2> QED BY <1>2, <2>1 DEF Deleted
<1>11. Deleted \subseteq 1..Len(made)
    BY DEF Deleted
<1>12. DeletedIsArchived'
    BY <1>0, <1>2, <1>3, <1>10, <1>11 DEF DeletedIsArchived
<1> QED BY <1>6, <1>7, <1>8, <1>9, <1>12 DEF CleanIInv

LEMMA RowFinishesKeeps ==
    ASSUME CleanIInv, RowFinishes
    PROVE  CleanIInv'
<1>0. CleanTypeOK /\ TableInv /\ ArchivesInv /\ RemovalInv /\ DeletedIsArchived
    BY DEF CleanIInv
<1>1. PICK r \in table : table' = (table \ {r}) \cup {[r EXCEPT !.finished = TRUE]}
    BY DEF RowFinishes
<1> DEFINE row == [r EXCEPT !.finished = TRUE]
<1>2. row \in [id : 1..MaxRows, at : 0..MaxClock, finished : BOOLEAN] /\ row.id = r.id /\ row.at = r.at
      /\ row.finished
    BY <1>0 DEF CleanTypeOK
<1>3. table' = (table \ {r}) \cup {row}
      /\ UNCHANGED <<clock, archives, cleanAt, before, batch, made, cleanFaults>>
    BY <1>1 DEF RowFinishes
<1> HIDE DEF row
<1>4. CleanTypeOK'
    BY <1>0, <1>2, <1>3 DEF CleanTypeOK
<1>5. TableInv'
    BY <1>0, <1>2, <1>3 DEF TableInv
<1>6. ArchivesInv'
    BY <1>0, <1>3 DEF ArchivesInv
<1>7. RemovalInv'
    BY <1>0, <1>2, <1>3 DEF RemovalInv, Ids
<1>8. Ids(table)' = Ids(table)
    BY <1>0, <1>2, <1>3 DEF Ids
<1>9. DeletedIsArchived'
    BY <1>0, <1>3, <1>8 DEF DeletedIsArchived, Deleted
<1> QED BY <1>4, <1>5, <1>6, <1>7, <1>9 DEF CleanIInv

LEMMA FindRowsKeeps ==
    ASSUME CleanIInv, FindRows
    PROVE  CleanIInv'
<1>0. CleanTypeOK /\ TableInv /\ ArchivesInv /\ RemovalInv /\ DeletedIsArchived
    BY DEF CleanIInv
<1>1. PICK due \in RowsForRemoval(before') :
          IF Cardinality(due) >= RemovalMax
          THEN batch' = due /\ cleanAt' = "archive"
          ELSE batch' = {} /\ cleanAt' = "idle"
    BY DEF FindRows
<1>2. UNCHANGED <<clock, table, archives, made, cleanFaults>>
    BY DEF FindRows
<1>3. before' \in 0..MaxClock /\ before' + CleanupDelay <= clock
    <2>1. clock \in 0..MaxClock /\ before \in 0..MaxClock /\ MaxClock \in Nat /\ CleanupDelay \in Nat
        BY <1>0, ClockNumbers DEF CleanTypeOK
    <2>2. CASE cleanAt = "idle"
        <3>1. before' = clock - CleanupDelay /\ clock >= CleanupDelay
            BY <2>2 DEF FindRows
        <3> QED BY <2>1, <3>1
    <2>3. CASE cleanAt # "idle"
        BY <1>0, <2>1, <2>3 DEF FindRows, RemovalInv
    <2> QED BY <2>2, <2>3
<1>4. due \subseteq table /\ \A r \in due : r.finished /\ r.at <= before'
    BY DEF RowsForRemoval, Removable
<1>5. \/ batch' = due /\ cleanAt' = "archive" /\ due # {}
      \/ batch' = {} /\ cleanAt' = "idle"
    <2>1. Cardinality({}) = 0
        BY FS_EmptySet
    <2> QED BY <1>1, <2>1, <1>0, ClockNumbers
<1>6. CleanTypeOK'
    BY <1>0, <1>2, <1>3, <1>4, <1>5 DEF CleanTypeOK
<1>7. TableInv' /\ ArchivesInv' /\ DeletedIsArchived'
    BY <1>0, <1>2 DEF TableInv, ArchivesInv, DeletedIsArchived, Deleted, Ids
<1>8. RemovalInv'
    BY <1>0, <1>2, <1>3, <1>4, <1>5 DEF RemovalInv, TableInv
<1> QED BY <1>6, <1>7, <1>8 DEF CleanIInv

(* An archive is named by the earliest and the latest time of its rows, and *)
(* one that it replaces covered the same times.                            *)
LEMMA ArchiveDataKeeps ==
    ASSUME CleanIInv, ArchiveData
    PROVE  CleanIInv'
<1>0. CleanTypeOK /\ TableInv /\ ArchivesInv /\ RemovalInv /\ DeletedIsArchived
    BY DEF CleanIInv
<1> DEFINE S == {r.at : r \in batch}
           new == [name |-> ArchiveName(batch), ids |-> Ids(batch)]
<1>1. S # {} /\ S \subseteq 0..MaxClock /\ S \in SUBSET Nat
    <2>1. batch # {} /\ \A r \in batch : r.at \in 0..MaxClock
        BY <1>0 DEF ArchiveData, RemovalInv, CleanTypeOK
    <2>2. S # {} /\ S \subseteq 0..MaxClock
        BY <2>1
    <2>3. 0..MaxClock \subseteq Nat
        BY <1>0, ClockNumbers
    <2> HIDE DEF S
    <2> QED BY <2>2, <2>3
<1>2. FirstTime(batch) \in S /\ \A r \in batch : FirstTime(batch) <= r.at
    <2>1. \E t \in S : \A k \in S : t <= k
        BY <1>1, MinimumExists
    <2>2. \E t \in S : \A r \in batch : t <= r.at
        BY <2>1
    <2> QED BY <2>2 DEF FirstTime
<1>3. LastTime(batch) \in S /\ \A r \in batch : r.at <= LastTime(batch)
    <2>1. \E t \in S : \A k \in S : k <= t
        BY <1>1, <1>0, ClockNumbers, MaximumExists
    <2>2. \E t \in S : \A r \in batch : t >= r.at
        BY <1>1, <2>1
    <2>3. LastTime(batch) \in S /\ \A r \in batch : LastTime(batch) >= r.at
        BY <2>2 DEF LastTime
    <2>4. LastTime(batch) \in Nat /\ \A r \in batch : r.at \in Nat
        BY <1>1, <2>3
    <2> QED BY <2>3, <2>4
<1>4. archives' = {a \in archives : a.name # new.name} \cup {new} /\ cleanAt' = "delete"
      /\ UNCHANGED <<clock, table, before, batch, made, cleanFaults>>
    BY DEF ArchiveData
<1>5. new.ids = Ids(batch) /\ new.name[1] = FirstTime(batch) /\ new.name[2] = LastTime(batch)
    BY DEF ArchiveName
<1>6. \A i \in new.ids : i \in 1..Len(made) /\ new.name[1] <= made[i] /\ made[i] <= new.name[2]
    BY <1>0, <1>2, <1>3, <1>5 DEF Ids, RemovalInv
<1> HIDE DEF new
<1>7. new.ids \subseteq 1..MaxRows
    BY <1>0, <1>5 DEF Ids, CleanTypeOK
<1>8. CleanTypeOK'
    BY <1>0, <1>4, <1>7 DEF CleanTypeOK
<1>9. TableInv'
    BY <1>0, <1>4 DEF TableInv
<1>10. ArchivesInv'
    BY <1>0, <1>4, <1>6 DEF ArchivesInv
<1>11. RemovalInv'
    BY <1>0, <1>4, <1>5 DEF RemovalInv, Ids, ArchiveData
<1>12. Deleted' = Deleted /\ Deleted \subseteq 1..Len(made)
    BY <1>4 DEF Deleted, Ids
<1>13. DeletedIsArchived'
    BY <1>0, <1>4, <1>12 DEF DeletedIsArchived, ArchivesInv
<1> QED BY <1>8, <1>9, <1>10, <1>11, <1>13 DEF CleanIInv

LEMMA DeleteRowsKeeps ==
    ASSUME CleanIInv, DeleteRows
    PROVE  CleanIInv'
<1>0. CleanTypeOK /\ TableInv /\ ArchivesInv /\ RemovalInv /\ DeletedIsArchived
    BY DEF CleanIInv
<1>1. table' = {r \in table : r.id \notin Ids(batch)} /\ cleanAt' = "again" /\ batch' = {}
      /\ UNCHANGED <<clock, archives, before, made, cleanFaults>> /\ cleanAt = "delete"
    BY DEF DeleteRows
<1>2. CleanTypeOK' /\ TableInv' /\ ArchivesInv'
    BY <1>0, <1>1 DEF CleanTypeOK, TableInv, ArchivesInv
<1>3. RemovalInv'
    BY <1>0, <1>1 DEF RemovalInv
<1>4. PICK a \in archives : a.ids = Ids(batch)
    BY <1>0, <1>1 DEF RemovalInv
<1>5. Ids(table) \subseteq Ids(table)' \cup a.ids
    BY <1>1, <1>4 DEF Ids
<1>6. Deleted' \subseteq Deleted \cup a.ids
    BY <1>1, <1>5 DEF Deleted
<1>7. DeletedIsArchived'
    BY <1>0, <1>1, <1>4, <1>6 DEF DeletedIsArchived
<1> QED BY <1>2, <1>3, <1>7 DEF CleanIInv

LEMMA CleanInductive ==
    /\ CleanInit => CleanIInv
    /\ CleanIInv /\ [CleanNext]_cleanVars => CleanIInv'
<1>1. CleanInit => CleanIInv
    <2> SUFFICES ASSUME CleanInit PROVE CleanIInv
        OBVIOUS
    <2>1. CleanTypeOK
        BY CleanerAssumption DEF CleanInit, CleanTypeOK
    <2>2. TableInv /\ ArchivesInv /\ RemovalInv /\ Deleted = {}
        BY CleanerAssumption DEF CleanInit, TableInv, ArchivesInv, RemovalInv, Deleted, Ids
    <2> QED BY <2>1, <2>2 DEF CleanIInv, DeletedIsArchived
<1>2. CleanIInv /\ [CleanNext]_cleanVars => CleanIInv'
    <2> SUFFICES ASSUME CleanIInv, [CleanNext]_cleanVars PROVE CleanIInv'
        OBVIOUS
    <2>0. CleanTypeOK /\ TableInv /\ ArchivesInv /\ RemovalInv /\ DeletedIsArchived
        BY DEF CleanIInv
    <2>1. CASE ClockTicks
        <3>1. clock' \in 0..MaxClock /\ clock <= clock' /\ clock' \in Nat
              /\ UNCHANGED <<table, archives, cleanAt, before, batch, made, cleanFaults>>
            <4>1. clock \in 0..MaxClock /\ MaxClock \in Nat /\ clock < MaxClock /\ clock' = clock + 1
                BY <2>0, <2>1, ClockNumbers DEF ClockTicks, CleanTypeOK
            <4> QED BY <2>1, <4>1 DEF ClockTicks
        <3>2. before + CleanupDelay <= clock => before + CleanupDelay <= clock'
            BY <2>0, <3>1, ClockNumbers
        <3> QED BY <2>0, <3>1, <3>2 DEF CleanIInv, CleanTypeOK, TableInv, ArchivesInv, RemovalInv, DeletedIsArchived,
                   Deleted, Ids
    <2>2. CASE CleanerFails
        BY <2>0, <2>2, CleanerAssumption DEF CleanerFails, CleanIInv, CleanTypeOK, TableInv, ArchivesInv, RemovalInv,
           DeletedIsArchived, Deleted, Ids
    <2>3. CASE UNCHANGED cleanVars
        BY <2>0, <2>3 DEF cleanVars, CleanIInv, CleanTypeOK, TableInv, ArchivesInv, RemovalInv, DeletedIsArchived,
           Deleted, Ids
    <2> QED BY <2>1, <2>2, <2>3, RowIsMadeKeeps, RowFinishesKeeps, FindRowsKeeps, ArchiveDataKeeps, DeleteRowsKeeps
            DEF CleanNext
<1> QED BY <1>1, <1>2

LEMMA DueStep ==
    CleanIInv /\ [CleanNext]_cleanVars =>
        [\A r \in table : r.id \notin Ids(table') => r.finished /\ r.at + CleanupDelay <= clock]_cleanVars
<1> SUFFICES ASSUME CleanIInv, CleanNext, NEW r \in table, r.id \notin Ids(table')
             PROVE  r.finished /\ r.at + CleanupDelay <= clock
    OBVIOUS
<1>0. CleanTypeOK /\ TableInv /\ RemovalInv
    BY DEF CleanIInv
<1>1. ~RowIsMade /\ ~(UNCHANGED table)
    BY DEF RowIsMade, Ids
<1>2. ~RowFinishes
    <2> SUFFICES ASSUME RowFinishes PROVE FALSE
        OBVIOUS
    <2>1. PICK q \in table : table' = (table \ {q}) \cup {[q EXCEPT !.finished = TRUE]}
        BY DEF RowFinishes
    <2>2. [q EXCEPT !.finished = TRUE].id = q.id
        BY <1>0 DEF CleanTypeOK
    <2> QED BY <2>1, <2>2 DEF Ids
<1>3. DeleteRows
    BY <1>1, <1>2 DEF CleanNext, ClockTicks, FindRows, ArchiveData, CleanerFails
<1>4. PICK b \in batch : b.id = r.id
    BY <1>3 DEF DeleteRows, Ids
<1>5. r.finished /\ r.at = b.at /\ b.at <= before /\ before + CleanupDelay <= clock
    BY <1>0, <1>3, <1>4 DEF RemovalInv, TableInv, DeleteRows
<1>6. r.at \in Nat
    BY <1>0 DEF CleanTypeOK
<1> QED BY <1>0, <1>5, <1>6, ClockNumbers

LEMMA ArchivedStays == CleanIInv => DeletedIsArchived
BY DEF CleanIInv

(* However the cleaner fails and whatever rows are made or finished         *)
(* meanwhile: what it deletes was finished and due, and is archived.        *)
THEOREM CleanerCorrect == CleanSpec => RowsKept
BY CleanInductive, ArchivedStays, DueStep, PTL DEF CleanSpec, RowsKept, DeletedWasDue

-----------------------------------------------------------------------------
(* The chat: its inductive invariant.  A request that listens has heard     *)
(* nothing of its own before its first response, and takes all that it      *)
(* hears of its own from then on.                                           *)

RequestInv ==
    \A c \in Chats :
        /\ asked[c] <= Len(channel)
        /\ chatAt[c] = "listening" =>
              IF responses[c] = <<>> THEN heard[c] = {} /\ c \in initialTimer
                                     ELSE heard[c] # {} /\ c \in sequentialTimer
        /\ chatAt[c] \in {"listening", "resolved"} =>
              /\ heard[c] \subseteq ToSet(responses[c])
              /\ \A i \in DOMAIN responses[c] : responses[c][i] > asked[c]

RelayIInv == ChatTypeOK /\ WaitingListens /\ RequestInv /\ HeardIsTaken /\ AnswersFollow

LEMMA MessagesGrow ==
    ASSUME ChatTypeOK, NEW who \in Chats \cup {"bot"}, Len(channel) < MaxMessages,
           channel' = Append(channel, who)
    PROVE  /\ channel' \in Seq(Chats \cup {"bot"}) /\ Len(channel') = Len(channel) + 1
           /\ Len(channel') <= MaxMessages /\ Len(channel) + 1 \in 0..MaxMessages
           /\ Messages \subseteq Messages' /\ Len(channel) + 1 \in Messages'
           /\ Len(channel) + 1 \notin Messages /\ Messages \subseteq Nat
BY ChatAssumption DEF ChatTypeOK, Messages

LEMMA LongerSequences ==
    ASSUME NEW S, NEW T, S \subseteq T
    PROVE  Seq(S) \subseteq Seq(T)
OBVIOUS

LEMMA Appended ==
    ASSUME NEW S, NEW s \in Seq(S), NEW e
    PROVE  /\ Append(s, e) # <<>> /\ Append(s, e) \in Seq(S \cup {e})
           /\ ToSet(Append(s, e)) = ToSet(s) \cup {e}
           /\ \A i \in DOMAIN Append(s, e) : Append(s, e)[i] = e \/ (i \in DOMAIN s /\ Append(s, e)[i] = s[i])
<1>1. Append(s, e) # <<>> /\ Append(s, e) \in Seq(S \cup {e})
    <2>1. s \in Seq(S \cup {e})
        OBVIOUS
    <2> QED BY <2>1, AppendProperties
<1>2. DOMAIN Append(s, e) = 1 .. Len(s) + 1 /\ DOMAIN s = 1 .. Len(s) /\ Len(s) \in Nat
    BY AppendProperties
<1>3. Append(s, e)[Len(s) + 1] = e /\ \A i \in 1 .. Len(s) : Append(s, e)[i] = s[i]
    BY AppendProperties
<1>4. \A i \in DOMAIN Append(s, e) : Append(s, e)[i] = e \/ (i \in DOMAIN s /\ Append(s, e)[i] = s[i])
    BY <1>2, <1>3
<1>5. ToSet(Append(s, e)) = ToSet(s) \cup {e}
    <2>1. \A x \in ToSet(s) \cup {e} : x \in ToSet(Append(s, e))
        BY <1>2, <1>3 DEF ToSet
    <2>2. \A x \in ToSet(Append(s, e)) : x \in ToSet(s) \cup {e}
        BY <1>4 DEF ToSet
    <2> QED BY <2>1, <2>2
<1> QED BY <1>1, <1>4, <1>5

LEMMA SubmitKeepsRelay == ASSUME RelayIInv, NEW c \in Chats, HandleSubmit(c) PROVE RelayIInv'
BY DEF RelayIInv, ChatTypeOK, WaitingListens, RequestInv, HeardIsTaken, AnswersFollow, HandleSubmit, ChatGoes,
       ChatPlaces, Messages, timers

(* Messages only become more. *)
LEMMA MoreMessages ==
    ASSUME RelayIInv, NEW who \in Chats \cup {"bot"}, Len(channel) < MaxMessages,
           channel' = Append(channel, who)
    PROVE  /\ responses \in [Chats -> Seq(Messages')] /\ shown \in [Chats -> Seq({Earthlink} \cup Messages')]
           /\ heard \in [Chats -> SUBSET Messages'] /\ Len(channel) \in Nat
           /\ \A c \in Chats : asked[c] \in Nat /\ asked[c] <= Len(channel')
<1>1. Messages \subseteq Messages' /\ Len(channel') = Len(channel) + 1 /\ Len(channel) \in Nat
    BY MessagesGrow DEF RelayIInv, ChatTypeOK
<1>2. Seq(Messages) \subseteq Seq(Messages') /\ Seq({Earthlink} \cup Messages) \subseteq Seq({Earthlink} \cup Messages')
    BY <1>1, LongerSequences
<1>3. responses \in [Chats -> Seq(Messages)] /\ shown \in [Chats -> Seq({Earthlink} \cup Messages)]
      /\ heard \in [Chats -> SUBSET Messages]
    BY DEF RelayIInv, ChatTypeOK
<1>4. \A c \in Chats : asked[c] \in Nat /\ asked[c] <= Len(channel)
    BY ChatAssumption DEF RelayIInv, ChatTypeOK, RequestInv
<1> QED BY <1>1, <1>2, <1>3, <1>4

LEMMA PostKeepsRelay == ASSUME RelayIInv, NEW c \in Chats, PostQuestion(c) PROVE RelayIInv'
<1> USE DEF PostQuestion, ChatGoes, timers
<1>1. /\ channel' \in Seq(Chats \cup {"bot"}) /\ Len(channel') = Len(channel) + 1
      /\ Len(channel') <= MaxMessages /\ Len(channel) + 1 \in 0..MaxMessages /\ Len(channel) \in Nat
    BY MessagesGrow, MoreMessages DEF RelayIInv
<1>2. /\ responses' \in [Chats -> Seq(Messages')] /\ shown' \in [Chats -> Seq({Earthlink} \cup Messages')]
      /\ heard' \in [Chats -> SUBSET Messages']
      /\ \A d \in Chats : asked[d] \in Nat /\ asked[d] <= Len(channel')
    <2>1. channel' = Append(channel, c) /\ Len(channel) < MaxMessages
        OBVIOUS
    <2> QED BY <2>1, MoreMessages
<1>3. /\ chatAt' \in [Chats -> ChatPlaces] /\ asked' \in [Chats -> 0..MaxMessages]
      /\ chatFaults' \in 0..MaxChatFaults
    <2>1. chatAt' \in [Chats -> ChatPlaces]
        BY DEF RelayIInv, ChatTypeOK, ChatPlaces
    <2>2. asked' \in [Chats -> 0..MaxMessages]
        BY <1>1 DEF RelayIInv, ChatTypeOK
    <2>3. chatFaults' \in 0..MaxChatFaults
        BY ChatAssumption DEF RelayIInv, ChatTypeOK, ChatFault
    <2> QED BY <2>1, <2>2, <2>3
<1>4. ChatTypeOK'
    BY <1>1, <1>2, <1>3 DEF RelayIInv, ChatTypeOK
<1>5. \A d \in Chats : chatAt'[d] \in {"listening", "resolved", "rejected"} => chatAt'[d] = chatAt[d] /\ d # c
    BY DEF RelayIInv, ChatTypeOK
<1>6. \A d \in Chats : asked'[d] <= Len(channel') /\ (d # c => asked'[d] = asked[d])
    BY <1>1, <1>2 DEF RelayIInv, ChatTypeOK
<1>7. listeners' = {d \in Chats : chatAt'[d] = "listening"}
    BY DEF RelayIInv, ChatTypeOK, WaitingListens
<1> QED BY <1>4, <1>5, <1>6, <1>7 DEF RelayIInv, WaitingListens, RequestInv, HeardIsTaken, AnswersFollow

LEMMA CannotKeepsRelay == ASSUME RelayIInv, NEW c \in Chats, CannotPost(c) PROVE RelayIInv'
BY ChatAssumption DEF RelayIInv, ChatTypeOK, WaitingListens, RequestInv, HeardIsTaken, AnswersFollow, CannotPost, ChatGoes,
       ChatPlaces, Messages, timers, ChatFault

LEMMA WaitKeepsRelay == ASSUME RelayIInv, NEW c \in Chats, WaitForBotResponses(c) PROVE RelayIInv'
<1> USE DEF WaitForBotResponses, ChatGoes
<1>1. ChatTypeOK'
    <2>1. responses' \in [Chats -> Seq(Messages')] /\ heard' \in [Chats -> SUBSET Messages']
        BY DEF RelayIInv, ChatTypeOK, Messages
    <2> QED BY <2>1 DEF RelayIInv, ChatTypeOK, ChatPlaces, Messages, WaitingListens
<1>2. responses'[c] = <<>> /\ heard'[c] = {} /\ chatAt'[c] = "listening" /\ c \in initialTimer' /\ c \notin sequentialTimer'
    BY DEF RelayIInv, ChatTypeOK, WaitingListens
<1>3. \A d \in Chats : d # c => /\ responses'[d] = responses[d] /\ heard'[d] = heard[d] /\ chatAt'[d] = chatAt[d]
                                /\ (d \in initialTimer' <=> d \in initialTimer)
    BY DEF RelayIInv, ChatTypeOK
<1>4. WaitingListens'
    BY <1>2, <1>3 DEF RelayIInv, ChatTypeOK, WaitingListens
<1>5. RequestInv'
    <2>1. \A d \in Chats : asked'[d] <= Len(channel')
        BY DEF RelayIInv, RequestInv
    <2>2. ToSet(responses'[c]) = {} /\ DOMAIN responses'[c] = {}
        BY <1>2 DEF ToSet
    <2> QED BY <1>2, <1>3, <2>1, <2>2 DEF RelayIInv, RequestInv
<1> QED BY <1>1, <1>2, <1>3, <1>4, <1>5 DEF RelayIInv, HeardIsTaken, AnswersFollow

LEMMA TimeoutKeepsRelay ==
    ASSUME RelayIInv, NEW c \in Chats, InitialTimeout(c) \/ FinalizeResponses(c)
    PROVE  RelayIInv'
<1> USE DEF InitialTimeout, FinalizeResponses, Settles, ChatGoes
<1>1. chatAt[c] = "listening" /\ c \in listeners
    BY DEF RelayIInv, ChatTypeOK, WaitingListens
<1>2. ChatTypeOK'
  <2>1. UNCHANGED <<channel, asked, responses, shown, heard, chatFaults>>
      OBVIOUS
  <2>2. chatAt' \in [Chats -> ChatPlaces]
      BY DEF RelayIInv, ChatTypeOK, ChatPlaces
  <2>3. listeners' \subseteq Chats /\ initialTimer' \subseteq listeners' /\ sequentialTimer' \subseteq listeners'
      BY DEF RelayIInv, ChatTypeOK, WaitingListens
  <2> QED
      BY <2>1, <2>2, <2>3 DEF RelayIInv, ChatTypeOK, Messages
<1>3. \A d \in Chats : d # c => chatAt'[d] = chatAt[d]
    BY DEF RelayIInv, ChatTypeOK
<1>4. WaitingListens'
  <2>1. chatAt'[c] # "listening" /\ \A d \in Chats \ {c} : chatAt'[d] = chatAt[d]
      BY <1>1, <1>3 DEF RelayIInv, ChatTypeOK
  <2>2. listeners' = {d \in Chats : chatAt'[d] = "listening"}
    <3>1. listeners' = listeners \ {c} /\ listeners = {d \in Chats : chatAt[d] = "listening"}
        BY DEF RelayIInv, WaitingListens
    <3> QED
        BY ONLY <2>1, <3>1
  <2>3. initialTimer' \cup sequentialTimer' = listeners' /\ initialTimer' \cap sequentialTimer' = {}
      BY DEF RelayIInv, WaitingListens
  <2> QED
      BY <2>2, <2>3 DEF WaitingListens
<1>5. \/ chatAt'[c] = "rejected" /\ c \in initialTimer
      \/ chatAt'[c] = "resolved" /\ c \in sequentialTimer
    BY <1>1 DEF RelayIInv, ChatTypeOK
<1>6. responses' = responses /\ heard' = heard /\ asked' = asked /\ channel' = channel
    OBVIOUS
<1>7. c \in initialTimer => responses[c] = <<>> /\ heard[c] = {}
    BY <1>1 DEF RelayIInv, RequestInv, WaitingListens
<1>8. c \in sequentialTimer => responses[c] # <<>> /\ heard[c] # {}
    BY <1>1 DEF RelayIInv, RequestInv, WaitingListens
<1>9. /\ heard[c] \subseteq ToSet(responses[c])
      /\ \A i \in DOMAIN responses[c] : responses[c][i] > asked[c]
    BY <1>1 DEF RelayIInv, RequestInv
<1>10. RequestInv'
    <2>1. \A d \in Chats : d # c => (d \in initialTimer' <=> d \in initialTimer) /\ (d \in sequentialTimer' <=> d \in sequentialTimer)
        OBVIOUS
    <2> QED BY <2>1, <1>3, <1>5, <1>6, <1>9 DEF RelayIInv, RequestInv
<1>11. HeardIsTaken' /\ AnswersFollow'
    BY <1>3, <1>5, <1>6, <1>7, <1>8, <1>9 DEF RelayIInv, HeardIsTaken, AnswersFollow
<1> QED BY <1>2, <1>4, <1>10, <1>11 DEF RelayIInv

LEMMA ShowKeepsRelay ==
    ASSUME RelayIInv, NEW c \in Chats, ShowResponses(c) \/ ShowError(c)
    PROVE  RelayIInv'
<1> USE DEF ShowResponses, ShowError, Shows, ChatGoes, timers
<1>1. PICK m \in Seq({Earthlink} \cup Messages) : Shows(c, m)
    <2>1. CASE ShowResponses(c)
        <3>1. responses[c] \in Seq({Earthlink} \cup Messages)
            BY LongerSequences DEF RelayIInv, ChatTypeOK
        <3> QED BY <2>1, <3>1
    <2>2. CASE ShowError(c)
        <3>1. <<Earthlink>> \in Seq({Earthlink} \cup Messages)
            OBVIOUS
        <3> QED BY <2>2, <3>1
    <2> QED BY <2>1, <2>2
<1>2. shown' \in [Chats -> Seq({Earthlink} \cup Messages)]
    <2>1. shown[c] \o m \in Seq({Earthlink} \cup Messages)
        BY ConcatProperties DEF RelayIInv, ChatTypeOK
    <2> QED BY <1>1, <2>1 DEF RelayIInv, ChatTypeOK
<1>3. chatFaults' \in 0..MaxChatFaults
    BY ChatAssumption DEF RelayIInv, ChatTypeOK, ChatFault
<1>4. UNCHANGED <<channel, asked, responses, listeners, initialTimer, sequentialTimer, heard>>
    BY <1>1
<1>5. ChatTypeOK'
    BY <1>1, <1>2, <1>3, <1>4 DEF RelayIInv, ChatTypeOK, ChatPlaces, Messages
<1>6. chatAt[c] # "listening" /\ chatAt'[c] = "typing" /\ \A d \in Chats : d # c => chatAt'[d] = chatAt[d]
    BY DEF RelayIInv, ChatTypeOK
<1> QED BY <1>4, <1>5, <1>6 DEF RelayIInv, WaitingListens, RequestInv, HeardIsTaken, AnswersFollow

LEMMA BotKeepsRelay ==
    ASSUME RelayIInv, NEW r, NEW recent, BotPosts(r, recent)
    PROVE  RelayIInv'
<1> DEFINE new == Len(channel) + 1
           taken == {c \in listeners : InitialResponse(c, r) \/ SequentialMessage(c, r, recent)}
<1>0. /\ Len(channel) < MaxMessages /\ channel' = Append(channel, "bot")
      /\ responses' = [c \in Chats |-> IF c \in taken THEN Append(responses[c], new) ELSE responses[c]]
      /\ initialTimer' = Awaited(r) /\ sequentialTimer' = sequentialTimer \cup taken
      /\ heard' = [c \in Chats |-> IF c \in listeners /\ r = asked[c] THEN heard[c] \cup {new} ELSE heard[c]]
      /\ UNCHANGED <<chatAt, asked, listeners, shown, chatFaults>>
    BY DEF BotPosts
<1>1. /\ channel' \in Seq(Chats \cup {"bot"}) /\ Len(channel') = Len(channel) + 1
      /\ Len(channel') <= MaxMessages /\ Len(channel) \in Nat /\ new \in Messages' /\ new \in Nat
    BY <1>0, MessagesGrow, MoreMessages DEF RelayIInv
<1>2. /\ responses \in [Chats -> Seq(Messages')] /\ shown \in [Chats -> Seq({Earthlink} \cup Messages')]
      /\ heard \in [Chats -> SUBSET Messages']
      /\ \A c \in Chats : asked[c] \in Nat /\ asked[c] <= Len(channel') /\ asked[c] < new
    <2>1. \A c \in Chats : asked[c] \in Nat /\ asked[c] <= Len(channel)
        BY ChatAssumption DEF RelayIInv, ChatTypeOK, RequestInv
    <2> QED BY <1>0, <1>1, <2>1, MoreMessages
<1>3. taken \subseteq Chats /\ listeners \subseteq Chats /\ taken \subseteq listeners
    BY DEF RelayIInv, ChatTypeOK
<1>4. \A c \in taken : /\ responses'[c] # <<>> /\ responses'[c] \in Seq(Messages')
                       /\ ToSet(responses'[c]) = ToSet(responses[c]) \cup {new}
                       /\ \A i \in DOMAIN responses'[c] :
                             responses'[c][i] = new \/ (i \in DOMAIN responses[c] /\ responses'[c][i] = responses[c][i])
    <2> TAKE c \in taken
    <2>1. responses'[c] = Append(responses[c], new) /\ responses[c] \in Seq(Messages') /\ Messages' \cup {new} = Messages'
        BY <1>0, <1>1, <1>2, <1>3
    <2> HIDE DEF new, taken
    <2> QED BY <2>1, Appended
<1>5. \A c \in Chats \ taken : responses'[c] = responses[c]
    BY <1>0
<1>6. \A c \in Chats : IF c \in listeners /\ r = asked[c] THEN heard'[c] = heard[c] \cup {new} ELSE heard'[c] = heard[c]
    BY <1>0
<1>7. \A c \in listeners : r = asked[c] => c \in taken
    BY DEF InitialResponse, SequentialMessage
<1>8. /\ \A c \in initialTimer : c \in listeners /\ responses[c] = <<>> /\ heard[c] = {} /\ c \notin sequentialTimer
      /\ \A c \in listeners : responses[c] = <<>> => c \in initialTimer
      /\ \A c \in listeners : responses[c] # <<>> => c \in sequentialTimer /\ heard[c] # {}
      /\ \A c \in sequentialTimer : responses[c] # <<>> /\ c \in listeners
    BY <1>3 DEF RelayIInv, RequestInv, WaitingListens
<1>9. \A c \in initialTimer : (c \in taken <=> r = asked[c]) /\ (c \in initialTimer' <=> c \notin taken)
    BY <1>0, <1>8 DEF Awaited, InitialResponse, SequentialMessage
<1>10. initialTimer' \subseteq initialTimer
    BY <1>0 DEF Awaited
<1> HIDE DEF new, taken
<1>11. WaitingListens'
    <2>1. initialTimer' \cup sequentialTimer' = listeners /\ initialTimer' \cap sequentialTimer' = {}
        BY <1>0, <1>3, <1>8, <1>9, <1>10 DEF RelayIInv, WaitingListens
    <2> QED BY <2>1, <1>0 DEF RelayIInv, WaitingListens
<1>12. ChatTypeOK'
    <2>1. responses' \in [Chats -> Seq(Messages')]
        BY <1>0, <1>2, <1>4, <1>5
    <2>2. heard' \in [Chats -> SUBSET Messages']
        BY <1>0, <1>1, <1>2
    <2> QED BY <1>0, <1>1, <1>2, <2>1, <2>2, <1>11 DEF RelayIInv, ChatTypeOK, WaitingListens
<1>13. RequestInv'
    <2> SUFFICES ASSUME NEW c \in Chats
                 PROVE  /\ asked'[c] <= Len(channel')
                        /\ chatAt'[c] = "listening" =>
                              IF responses'[c] = <<>> THEN heard'[c] = {} /\ c \in initialTimer'
                                                      ELSE heard'[c] # {} /\ c \in sequentialTimer'
                        /\ chatAt'[c] \in {"listening", "resolved"} =>
                              /\ heard'[c] \subseteq ToSet(responses'[c])
                              /\ \A i \in DOMAIN responses'[c] : responses'[c][i] > asked'[c]
        BY DEF RequestInv
    <2>1. asked'[c] <= Len(channel') /\ asked'[c] = asked[c] /\ chatAt'[c] = chatAt[c]
        BY <1>0, <1>2
    <2>2. chatAt[c] \in {"listening", "resolved"} =>
              /\ heard[c] \subseteq ToSet(responses[c])
              /\ \A i \in DOMAIN responses[c] : responses[c][i] > asked[c]
        BY DEF RelayIInv, RequestInv
    <2>3. c \in listeners <=> chatAt[c] = "listening"
        BY DEF RelayIInv, WaitingListens
    <2>4. CASE c \in taken
        <3>1. c \in listeners /\ responses'[c] # <<>> /\ c \in sequentialTimer'
            BY <2>4, <1>0, <1>3, <1>4
        <3>2. heard'[c] # {}
            BY <3>1, <1>6, <1>8, <1>9, <2>4
        <3>3. heard'[c] \subseteq ToSet(responses'[c])
            BY <3>1, <1>4, <1>6, <2>2, <2>3, <2>4
        <3>4. \A i \in DOMAIN responses'[c] : responses'[c][i] > asked[c]
            <4>1. \A i \in DOMAIN responses[c] : responses[c][i] > asked[c]
                BY <3>1, <2>2, <2>3
            <4>2. new > asked[c]
                BY <1>1, <1>2
            <4> QED BY <4>1, <4>2, <1>4, <2>4
        <3> QED BY <2>1, <3>1, <3>2, <3>3, <3>4
    <2>5. CASE c \notin taken
        <3>1. responses'[c] = responses[c] /\ heard'[c] = heard[c]
            BY <2>5, <1>5, <1>6, <1>7
        <3>2. c \in listeners => (c \in initialTimer' <=> c \in initialTimer)
            BY <2>5, <1>9, <1>10
        <3>3. c \in sequentialTimer => c \in sequentialTimer'
            BY <1>0
        <3> QED BY <2>1, <2>2, <2>3, <3>1, <3>2, <3>3, <1>8
    <2> QED BY <2>4, <2>5
<1>14. HeardIsTaken' /\ AnswersFollow'
    <2>1. \A c \in Chats : chatAt[c] # "listening" => c \notin taken /\ c \notin listeners
        BY <1>3 DEF RelayIInv, WaitingListens
    <2>2. \A c \in Chats : chatAt[c] # "listening" => responses'[c] = responses[c] /\ heard'[c] = heard[c]
        BY <2>1, <1>5, <1>6
    <2> QED BY <2>2, <1>0 DEF RelayIInv, HeardIsTaken, AnswersFollow
<1> QED BY <1>11, <1>12, <1>13, <1>14 DEF RelayIInv

LEMMA RelayInductive ==
    /\ ChatInit => RelayIInv
    /\ RelayIInv /\ [ChatNext]_chatVars => RelayIInv'
<1>1. ChatInit => RelayIInv
    <2> SUFFICES ASSUME ChatInit PROVE RelayIInv
        OBVIOUS
    <2>1. ChatTypeOK
        BY ChatAssumption DEF ChatInit, ChatTypeOK, ChatPlaces, Messages
    <2>2. WaitingListens /\ HeardIsTaken /\ AnswersFollow
        BY DEF ChatInit, WaitingListens, HeardIsTaken, AnswersFollow
    <2>3. RequestInv
        BY DEF ChatInit, RequestInv
    <2> QED BY <2>1, <2>2, <2>3 DEF RelayIInv
<1>2. ASSUME RelayIInv, [ChatNext]_chatVars PROVE RelayIInv'
    <2>1. CASE UNCHANGED chatVars
        BY <1>2, <2>1 DEF chatVars, RelayIInv, ChatTypeOK, WaitingListens, RequestInv, HeardIsTaken, AnswersFollow, Messages
    <2>2. CASE ChatNext
        BY <1>2, <2>2, SubmitKeepsRelay, PostKeepsRelay, CannotKeepsRelay, WaitKeepsRelay, TimeoutKeepsRelay,
           ShowKeepsRelay, BotKeepsRelay DEF ChatNext, ChatStep
    <2> QED BY <1>2, <2>1, <2>2
<1> QED BY <1>1, <1>2

-----------------------------------------------------------------------------
(* The scraping of pages: its inductive invariant.  A file is named after   *)
(* its page and a second that has come, and holds a chunk that its job is   *)
(* past.                                                                    *)

GraphsInv ==
    \A f \in graphFiles :
        /\ f.name[2] = UrlOf(f.of[1]) /\ f.name[1] <= second
        /\ f.of[2] < chunk[f.of[1]]

ChunksInv ==
    \A j \in Jobs :
        /\ \A n \in stored[j] : n < chunk[j]
        /\ jobAt[j] \notin {"chunk", "returned", "raised"} => chunk[j] = 1
        /\ jobAt[j] = "chunk" => chunk[j] <= chunks[j]

CompanionIInv == CompanionTypeOK /\ GraphsInv /\ ChunksInv /\ CompanionInv

(* What every step of a job but StoreChunk and ChunkFails does. *)
NothingStored ==
    /\ UNCHANGED <<chunk, stored, graphFiles>> /\ metadata \subseteq metadata'
    /\ second' >= second /\ second' \in 0..MaxSecond
    /\ \A j \in Jobs : jobAt'[j] = jobAt[j] \/ jobAt[j] \notin {"chunk", "returned", "raised"}
    /\ \A j \in Jobs : chunks'[j] = chunks[j] \/ (jobAt[j] = "prepare" /\ chunks'[j] >= 1)
    /\ \A j \in Jobs : jobAt'[j] = "chunk" => jobAt[j] = "chunk" \/ chunks'[j] >= 1

LEMMA JobsAre ==
    /\ \A j \in Jobs : UrlOf(j) \in Pages /\ ProcessOf(j) \in Processes
    /\ Pages \subseteq Jobs /\ Requests \subseteq Jobs
    /\ MaxChunks \in Nat \ {0} /\ MaxSecond \in Nat
BY CompanionAssumption DEF Jobs, UrlOf, ProcessOf, Processes

LEMMA CompanionTypes ==
    ASSUME CompanionIInv
    PROVE  /\ second \in Nat /\ \A j \in Jobs : chunk[j] \in Nat /\ chunks[j] \in Nat /\ chunk[j] >= 1 /\ stored[j] \subseteq Nat
           /\ \A f \in graphFiles : f.name[1] \in Nat /\ f.of[1] \in Jobs /\ f.of[2] \in Nat /\ f.name = <<f.name[1], f.name[2]>>
                                    /\ f.of = <<f.of[1], f.of[2]>>
<1>1. /\ second \in Nat /\ \A j \in Jobs : chunk[j] \in Nat /\ chunks[j] \in Nat /\ chunk[j] >= 1 /\ stored[j] \subseteq Nat
    BY JobsAre DEF CompanionIInv, CompanionTypeOK
<1>2. \A f \in graphFiles : f.name \in (0 .. MaxSecond) \X Pages /\ f.of \in Jobs \X (1 .. MaxChunks)
    BY DEF CompanionIInv, CompanionTypeOK
<1>3. \A f \in graphFiles : f.name[1] \in Nat /\ f.of[1] \in Jobs /\ f.of[2] \in Nat /\ f.name = <<f.name[1], f.name[2]>>
                            /\ f.of = <<f.of[1], f.of[2]>>
    BY <1>2, JobsAre
<1> QED BY <1>1, <1>3

LEMMA NothingStoredKeeps ==
    ASSUME CompanionIInv, NothingStored, CompanionTypeOK'
    PROVE  CompanionIInv'
<1>1. /\ second \in Nat /\ second' \in Nat
      /\ \A j \in Jobs : chunk[j] \in Nat /\ chunks[j] \in Nat /\ chunks'[j] \in Nat /\ chunk[j] >= 1
      /\ \A f \in graphFiles : f.name[1] \in Nat
    BY JobsAre, CompanionTypes DEF CompanionTypeOK
<1>2. UNCHANGED <<chunk, stored, graphFiles>> /\ metadata \subseteq metadata' /\ second' >= second
    BY DEF NothingStored
<1>3. GraphsInv'
    BY <1>1, <1>2 DEF CompanionIInv, GraphsInv
<1>4. ChunksInv'
    <2> SUFFICES ASSUME NEW j \in Jobs
                 PROVE  /\ \A n \in stored[j] : n < chunk[j]
                        /\ jobAt'[j] \notin {"chunk", "returned", "raised"} => chunk[j] = 1
                        /\ jobAt'[j] = "chunk" => chunk[j] <= chunks'[j]
        BY <1>2 DEF ChunksInv
    <2>1. /\ \A n \in stored[j] : n < chunk[j]
          /\ jobAt[j] \notin {"chunk", "returned", "raised"} => chunk[j] = 1
          /\ jobAt[j] = "chunk" => chunk[j] <= chunks[j]
        BY DEF CompanionIInv, ChunksInv
    <2>2. /\ jobAt'[j] = jobAt[j] \/ jobAt[j] \notin {"chunk", "returned", "raised"}
          /\ chunks'[j] = chunks[j] \/ (jobAt[j] = "prepare" /\ chunks'[j] >= 1)
          /\ jobAt'[j] = "chunk" => jobAt[j] = "chunk" \/ chunks'[j] >= 1
        BY DEF NothingStored
    <2> QED BY <2>1, <2>2, <1>1
<1>5. CompanionInv'
    BY <1>2 DEF CompanionIInv, CompanionInv, StoredIsOfPage, LatestStays, GraphNeedsSchema
<1> QED BY <1>3, <1>4, <1>5 DEF CompanionIInv

LEMMA MoveKeepsCompanion ==
    ASSUME CompanionIInv, NEW j \in Jobs,
           \/ ScrapeUrl(j) \/ ScrapeNext(j) \/ SelectUrl(j) \/ InsertUrl(j) \/ FetchRaw(j)
           \/ JsonCss(j) \/ PressEnter(j) \/ PreprocessWithCosine(j)
    PROVE  CompanionIInv'
<1> USE DEF ScrapeUrl, ScrapeNext, SelectUrl, InsertUrl, FetchRaw, JsonCss, PressEnter, PreprocessWithCosine, ComesTo,
            Keeps, Awaits, results, content
<1>1. /\ UNCHANGED <<chunk, chunks, stored, graphFiles, second, resultsFile>>
      /\ metadata \subseteq metadata' /\ metadata' \subseteq Jobs
      /\ rawContent' \subseteq Jobs /\ crawledUrls' \subseteq Pages /\ toScrape' \subseteq Pages
    BY JobsAre DEF CompanionIInv, CompanionTypeOK
<1>2. PICK q \in {"select", "insert", "raw", "raised", "json", "enter", "cosine", "prepare"} :
         jobAt' = [jobAt EXCEPT ![j] = q] /\ jobAt[j] \notin {"chunk", "returned", "raised"}
    OBVIOUS
<1>3. jobAt' \in [Jobs -> JobPlaces] /\ \A i \in Jobs : i # j => jobAt'[i] = jobAt[i]
    BY <1>2 DEF CompanionIInv, CompanionTypeOK, JobPlaces
<1>4. jobAt'[j] # "chunk"
    BY <1>2 DEF CompanionIInv, CompanionTypeOK
<1>5. busy' \in [Processes -> Jobs \cup {Idle}]
    BY JobsAre DEF CompanionIInv, CompanionTypeOK
<1>6. CompanionTypeOK'
    BY <1>1, <1>3, <1>5 DEF CompanionIInv, CompanionTypeOK
<1>7. NothingStored
    BY <1>1, <1>2, <1>3, <1>4, CompanionTypes DEF NothingStored, CompanionIInv, CompanionTypeOK
<1> QED BY <1>6, <1>7, NothingStoredKeeps

LEMMA PrepareKeepsCompanion ==
    ASSUME CompanionIInv, NEW j \in Jobs, PrepareContent(j)
    PROVE  CompanionIInv'
<1> USE DEF PrepareContent, ComesTo, Awaits, results, content
<1>1. /\ UNCHANGED <<chunk, stored, graphFiles, second, resultsFile, metadata, rawContent, crawledUrls, toScrape>>
      /\ jobAt[j] = "prepare"
    OBVIOUS
<1>2. /\ jobAt' \in [Jobs -> JobPlaces] /\ \A i \in Jobs : i # j => jobAt'[i] = jobAt[i]
      /\ busy' \in [Processes -> Jobs \cup {Idle}]
    BY JobsAre DEF CompanionIInv, CompanionTypeOK, JobPlaces
<1>3. /\ chunks' \in [Jobs -> 0..MaxChunks] /\ \A i \in Jobs : i # j => chunks'[i] = chunks[i]
      /\ \/ chunks'[j] >= 1
         \/ chunks'[j] = chunks[j] /\ jobAt'[j] = "returned"
    <2>1. CASE j \in rawContent
        <3>1. PICK n \in 1..MaxChunks : chunks' = [chunks EXCEPT ![j] = n]
            BY <2>1
        <3> QED BY <3>1, JobsAre DEF CompanionIInv, CompanionTypeOK
    <2>2. CASE j \notin rawContent
        BY <2>2 DEF CompanionIInv, CompanionTypeOK
    <2> QED BY <2>1, <2>2
<1>4. chunk[j] = 1
    BY <1>1 DEF CompanionIInv, ChunksInv
<1>5. CompanionTypeOK'
    <2>1. \A i \in Jobs : chunk'[i] <= chunks'[i] + 1
        BY <1>1, <1>3, <1>4, JobsAre DEF CompanionIInv, CompanionTypeOK
    <2> QED BY <1>1, <1>2, <1>3, <2>1 DEF CompanionIInv, CompanionTypeOK
<1>6. NothingStored
    BY <1>1, <1>2, <1>3, CompanionTypes DEF NothingStored, CompanionIInv, CompanionTypeOK
<1> QED BY <1>5, <1>6, NothingStoredKeeps

LEMMA SearchKeepsCompanion ==
    ASSUME CompanionIInv,
           SecondPasses \/ ProcessLatestResults \/ \E p \in Processes : SaveResults(p)
    PROVE  CompanionIInv'
<1> USE DEF SecondPasses, ProcessLatestResults, SaveResults, results, content
<1>1. UNCHANGED <<chunk, chunks, stored, graphFiles, metadata, jobAt, busy, rawContent, crawledUrls>>
    OBVIOUS
<1>2. /\ second' >= second /\ second' \in 0..MaxSecond
      /\ resultsFile' \subseteq Pages /\ toScrape' \subseteq Pages
    BY JobsAre, CompanionTypes DEF CompanionIInv, CompanionTypeOK
<1>3. CompanionTypeOK'
    BY <1>1, <1>2 DEF CompanionIInv, CompanionTypeOK
<1>4. NothingStored
    BY <1>1, <1>2 DEF NothingStored
<1> QED BY <1>3, <1>4, NothingStoredKeeps

(* The next chunk, whether this one was stored or not. *)
LEMMA ChunkPasses ==
    ASSUME CompanionIInv, NEW j \in Jobs, ComesTo(j, "chunk", NextChunk(j)), Awaits(j),
           chunk' = [chunk EXCEPT ![j] = @ + 1],
           UNCHANGED <<crawledUrls, rawContent, metadata, chunks, toScrape>>
    PROVE  /\ jobAt' \in [Jobs -> JobPlaces] /\ busy' \in [Processes -> Jobs \cup {Idle}]
           /\ chunk' \in [Jobs -> 1 .. MaxChunks + 1] /\ \A i \in Jobs : chunk'[i] <= chunks[i] + 1
           /\ chunk[j] \in 1..MaxChunks /\ chunk'[j] = chunk[j] + 1 /\ \A i \in Jobs : i # j => chunk'[i] = chunk[i]
           /\ jobAt'[j] \in {"chunk", "returned"} /\ \A i \in Jobs : i # j => jobAt'[i] = jobAt[i]
           /\ jobAt'[j] = "chunk" => chunk'[j] <= chunks[j]
<1>1. jobAt[j] = "chunk" /\ jobAt' = [jobAt EXCEPT ![j] = NextChunk(j)]
    BY DEF ComesTo
<1>2. NextChunk(j) \in {"chunk", "returned"} /\ (NextChunk(j) = "chunk" => chunk[j] < chunks[j])
    BY DEF NextChunk
<1>3. /\ jobAt' \in [Jobs -> JobPlaces] /\ jobAt'[j] = NextChunk(j)
      /\ \A i \in Jobs : i # j => jobAt'[i] = jobAt[i]
    BY <1>1, <1>2 DEF CompanionIInv, CompanionTypeOK, JobPlaces
<1>4. busy' \in [Processes -> Jobs \cup {Idle}]
    BY JobsAre DEF Awaits, CompanionIInv, CompanionTypeOK
<1>5. chunk[j] <= chunks[j] /\ chunks[j] \in 0..MaxChunks /\ chunk[j] \in 1..MaxChunks + 1
    BY <1>1 DEF CompanionIInv, CompanionTypeOK, ChunksInv
<1>6. chunk'[j] = chunk[j] + 1 /\ \A i \in Jobs : i # j => chunk'[i] = chunk[i]
    BY DEF CompanionIInv, CompanionTypeOK
<1>7. chunk[j] \in 1..MaxChunks /\ chunk[j] + 1 \in 1..MaxChunks + 1 /\ chunk[j] + 1 <= chunks[j] + 1
    BY <1>5, JobsAre
<1>8. chunk' \in [Jobs -> 1 .. MaxChunks + 1]
    BY <1>7 DEF CompanionIInv, CompanionTypeOK
<1>9. \A i \in Jobs : chunk'[i] <= chunks[i] + 1
    BY <1>6, <1>7 DEF CompanionIInv, CompanionTypeOK
<1>10. jobAt'[j] = "chunk" => chunk'[j] <= chunks[j]
    BY <1>2, <1>3, <1>5, <1>6, <1>7
<1> QED BY <1>2, <1>3, <1>4, <1>6, <1>7, <1>8, <1>9, <1>10

LEMMA FailKeepsCompanion ==
    ASSUME CompanionIInv, NEW j \in Jobs, ChunkFails(j)
    PROVE  CompanionIInv'
<1>0. /\ ComesTo(j, "chunk", NextChunk(j)) /\ Awaits(j) /\ chunk' = [chunk EXCEPT ![j] = @ + 1]
      /\ UNCHANGED <<crawledUrls, rawContent, metadata, chunks, toScrape, stored, graphFiles, second, resultsFile>>
    BY DEF ChunkFails, results, ComesTo
<1>1. /\ jobAt' \in [Jobs -> JobPlaces] /\ busy' \in [Processes -> Jobs \cup {Idle}]
      /\ chunk' \in [Jobs -> 1 .. MaxChunks + 1] /\ \A i \in Jobs : chunk'[i] <= chunks[i] + 1
      /\ chunk'[j] = chunk[j] + 1 /\ \A i \in Jobs : i # j => chunk'[i] = chunk[i]
      /\ jobAt'[j] \in {"chunk", "returned"} /\ \A i \in Jobs : i # j => jobAt'[i] = jobAt[i]
      /\ jobAt'[j] = "chunk" => chunk'[j] <= chunks[j]
    BY <1>0, ChunkPasses
<1>2. CompanionTypeOK'
    BY <1>0, <1>1 DEF CompanionIInv, CompanionTypeOK
<1>3. \A i \in Jobs : chunk[i] \in Nat /\ chunk'[i] \in Nat /\ chunk[i] <= chunk'[i] /\ stored[i] \subseteq Nat
    BY <1>1, CompanionTypes
<1>4. GraphsInv'
    <2>1. \A f \in graphFiles : f.of[2] < chunk'[f.of[1]]
        BY <1>3, CompanionTypes DEF CompanionIInv, GraphsInv
    <2> QED BY <2>1, <1>0 DEF CompanionIInv, GraphsInv
<1>5. ChunksInv'
    <2>1. \A i \in Jobs : \A n \in stored[i] : n < chunk'[i]
        BY <1>3 DEF CompanionIInv, ChunksInv
    <2> QED BY <2>1, <1>0, <1>1 DEF CompanionIInv, ChunksInv
<1>6. CompanionInv'
    BY <1>0 DEF CompanionIInv, CompanionInv, StoredIsOfPage, LatestStays, GraphNeedsSchema
<1> QED BY <1>2, <1>4, <1>5, <1>6 DEF CompanionIInv

LEMMA StoreKeepsCompanion ==
    ASSUME CompanionIInv, NEW j \in Jobs, StoreChunk(j)
    PROVE  CompanionIInv'
<1> DEFINE new == [name |-> FileName(j), of |-> <<j, chunk[j]>>]
<1>0. /\ ComesTo(j, "chunk", NextChunk(j)) /\ Awaits(j) /\ chunk' = [chunk EXCEPT ![j] = @ + 1]
      /\ UNCHANGED <<crawledUrls, rawContent, metadata, chunks, toScrape, second, resultsFile>>
      /\ j \in metadata /\ stored' = [stored EXCEPT ![j] = @ \cup {chunk[j]}]
      /\ graphFiles' = {f \in graphFiles : f.name # FileName(j)} \cup {new}
    BY DEF StoreChunk, ComesTo, Written, MetadataBound
<1>1. /\ jobAt' \in [Jobs -> JobPlaces] /\ busy' \in [Processes -> Jobs \cup {Idle}]
      /\ chunk' \in [Jobs -> 1 .. MaxChunks + 1] /\ \A i \in Jobs : chunk'[i] <= chunks[i] + 1
      /\ chunk[j] \in 1..MaxChunks
      /\ chunk'[j] = chunk[j] + 1 /\ \A i \in Jobs : i # j => chunk'[i] = chunk[i]
      /\ jobAt'[j] \in {"chunk", "returned"} /\ \A i \in Jobs : i # j => jobAt'[i] = jobAt[i]
      /\ jobAt'[j] = "chunk" => chunk'[j] <= chunks[j]
    BY <1>0, ChunkPasses
<1>2. /\ new.name = <<second, UrlOf(j)>> /\ new.of = <<j, chunk[j]>>
      /\ new.name[1] = second /\ new.name[2] = UrlOf(j) /\ new.of[1] = j /\ new.of[2] = chunk[j]
      /\ new \in graphFiles' /\ \A f \in graphFiles' : f = new \/ f \in graphFiles
      /\ \A f \in graphFiles : f \in graphFiles' \/ (f.name[1] = second /\ f.name[2] = UrlOf(j))
      /\ \A f \in graphFiles : f = new \/ f \notin graphFiles' \/ ~(f.name[1] = second /\ f.name[2] = UrlOf(j))
    BY <1>0, CompanionTypes DEF FileName
<1>3. /\ \A i \in Jobs : i # j => stored'[i] = stored[i]
      /\ stored'[j] = stored[j] \cup {chunk[j]}
    BY <1>0 DEF CompanionIInv, CompanionTypeOK
<1>4. CompanionTypeOK'
    <2>1. stored' \in [Jobs -> SUBSET (1..MaxChunks)]
        BY <1>0, <1>1 DEF CompanionIInv, CompanionTypeOK
    <2>2. new \in [name : (0 .. MaxSecond) \X Pages, of : Jobs \X (1 .. MaxChunks)]
        BY <1>1, JobsAre DEF FileName, CompanionIInv, CompanionTypeOK
    <2>3. graphFiles' \subseteq [name : (0 .. MaxSecond) \X Pages, of : Jobs \X (1 .. MaxChunks)]
        BY <2>2, <1>0 DEF CompanionIInv, CompanionTypeOK
    <2> QED BY <1>0, <1>1, <2>1, <2>3 DEF CompanionIInv, CompanionTypeOK
<1> HIDE DEF new
<1>5. \A i \in Jobs : chunk[i] \in Nat /\ chunk'[i] \in Nat /\ chunk[i] <= chunk'[i] /\ stored[i] \subseteq Nat
    BY <1>1, CompanionTypes
<1>6. GraphsInv'
    <2>1. \A f \in graphFiles : f.of[2] < chunk'[f.of[1]] /\ f.name[2] = UrlOf(f.of[1]) /\ f.name[1] <= second
        BY <1>5, CompanionTypes DEF CompanionIInv, GraphsInv
    <2>2. new.of[2] < chunk'[new.of[1]] /\ new.name[2] = UrlOf(new.of[1]) /\ new.name[1] <= second
        BY <1>1, <1>2, <1>5, CompanionTypes
    <2> QED BY <2>1, <2>2, <1>0, <1>2 DEF GraphsInv
<1>7. ChunksInv'
    <2>1. \A i \in Jobs : \A n \in stored'[i] : n < chunk'[i]
        BY <1>1, <1>3, <1>5 DEF CompanionIInv, ChunksInv
    <2> QED BY <2>1, <1>0, <1>1 DEF CompanionIInv, ChunksInv
(* Where a file is overwritten, the new one has its name.                   *)
<1>8. \A f \in graphFiles : \E g \in graphFiles' : UrlOf(g.of[1]) = UrlOf(f.of[1]) /\ g.name[1] = f.name[1]
    <2> TAKE f \in graphFiles
    <2>1. CASE f \in graphFiles'
        BY <2>1
    <2>2. CASE f.name[1] = second /\ f.name[2] = UrlOf(j)
        BY <2>2, <1>2 DEF CompanionIInv, GraphsInv
    <2> QED BY <2>1, <2>2, <1>2
<1>9. StoredIsOfPage'
    <2> SUFFICES ASSUME NEW i \in Jobs, stored'[i] # {}
                 PROVE  \E f \in graphFiles' : UrlOf(f.of[1]) = UrlOf(i)
        BY DEF StoredIsOfPage
    <2>1. CASE i = j
        BY <2>1, <1>2
    <2>2. CASE i # j
        <3>1. PICK f \in graphFiles : UrlOf(f.of[1]) = UrlOf(i)
            BY <2>2, <1>3 DEF CompanionIInv, CompanionInv, StoredIsOfPage
        <3> QED BY <3>1, <1>8
    <2> QED BY <2>1, <2>2
<1>10. LatestStays'
    <2> SUFFICES ASSUME NEW f \in graphFiles', NEW i \in Jobs, f.of[1] = i, NEW n \in stored'[i], n > f.of[2]
                 PROVE  \E g \in graphFiles' : UrlOf(g.of[1]) = UrlOf(i) /\ g.name[1] > f.name[1]
        BY DEF LatestStays
    <2>1. f # new
        <3> SUFFICES ASSUME f = new PROVE FALSE
            OBVIOUS
        <3>1. i = j /\ n \in stored[j] \cup {chunk[j]} /\ n > chunk[j]
            BY <1>2, <1>3
        <3>2. \A m \in stored[j] : m < chunk[j]
            BY DEF CompanionIInv, ChunksInv
        <3> QED BY <3>1, <3>2, <1>5
    <2>2. f \in graphFiles
        BY <2>1, <1>2
    <2>3. CASE n \in stored[i]
        <3>1. PICK g \in graphFiles : UrlOf(g.of[1]) = UrlOf(i) /\ g.name[1] > f.name[1]
            BY <2>2, <2>3 DEF CompanionIInv, CompanionInv, LatestStays
        <3> QED BY <3>1, <1>8
    <2>4. CASE n \notin stored[i]
        <3>1. i = j
            BY <2>4, <1>3
        <3>2. f.name[2] = UrlOf(j) /\ f.name[1] <= second /\ f.name[1] \in Nat /\ second \in Nat
            BY <2>2, <3>1, CompanionTypes DEF CompanionIInv, GraphsInv
        <3>3. f.name[1] # second
            BY <2>1, <2>2, <3>2, <1>2
        <3>4. second > f.name[1]
            BY <3>2, <3>3
        <3> QED BY <3>1, <3>4, <1>2
    <2> QED BY <2>3, <2>4
<1>11. GraphNeedsSchema'
    BY <1>0, <1>2 DEF CompanionIInv, CompanionInv, GraphNeedsSchema
<1> QED BY <1>4, <1>6, <1>7, <1>9, <1>10, <1>11 DEF CompanionIInv, CompanionInv

LEMMA CompanionInductive ==
    /\ CompanionInit => CompanionIInv
    /\ CompanionIInv /\ [CompanionNext]_companionVars => CompanionIInv'
<1>1. CompanionInit => CompanionIInv
    <2> SUFFICES ASSUME CompanionInit PROVE CompanionIInv
        OBVIOUS
    <2>1. CompanionTypeOK
        BY JobsAre DEF CompanionInit, CompanionTypeOK, JobPlaces
    <2>2. GraphsInv /\ ChunksInv
        BY DEF CompanionInit, GraphsInv, ChunksInv
    <2>3. CompanionInv
        BY DEF CompanionInit, CompanionInv, StoredIsOfPage, LatestStays, GraphNeedsSchema
    <2> QED BY <2>1, <2>2, <2>3 DEF CompanionIInv
<1>2. ASSUME CompanionIInv, [CompanionNext]_companionVars PROVE CompanionIInv'
    <2>1. CASE UNCHANGED companionVars
        BY <1>2, <2>1 DEF companionVars, CompanionIInv, CompanionTypeOK, GraphsInv, ChunksInv, CompanionInv, StoredIsOfPage,
           LatestStays, GraphNeedsSchema
    <2>2. CASE CompanionNext
        BY <1>2, <2>2, MoveKeepsCompanion, PrepareKeepsCompanion, SearchKeepsCompanion, FailKeepsCompanion,
           StoreKeepsCompanion DEF CompanionNext, JobStep
    <2> QED BY <1>2, <2>1, <2>2
<1> QED BY <1>1, <1>2

(* The chat answers each window with what followed its question and leaves   *)
(* no handler behind, and the graphs in the directory are those of pages     *)
(* that were scraped, for any number of windows, pages, requests and faults. *)
THEOREM PlatformCorrect == ChatSpec /\ CompanionSpec => []PlatformInv
<1>1. RelayIInv => RelayInv
    BY DEF RelayIInv, RelayInv
<1>2. CompanionIInv => CompanionInv
    BY DEF CompanionIInv
<1>3. ChatSpec => []RelayIInv
    BY RelayInductive, PTL DEF ChatSpec
<1>4. CompanionSpec => []CompanionIInv
    BY CompanionInductive, PTL DEF CompanionSpec
<1> QED BY <1>1, <1>2, <1>3, <1>4, PTL DEF PlatformInv

-----------------------------------------------------------------------------
(* The sharding table.  A list that holds nobody twice.                    *)

Distinct(s) == \A i, j \in 1..Len(s) : s[i] = s[j] => i = j
IsTable(s) == s \in Seq(Nodes) /\ s # <<>> /\ Distinct(s)

(* The contract never has fewer than one node.  What a pull has of it is    *)
(* its first nodes, up to the one the next page begins with.                *)
OnChainInv == IsTable(onChain)
PullTypes ==
    /\ shard \subseteq Nodes /\ pulled \in Seq(Nodes) /\ length \in Nat /\ slice \in {0, 1}
    /\ pullAt \in {"idle", "remove", "length", "head", "page"} /\ stable \in BOOLEAN
    /\ pullAt \in {"head", "page"} => length > 0
PulledInv ==
    /\ pullAt \in {"head", "page"} /\ stable => length = Len(onChain)
    /\ pullAt = "page" /\ stable =>
          /\ Len(pulled) <= Len(onChain)
          /\ \A k \in 1..Len(pulled) : pulled[k] = onChain[k]
          /\ slice = 0 => pulled = <<>> /\ from = onChain[1]
          /\ slice = 1 => Len(pulled) > 0 /\ from = onChain[Len(pulled)]

TableIInv == OnChainInv /\ PullTypes /\ PulledInv

LEMMA InsertedIsTable ==
    ASSUME NEW s \in Seq(Nodes), Distinct(s), NEW e \in Nodes, e \notin Range(s),
           NEW i \in 1..Len(s) + 1
    PROVE  IsTable(InsertAt(s, i, e))
<1> DEFINE t == InsertAt(s, i, e)
           a == SubSeq(s, 1, i - 1)
           b == SubSeq(s, i, Len(s))
<1>1. /\ a \in Seq(Nodes) /\ Len(a) = i - 1 /\ \A k \in 1..i - 1 : a[k] = s[k]
      /\ b \in Seq(Nodes) /\ Len(b) = Len(s) - i + 1
      /\ \A k \in 1..Len(s) - i + 1 : b[k] = s[i + k - 1]
    OBVIOUS
<1>2. t = (a \o <<e>>) \o b
    BY DEF InsertAt
<1> HIDE DEF a, b
<1>3. t \in Seq(Nodes) /\ Len(t) = Len(s) + 1
  <2>1. a \o <<e>> \in Seq(Nodes) /\ Len(a \o <<e>>) = Len(a) + 1
      BY <1>1
  <2>2. t \in Seq(Nodes) /\ Len(t) = Len(a \o <<e>>) + Len(b)
    <3> HIDE DEF t
    <3> DEFINE x == a \o <<e>>
    <3>1. x \in Seq(Nodes) /\ b \in Seq(Nodes) /\ t = x \o b
        BY <2>1, <1>1, <1>2
    <3> HIDE DEF x
    <3>2. t \in Seq(Nodes) /\ Len(t) = Len(x) + Len(b)
        BY ONLY <3>1, ConcatProperties
    <3> QED
        BY <3>2 DEF x
  <2>3. Len(s) \in Nat /\ Len(a \o <<e>>) = i /\ Len(b) = Len(s) - i + 1
      BY <2>1, <1>1
  <2> HIDE DEF t
  <2> QED
      BY <2>2, <2>3
<1>4. \A k \in 1..Len(t) : t[k] = IF k < i THEN s[k] ELSE IF k = i THEN e ELSE s[k - 1]
    BY <1>1, <1>2, <1>3
<1> HIDE DEF t
<1>5. \A k \in 1..Len(s) : s[k] # e
    BY DEF Range
<1>6. Distinct(t)
  <2> SUFFICES ASSUME NEW j \in 1..Len(t), NEW k \in 1..Len(t), t[j] = t[k] PROVE j = k
      BY DEF Distinct
  <2> DEFINE place(m) == IF m < i THEN m ELSE m - 1
  <2>1. \A m \in 1..Len(t) : m # i => place(m) \in 1..Len(s) /\ t[m] = s[place(m)]
      BY <1>3, <1>4
  <2>2. t[i] = e
      BY <1>3, <1>4
  <2>3. CASE j = i \/ k = i
      BY <2>1, <2>2, <2>3, <1>5
  <2>4. CASE j # i /\ k # i
    <3>1. place(j) = place(k)
        BY <2>1, <2>4 DEF Distinct
    <3> QED
        BY <3>1, <2>4, <1>3
  <2> QED
      BY <2>3, <2>4
<1> QED
    BY <1>3, <1>6 DEF IsTable, t

LEMMA RemovedIs ==
    ASSUME NEW s \in Seq(Nodes), NEW i \in 1..Len(s)
    PROVE  /\ RemoveAt(s, i) \in Seq(Nodes) /\ Len(RemoveAt(s, i)) = Len(s) - 1
           /\ \A k \in 1..Len(s) - 1 : RemoveAt(s, i)[k] = s[IF k < i THEN k ELSE k + 1]
<1> DEFINE t == RemoveAt(s, i)
           a == SubSeq(s, 1, i - 1)
           b == SubSeq(s, i + 1, Len(s))
<1>1. /\ a \in Seq(Nodes) /\ Len(a) = i - 1 /\ \A k \in 1..i - 1 : a[k] = s[k]
      /\ b \in Seq(Nodes) /\ Len(b) = Len(s) - i
      /\ \A k \in 1..Len(s) - i : b[k] = s[i + k]
    OBVIOUS
<1>2. t = a \o b
    BY DEF RemoveAt
<1> HIDE DEF a, b
<1>3. t \in Seq(Nodes) /\ Len(t) = Len(s) - 1
    BY <1>1, <1>2
<1>4. \A k \in 1..Len(t) : t[k] = s[IF k < i THEN k ELSE k + 1]
  <2> TAKE k \in 1..Len(t)
  <2>1. CASE k < i
      BY <2>1, <1>1, <1>2, <1>3
  <2>2. CASE k >= i
    <3>1. t[k] = b[k - Len(a)] /\ k - Len(a) \in 1..Len(s) - i
        BY <2>2, <1>1, <1>2, <1>3
    <3>2. (IF k < i THEN k ELSE k + 1) = i + (k - Len(a))
        BY <2>2, <1>1, <1>3
    <3>3. b[k - Len(a)] = s[i + (k - Len(a))]
        BY <3>1, <1>1
    <3> QED
        BY <3>1, <3>2, <3>3
  <2> QED
      BY <2>1, <2>2, <1>3
<1> QED
    BY <1>3, <1>4 DEF t

LEMMA RemovedIsTable ==
    ASSUME NEW s \in Seq(Nodes), Distinct(s), NEW i \in 1..Len(s), Len(s) > 1
    PROVE  IsTable(RemoveAt(s, i))
<1> DEFINE t == RemoveAt(s, i)
           place(m) == IF m < i THEN m ELSE m + 1
<1>1. t \in Seq(Nodes) /\ Len(t) = Len(s) - 1 /\ \A k \in 1..Len(t) : t[k] = s[place(k)]
    BY RemovedIs
<1> HIDE DEF t
<1>2. \A k \in 1..Len(t) : place(k) \in 1..Len(s)
    BY <1>1
<1>3. \A j, k \in 1..Len(t) : place(j) = place(k) => j = k
    BY <1>1
<1>4. Distinct(t)
  <2> HIDE DEF place
  <2> QED
      BY <1>1, <1>2, <1>3 DEF Distinct
<1> QED
    BY <1>1, <1>4 DEF IsTable, t

(* Who is dialled is the last in the order: the others keep theirs.        *)
LEMMA MovedLast ==
    ASSUME NEW s \in Seq(Nodes), Distinct(s), NEW i \in 1..Len(s)
    PROVE  /\ Append(RemoveAt(s, i), s[i]) \in Seq(Nodes)
           /\ Distinct(Append(RemoveAt(s, i), s[i]))
           /\ Range(Append(RemoveAt(s, i), s[i])) = Range(s)
<1> DEFINE rest == RemoveAt(s, i)
           t == Append(rest, s[i])
           place(m) == IF m = Len(s) THEN i ELSE IF m < i THEN m ELSE m + 1
           back(m) == IF m = i THEN Len(s) ELSE IF m < i THEN m ELSE m - 1
<1>1. rest \in Seq(Nodes) /\ Len(rest) = Len(s) - 1
      /\ \A k \in 1..Len(s) - 1 : rest[k] = s[IF k < i THEN k ELSE k + 1]
    BY RemovedIs
<1> HIDE DEF rest
<1>2. Len(s) \in Nat \ {0} /\ s[i] \in Nodes
    OBVIOUS
<1>3. t \in Seq(Nodes) /\ Len(t) = Len(s) /\ t[Len(s)] = s[i]
      /\ \A k \in 1..Len(s) - 1 : t[k] = rest[k]
    BY <1>1, <1>2, AppendProperties
<1>4. \A k \in 1..Len(s) : t[k] = s[place(k)] /\ place(k) \in 1..Len(s)
    BY <1>1, <1>2, <1>3
<1> HIDE DEF t
<1>5. \A j, k \in 1..Len(s) : place(j) = place(k) => j = k
    BY <1>2
<1>6. \A k \in 1..Len(s) : back(k) \in 1..Len(s) /\ place(back(k)) = k
    BY <1>2
<1> HIDE DEF place, back
<1>7. Distinct(t)
  <2>1. \A j, k \in 1..Len(s) : s[place(j)] = s[place(k)] => place(j) = place(k)
      BY ONLY <1>4, Distinct(s) DEF Distinct
  <2>2. \A j, k \in 1..Len(s) : t[j] = t[k] => j = k
      BY ONLY <2>1, <1>4, <1>5
  <2> QED
      BY ONLY <2>2, <1>3 DEF Distinct
<1>8. Range(t) = Range(s)
  <2>1. \A k \in 1..Len(s) : t[back(k)] = s[k]
      BY <1>4, <1>6
  <2>2. DOMAIN s = 1..Len(s) /\ DOMAIN t = 1..Len(s)
      BY <1>3
  <2>3. \A k \in 1..Len(s) : t[k] \in Range(s)
      BY ONLY <2>2, <1>4 DEF Range
  <2>4. \A k \in 1..Len(s) : s[k] \in Range(t)
      BY ONLY <2>1, <2>2, <1>6 DEF Range
  <2> QED
      BY ONLY <2>2, <2>3, <2>4 DEF Range
<1> QED
    BY <1>3, <1>7, <1>8 DEF t, rest

(* The page that begins with the i-th node of a table.                     *)
LEMMA PageFrom ==
    ASSUME NEW i \in 1..Len(onChain), OnChainInv
    PROVE  \E e \in i..Len(onChain) :
               /\ e > i \/ e = Len(onChain)
               /\ Page(onChain[i]) = SubSeq(onChain, i, e)
<1> DEFINE Equal(j) == onChain[j] = onChain[i]
           p == CHOOSE j \in 1..Len(onChain) : Equal(j)
           e == IF i + TablePage - 1 < Len(onChain) THEN i + TablePage - 1 ELSE Len(onChain)
<1>1. p \in 1..Len(onChain) /\ Equal(p)
  <2>1. \E j \in 1..Len(onChain) : Equal(j)
      OBVIOUS
  <2> QED
      BY <2>1
<1>2. p = i
    BY <1>1 DEF OnChainInv, IsTable, Distinct
<1>3. Page(onChain[i]) = SubSeq(onChain, p, IF p + TablePage - 1 < Len(onChain)
                                            THEN p + TablePage - 1 ELSE Len(onChain))
    BY DEF Page
<1> HIDE DEF p
<1>4. Len(onChain) \in Nat /\ TablePage \in Nat /\ TablePage > 1
    BY TableAssumption DEF OnChainInv, IsTable
<1>5. e \in i..Len(onChain) /\ (e > i \/ e = Len(onChain))
    BY <1>4
<1> QED
    BY <1>2, <1>3, <1>5

LEMMA ReadPageKeepsPulled ==
    ASSUME TableIInv, ReadPage
    PROVE  PullTypes' /\ PulledInv'
<1> USE DEF ReadPage, peerVars
<1>1. IsTable(onChain) /\ Len(onChain) \in Nat \ {0} /\ onChain \in Seq(Nodes)
    BY EmptySeq DEF TableIInv, OnChainInv, IsTable
<1>2. PICK i \in 1..Len(onChain) : from = onChain[i]
    BY <1>1 DEF Range
<1>3. PICK e \in i..Len(onChain) : /\ e > i \/ e = Len(onChain)
                                   /\ Page(from) = SubSeq(onChain, i, e)
    BY <1>2, PageFrom DEF TableIInv
<1> DEFINE page == SubSeq(onChain, i, e)
<1>4. /\ page \in Seq(Nodes) /\ Len(page) = e - i + 1
      /\ \A k \in 1..Len(page) : page[k] = onChain[i + k - 1]
    BY <1>1
<1> HIDE DEF page
<1> DEFINE more == Sliced(page)
<1>5. slice \in {0, 1} /\ pulled \in Seq(Nodes)
    BY DEF TableIInv, PullTypes
<1>6. /\ more \in Seq(Nodes) /\ Len(more) = e - i + 1 - slice
      /\ \A k \in 1..Len(more) : more[k] = onChain[i + k + slice - 1]
  <2>1. more = SubSeq(page, slice + 1, Len(page))
      BY DEF Sliced
  <2>2. \A k \in slice + 1..Len(page) : page[k] \in Nodes
      BY <1>4, <1>5
  <2>3. /\ more \in Seq(Nodes)
        /\ Len(more) = IF slice + 1 <= Len(page) THEN Len(page) - (slice + 1) + 1 ELSE 0
        /\ \A k \in 1..Len(page) - (slice + 1) + 1 : more[k] = page[slice + 1 + k - 1]
      BY <2>1, <2>2, <1>4, <1>5, SubSeqProperties
  <2> HIDE DEF more
  <2>4. Len(page) = e - i + 1 /\ e - i + 1 \in Nat \ {0} /\ i \in Nat
      BY <1>4
  <2>5. Len(more) = e - i + 1 - slice /\ Len(page) - (slice + 1) + 1 = Len(more)
      BY ONLY <2>3, <2>4, <1>5
  <2>6. ASSUME NEW k \in 1..Len(more) PROVE more[k] = onChain[i + k + slice - 1]
    <3>1. slice + 1 + k - 1 \in 1..Len(page) /\ i + (slice + 1 + k - 1) - 1 = i + k + slice - 1
        BY ONLY <2>4, <2>5, <2>6, <1>5
    <3> QED
        BY <3>1, <2>3, <2>5, <1>4
  <2> QED
      BY ONLY <2>3, <2>5, <2>6
<1> HIDE DEF more
<1>7. pulled' = pulled \o more /\ from' = Last(page) /\ slice' = 1
    BY <1>3 DEF more, page
<1>8. /\ pulled' \in Seq(Nodes) /\ Len(pulled') = Len(pulled) + Len(more)
      /\ \A k \in 1..Len(pulled) + Len(more) :
            pulled'[k] = IF k <= Len(pulled) THEN pulled[k] ELSE more[k - Len(pulled)]
  <2>1. pulled \in Seq(Nodes) /\ more \in Seq(Nodes) /\ pulled' = pulled \o more
      BY <1>5, <1>6, <1>7
  <2> QED
      BY ONLY <2>1, ConcatProperties
<1>sizes. Len(pulled) \in Nat /\ i \in Nat \ {0} /\ e \in Nat \ {0} /\ e >= i /\ slice \in {0, 1}
    BY <1>5, <1>1
<1>9. from' = onChain[e]
  <2>1. Last(page) = page[Len(page)]
      BY DEF Last
  <2>2. Len(page) \in 1..Len(page) /\ i + Len(page) - 1 = e
      BY <1>4, <1>sizes
  <2>3. page[Len(page)] = onChain[i + Len(page) - 1]
      BY <1>4, <2>2
  <2> QED
      BY ONLY <2>1, <2>2, <2>3, <1>7
<1>10. ASSUME stable
       PROVE  /\ Len(pulled) = i - 1 + slice
              /\ \A k \in 1..Len(pulled) : pulled[k] = onChain[k]
  <2>1. /\ Len(pulled) <= Len(onChain)
        /\ \A k \in 1..Len(pulled) : pulled[k] = onChain[k]
        /\ slice = 0 => pulled = <<>> /\ from = onChain[1]
        /\ slice = 1 => Len(pulled) > 0 /\ from = onChain[Len(pulled)]
      BY <1>10 DEF TableIInv, PulledInv
  <2>2. slice = 0 => i = 1
      BY <2>1, <1>1, <1>2 DEF IsTable, Distinct
  <2>3. slice = 1 => i = Len(pulled)
      BY <2>1, <1>1, <1>2, <1>5 DEF IsTable, Distinct
  <2>4. Len(pulled) = i - 1 + slice
      BY <2>1, <2>2, <2>3, <1>sizes
  <2> QED
      BY <2>1, <2>4
<1>11. ASSUME stable
       PROVE  Len(pulled') = e /\ \A k \in 1..Len(pulled') : pulled'[k] = onChain[k]
  <2>0. Len(pulled) = i - 1 + slice /\ Len(more) = e - i + 1 - slice
      BY <1>10, <1>11, <1>6
  <2>1. Len(pulled') = e
      BY <2>0, <1>8, <1>sizes
  <2> SUFFICES ASSUME NEW k \in 1..e PROVE pulled'[k] = onChain[k]
      BY <2>1
  <2>2. CASE k <= Len(pulled)
      BY <2>0, <2>1, <2>2, <1>8, <1>10, <1>11, <1>sizes
  <2>3. CASE k > Len(pulled)
    <3>1. k - Len(pulled) \in 1..Len(more) /\ i + (k - Len(pulled)) + slice - 1 = k
        BY <2>0, <2>3, <1>sizes
    <3>2. pulled'[k] = more[k - Len(pulled)]
      <4>1. k \in 1..Len(pulled) + Len(more) /\ ~(k <= Len(pulled))
          BY <2>0, <2>3, <1>sizes
      <4> QED
          BY ONLY <4>1, <1>8
    <3>3. more[k - Len(pulled)] = onChain[i + (k - Len(pulled)) + slice - 1]
        BY <3>1, <1>6
    <3> QED
        BY <3>1, <3>2, <3>3
  <2>4. k <= Len(pulled) \/ k > Len(pulled)
      BY <1>sizes
  <2> QED
      BY <2>2, <2>3, <2>4
<1>12. PullTypes'
    BY <1>7, <1>8 DEF TableIInv, PullTypes
<1>13. PulledInv'
  <2>1. e \in 1..Len(onChain)
      OBVIOUS
  <2> SUFFICES ASSUME stable PROVE /\ length = Len(onChain) /\ Len(pulled') <= Len(onChain)
                                   /\ \A k \in 1..Len(pulled') : pulled'[k] = onChain[k]
                                   /\ Len(pulled') > 0 /\ from' = onChain[Len(pulled')]
      BY <1>7 DEF PulledInv
  <2>2. length = Len(onChain)
      BY DEF TableIInv, PulledInv
  <2> QED
      BY <2>1, <2>2, <1>9, <1>11, <1>1
<1> QED
    BY <1>12, <1>13

LEMMA TableInvStep ==
    ASSUME TableIInv, [TableNext]_tableVars
    PROVE  TableIInv'
<1> USE DEF TableIInv
<1>1. CASE TableChanges
  <2>1. onChain \in Seq(Nodes) /\ Distinct(onChain)
      BY DEF OnChainInv, IsTable
  <2>2. OnChainInv'
      BY <1>1, <2>1, InsertedIsTable, RemovedIsTable DEF TableChanges, OnChainInv
  <2> QED
      BY <1>1, <2>2 DEF TableChanges, PullTypes, PulledInv
<1>2. CASE CheckShardingTable \/ RemovePeerRecords
    BY <1>2 DEF CheckShardingTable, RemovePeerRecords, OnChainInv, PullTypes, PulledInv
<1>3. CASE ReadLength
  <2>1. Len(onChain) \in Nat \ {0}
      BY EmptySeq DEF OnChainInv, IsTable
  <2> QED
      BY <1>3, <2>1 DEF ReadLength, OnChainInv, PullTypes, PulledInv
<1>4. CASE ReadHead
  <2>1. Head(onChain) = onChain[1] /\ Len(onChain) \in Nat /\ Len(<<>>) = 0 /\ <<>> \in Seq(Nodes)
      BY DEF OnChainInv, IsTable
  <2> QED
      BY <1>4, <2>1 DEF ReadHead, OnChainInv, PullTypes, PulledInv
<1>5. CASE ReadPage
    BY <1>5, ReadPageKeepsPulled DEF ReadPage, OnChainInv
<1>6. CASE CreatePeerRecords
  <2>1. Range(pulled) \subseteq Nodes
      BY DEF PullTypes, Range
  <2> QED
      BY <1>6, <2>1, EmptySeq DEF CreatePeerRecords, PullForgotten, OnChainInv, PullTypes, PulledInv
<1>7. CASE PullFails
    BY <1>7, EmptySeq DEF PullFails, PullForgotten, OnChainInv, PullTypes, PulledInv
<1>8. CASE DialStep \/ TimePasses \/ \E p \in Nodes : PeerConnects(p)
  <2>1. UNCHANGED <<onChain, shard, pullVars>>
      BY <1>8 DEF DialStep, DialPeers, Dial, TimePasses, PeerConnects
  <2> QED
      BY <2>1 DEF OnChainInv, PullTypes, PulledInv, pullVars
<1>9. CASE UNCHANGED tableVars
    BY <1>9 DEF tableVars, OnChainInv, PullTypes, PulledInv, pullVars
<1> QED
    BY <1>1, <1>2, <1>3, <1>4, <1>5, <1>6, <1>7, <1>8, <1>9 DEF TableNext, TableStep

LEMMA TableInvInit == TableInit => TableIInv
<1> SUFFICES ASSUME TableInit PROVE TableIInv
    OBVIOUS
<1>1. PICK members \in (SUBSET Nodes) \ {{}} : onChain \in SetToSeqs(members)
    BY DEF TableInit
<1>2. Cardinality(members) \in Nat /\ Cardinality(members) # 0
  <2>1. IsFiniteSet(members)
      BY TableAssumption, FS_Subset DEF TableAssumption
  <2>2. members # {}
      OBVIOUS
  <2>3. Cardinality(members) # 0
      BY ONLY <2>1, <2>2, FS_EmptySet
  <2> QED
      BY <2>1, <2>3, FS_CardinalityType
<1>3. onChain \in [1..Cardinality(members) -> members]
      /\ \A i, j \in 1..Cardinality(members) : i # j => onChain[i] # onChain[j]
    BY <1>1 DEF SetToSeqs
<1>4. onChain \in Seq(Nodes) /\ Len(onChain) = Cardinality(members)
    BY <1>2, <1>3
<1>5. OnChainInv
    BY <1>2, <1>3, <1>4 DEF OnChainInv, IsTable, Distinct
<1> QED
    BY <1>5, EmptySeq DEF TableInit, TableIInv, PullTypes, PulledInv

(* The types of the table: a row is dialled in some order, each once.      *)
PeersInv ==
    /\ changes \in 0..MaxChanges /\ tableFaults \in 0..MaxTableFaults
    /\ from \in Nodes \cup {0} /\ length <= Cardinality(Nodes)
    /\ lastDialed \in Seq(Nodes) /\ Distinct(lastDialed) /\ Range(lastDialed) = shard
    /\ age \in [Nodes -> 0..2] /\ knownSeen \subseteq knownDialed /\ dialing \subseteq Nodes

LEMMA DistinctCount ==
    ASSUME NEW S, NEW s \in Seq(S), Distinct(s)
    PROVE  Cardinality(Range(s)) = Len(s) /\ Range(s) \subseteq S
<1>1. Len(s) \in Nat /\ DOMAIN s = 1..Len(s) /\ \A i \in 1..Len(s) : s[i] \in S
    OBVIOUS
<1>2. s \in [1..Len(s) -> Range(s)]
    BY <1>1 DEF Range
<1>3. s \in Bijection(1..Len(s), Range(s))
    BY <1>1, <1>2 DEF Range, Bijection, Injection, IsInjective, Surjection, Distinct
<1>4. ExistsBijection(1..Len(s), Range(s))
    BY <1>3 DEF ExistsBijection
<1> QED
    BY <1>1, <1>4, FS_CountingElements DEF Range

LEMMA TableLength ==
    ASSUME OnChainInv
    PROVE  /\ Len(onChain) = Cardinality(Range(onChain)) /\ Range(onChain) \subseteq Nodes
           /\ Len(onChain) <= Cardinality(Nodes)
<1>1. onChain \in Seq(Nodes) /\ Distinct(onChain)
    BY DEF OnChainInv, IsTable
<1>2. Cardinality(Range(onChain)) = Len(onChain) /\ Range(onChain) \subseteq Nodes
    BY <1>1, DistinctCount
<1> QED
    BY <1>2, TableAssumption, FS_Subset DEF TableAssumption

(* Any order of the new rows.                                              *)
LEMMA OrderedIs ==
    ASSUME NEW S \in SUBSET Nodes, NEW s \in SetToSeqs(S)
    PROVE  s \in Seq(Nodes) /\ Distinct(s) /\ Range(s) = S
<1>1. IsFiniteSet(S)
    BY TableAssumption, FS_Subset DEF TableAssumption
<1>2. Cardinality(S) \in Nat
    BY <1>1, FS_CardinalityType
<1>3. /\ s \in [1..Cardinality(S) -> S]
      /\ \A i, j \in 1..Cardinality(S) : i # j => s[i] # s[j]
    BY DEF SetToSeqs
<1>4. IsFiniteSet(1..Cardinality(S)) /\ Cardinality(1..Cardinality(S)) = Cardinality(S)
    BY <1>2, FS_Interval
<1>5. s \in Injection(1..Cardinality(S), S)
    BY <1>3 DEF Injection, IsInjective
<1>6. s \in Surjection(1..Cardinality(S), S)
    BY <1>1, <1>4, <1>5, FS_Injection
<1>7. s \in Seq(Nodes) /\ Len(s) = Cardinality(S) /\ DOMAIN s = 1..Cardinality(S)
    BY <1>2, <1>3
<1> QED
    BY <1>3, <1>6, <1>7 DEF Range, Surjection, Distinct

LEMMA DialledKeeps ==
    ASSUME PeersInv, NEW p \in Nodes, NEW seen \in BOOLEAN, UpdateLastDialed(p, seen)
    PROVE  /\ lastDialed' \in Seq(Nodes) /\ Distinct(lastDialed') /\ Range(lastDialed') = shard
           /\ age' \in [Nodes -> 0..2] /\ knownSeen' \subseteq knownDialed'
<1> DEFINE due == p \in shard /\ (p \notin knownDialed \/ (seen /\ p \notin knownSeen))
<1>1. CASE due
  <2>1. PICK i \in 1..Len(lastDialed) :
            lastDialed[i] = p /\ lastDialed' = Append(RemoveAt(lastDialed, i), p)
      BY <1>1 DEF UpdateLastDialed
  <2>2. /\ lastDialed' \in Seq(Nodes) /\ Distinct(lastDialed')
        /\ Range(lastDialed') = Range(lastDialed)
      BY <2>1, MovedLast DEF PeersInv
  <2> QED
      BY <1>1, <2>2 DEF UpdateLastDialed, PeersInv
<1>2. CASE ~due
    BY <1>2 DEF UpdateLastDialed, PeersInv
<1> QED
    BY <1>1, <1>2

LEMMA PeersKeep ==
    ASSUME TableIInv, PeersInv, [TableNext]_tableVars
    PROVE  PeersInv'
<1> USE DEF PeersInv
<1>0. OnChainInv /\ PullTypes
    BY DEF TableIInv
<1>1. CASE TableChanges
  <2>1. changes' \in 0..MaxChanges
      BY <1>1, TableAssumption DEF TableChanges
  <2> QED
      BY <1>1, <2>1 DEF TableChanges, peerVars
<1>2. CASE CheckShardingTable \/ RemovePeerRecords
    BY <1>2 DEF CheckShardingTable, RemovePeerRecords, peerVars
<1>3. CASE ReadLength
    BY <1>0, <1>3, TableLength DEF ReadLength, peerVars
<1>4. CASE ReadHead
  <2>1. Head(onChain) \in Nodes
      BY <1>0 DEF OnChainInv, IsTable
  <2> QED
      BY <1>4, <2>1 DEF ReadHead, peerVars
<1>5. CASE ReadPage
  <2>1. PICK i \in 1..Len(onChain) : from = onChain[i]
      BY <1>0, <1>5 DEF ReadPage, Range, OnChainInv, IsTable
  <2>2. PICK e \in i..Len(onChain) : Page(from) = SubSeq(onChain, i, e)
      BY <1>0, <2>1, PageFrom
  <2>3. onChain \in Seq(Nodes) /\ i \in Nat \ {0} /\ e >= i /\ e <= Len(onChain) /\ e \in Nat
      BY <1>0 DEF OnChainInv, IsTable
  <2>4. Len(Page(from)) = e - i + 1 /\ Page(from)[e - i + 1] = onChain[e] /\ onChain[e] \in Nodes
      BY <2>2, <2>3
  <2>5. from' \in Nodes
      BY <1>5, <2>4 DEF ReadPage, Last
  <2> QED
      BY <1>5, <2>5 DEF ReadPage, peerVars
<1>6. CASE CreatePeerRecords
  <2>1. shard' \subseteq Nodes /\ lastDialed' \in SetToSeqs(shard')
      BY <1>0, <1>6 DEF CreatePeerRecords, PullTypes, Range
  <2>2. lastDialed' \in Seq(Nodes) /\ Distinct(lastDialed') /\ Range(lastDialed') = shard'
      BY <2>1, OrderedIs
  <2>3. 0 <= Cardinality(Nodes)
      BY TableAssumption, FS_CardinalityType DEF TableAssumption
  <2> QED
      BY <1>6, <2>2, <2>3 DEF CreatePeerRecords, PullForgotten
<1>7. CASE PullFails
  <2>1. 0 <= Cardinality(Nodes)
      BY TableAssumption, FS_CardinalityType DEF TableAssumption
  <2>2. tableFaults' \in 0..MaxTableFaults
      BY <1>7, TableAssumption DEF PullFails, TableAssumption
  <2> QED
      BY <1>7, <2>1, <2>2 DEF PullFails, PullForgotten, peerVars
<1>8. CASE DialPeers
  <2>1. ToDial \subseteq Nodes
    <3>1. \A i \in 1..Len(lastDialed) : lastDialed[i] \in Nodes
        OBVIOUS
    <3> QED
        BY <3>1 DEF ToDial
  <2> QED
      BY <1>8, <2>1 DEF DialPeers, pullVars
<1>9. CASE \E p \in Nodes : Dial(p) \/ PeerConnects(p)
  <2>1. PICK p \in Nodes, seen \in BOOLEAN : UpdateLastDialed(p, seen)
      BY <1>9 DEF Dial, PeerConnects
  <2>2. /\ UNCHANGED <<changes, tableFaults, shard, from, length>> /\ dialing' \subseteq dialing
      BY <1>9 DEF Dial, PeerConnects, pullVars
  <2> QED
      BY <2>1, <2>2, DialledKeeps
<1>10. CASE TimePasses
    BY <1>10 DEF TimePasses, pullVars
<1>11. CASE UNCHANGED tableVars
    BY <1>11 DEF tableVars, pullVars, peerVars
<1> QED
    BY <1>1, <1>2, <1>3, <1>4, <1>5, <1>6, <1>7, <1>8, <1>9, <1>10, <1>11 DEF TableNext, TableStep, DialStep

LEMMA PeersBegin == TableInit => PeersInv
<1> SUFFICES ASSUME TableInit PROVE PeersInv
    OBVIOUS
<1>1. 0 <= Cardinality(Nodes)
    BY TableAssumption, FS_CardinalityType DEF TableAssumption
<1>2. <<>> \in Seq(Nodes) /\ Distinct(<<>>) /\ Range(<<>>) = {}
    BY DEF Distinct, Range
<1> QED
    BY <1>1, <1>2, TableAssumption DEF TableInit, PeersInv, TableAssumption

LEMMA TableTypesHold ==
    ASSUME TableIInv, PeersInv
    PROVE  TableTypeOK
<1>1. Cardinality(Nodes) \in Nat
    BY TableAssumption, FS_CardinalityType DEF TableAssumption
<1>2. length \in 0..Cardinality(Nodes)
    BY <1>1 DEF TableIInv, PullTypes, PeersInv
<1>3. Range(pulled) \subseteq Nodes
    BY DEF TableIInv, PullTypes, Range
<1> QED
    BY <1>2, <1>3, TableLength DEF TableIInv, PullTypes, PeersInv, TableTypeOK

(* The node's copy of the table, what a pull has of it and the times and    *)
(* the order its peers are dialled in keep their types: whoever is listed   *)
(* to be dialled has a row, once.                                           *)
THEOREM TableTypeCorrect == TableSpec => []TableTypeOK
<1>1. TableInit => TableIInv /\ PeersInv
    BY TableInvInit, PeersBegin
<1>2. TableIInv /\ PeersInv /\ [TableNext]_tableVars => (TableIInv /\ PeersInv)'
    BY TableInvStep, PeersKeep
<1>3. TableIInv /\ PeersInv => TableTypeOK
    BY TableTypesHold
<1> QED
    BY <1>1, <1>2, <1>3, PTL DEF TableSpec

(* Where rows are replaced, it is by the whole table or by some of it.       *)
LEMMA PullStep ==
    ASSUME TableIInv, [TableNext]_tableVars
    PROVE  /\ shard # {} => shard' # {}
           /\ shard' # shard /\ stable => shard' = Range(onChain)
<1>1. CASE CreatePeerRecords
  <2>1. shard' = Range(pulled) /\ pulled \in Seq(Nodes) /\ Len(pulled) >= length /\ length > 0
      BY <1>1 DEF CreatePeerRecords, PulledAll, TableIInv, PullTypes
  <2>2. Len(pulled) \in Nat \ {0}
      BY <2>1 DEF TableIInv, PullTypes
  <2>3. pulled[1] \in shard'
      BY <2>1, <2>2 DEF Range
  <2>4. ASSUME stable PROVE shard' = Range(onChain)
    <3>1. Len(pulled) = Len(onChain) /\ \A k \in 1..Len(pulled) : pulled[k] = onChain[k]
        BY <1>1, <2>1, <2>4 DEF CreatePeerRecords, TableIInv, PulledInv, PullTypes, OnChainInv, IsTable
    <3> QED
        BY <3>1, <2>1 DEF Range, TableIInv, OnChainInv, IsTable
  <2> QED
      BY <2>3, <2>4
<1>2. CASE ~CreatePeerRecords
  <2>1. shard' = shard
      BY <1>2 DEF TableNext, TableStep, TableChanges, CheckShardingTable, RemovePeerRecords, ReadLength,
         ReadHead, ReadPage, PullFails, DialStep, DialPeers, Dial, TimePasses, PeerConnects, tableVars
  <2> QED
      BY <2>1
<1> QED
    BY <1>1, <1>2

(* The rows of the sharding table are never gone once they are there, and a  *)
(* pull during which the contract did not change puts together its table,    *)
(* for every size of the pages, any number of nodes and of changes.          *)
THEOREM TableCorrect == TableSpec => TableKept
<1>1. TableIInv /\ [TableNext]_tableVars => TableIInv'
    BY TableInvStep
<1>2. TableIInv /\ [TableNext]_tableVars => [shard # {} => shard' # {}]_tableVars
    BY PullStep
<1>3. TableIInv /\ [TableNext]_tableVars
          => [shard' # shard /\ stable => shard' = Range(onChain)]_tableVars
    BY PullStep
<1> QED
    BY <1>1, <1>2, <1>3, TableInvInit, PTL DEF TableSpec, TableKept, NeverEmptied, PulledIsWhole

-----------------------------------------------------------------------------
(* All of them together: a step of one leaves the others as they were.      *)

ServicesIInv ==
    /\ ListenTypes /\ TableIInv /\ PeersInv /\ CleanIInv /\ MigIInv /\ UpdIInv /\ BootIInv
    /\ StartIInv /\ RelayIInv /\ CompanionIInv /\ SchemaIInv

LEMMA ServicesParts ==
    [ServicesNext]_allVars =>
        /\ [Next]_vars /\ [TableNext]_tableVars /\ [CleanNext]_cleanVars /\ [MigNext]_migVars
        /\ [UpdNext]_updVars /\ [BootNext]_bootVars /\ [StartNext]_startVars /\ [ChatNext]_chatVars
        /\ [CompanionNext]_companionVars /\ [DatabaseNext]_databaseVars
BY DEF ServicesNext, Keep, allVars

LEMMA ServicesStart == ServicesInit => ServicesIInv
BY ListenTypesInit, TableInvInit, PeersBegin, CleanInductive, MigInductive, UpdInductive, InitKeeps,
   StartBegins, RelayInductive, CompanionInductive, SchemaStarts
   DEF ServicesInit, ServicesIInv

LEMMA ServicesStep == ServicesIInv /\ [ServicesNext]_allVars => ServicesIInv'
<1> SUFFICES ASSUME ServicesIInv, [ServicesNext]_allVars PROVE ServicesIInv'
    OBVIOUS
<1> USE DEF ServicesIInv
<1>1. /\ [Next]_vars /\ [TableNext]_tableVars /\ [CleanNext]_cleanVars /\ [MigNext]_migVars
      /\ [UpdNext]_updVars /\ [BootNext]_bootVars /\ [StartNext]_startVars /\ [ChatNext]_chatVars
      /\ [CompanionNext]_companionVars /\ [DatabaseNext]_databaseVars
    BY ServicesParts
<1>2. ListenTypes' /\ TableIInv' /\ PeersInv'
    BY <1>1, ListenTypesStep, TableInvStep, PeersKeep
<1>3. CleanIInv' /\ MigIInv' /\ UpdIInv'
    BY <1>1, CleanInductive, MigInductive, UpdInductive
<1>4. BootIInv' /\ StartIInv' /\ SchemaIInv'
    BY <1>1, BootStays, StartStays, SchemaStep
<1>5. RelayIInv' /\ CompanionIInv'
    BY <1>1, RelayInductive, CompanionInductive
<1> QED
    BY <1>2, <1>3, <1>4, <1>5

(* The types of what runs beside the requests, each as its module has them, *)
(* also when the others go on beside it.                                    *)
THEOREM ServicesTypeCorrect == ServicesSpec => []ServicesTypeOK
<1>1. ASSUME ServicesIInv PROVE ServicesTypeOK
  <2> USE <1>1 DEF ServicesIInv
  <2>1. TypeOK /\ TableTypeOK /\ StartTypeOK /\ DatabaseTypeOK
      BY TableTypesHold, StartTypesHold, DatabaseTypes DEF ListenTypes, SchemaIInv
  <2>2. CleanTypeOK /\ MigTypeOK /\ UpdTypeOK /\ BootTypeOK /\ ChatTypeOK /\ CompanionTypeOK
      BY DEF CleanIInv, MigIInv, UpdIInv, BootIInv, RelayIInv, CompanionIInv
  <2> QED
      BY <2>1, <2>2 DEF ServicesTypeOK
<1> QED
    BY <1>1, ServicesStart, ServicesStep, PTL DEF ServicesSpec

(* What the migration of the data, a boot, the migrations of the database,  *)
(* the start of a node and the programs of the platform promise, they       *)
(* promise together.  What the database promises is of nodes none of whose  *)
(* reverts broke off, as those of add_indexes_to_tables always do.          *)
THEOREM ServicesCorrect ==
    ServicesSpec => [](MigInv /\ BootInv /\ StartInv /\ PlatformInv /\ DatabaseInv)
<1>1. ASSUME ServicesIInv PROVE MigInv /\ BootInv /\ StartInv /\ PlatformInv /\ DatabaseInv
  <2> USE <1>1 DEF ServicesIInv
  <2>1. BootInv /\ StartInv /\ DatabaseInv
      BY BootIsRight, StartIsRight, SchemaIsRight
  <2>2. MigInv /\ PlatformInv
      BY DEF MigIInv, MigInv, RelayIInv, RelayInv, CompanionIInv, PlatformInv
  <2> QED
      BY <2>1, <2>2
<1> QED
    BY <1>1, ServicesStart, ServicesStep, PTL DEF ServicesSpec

(* Beside everything else that a node does, its sharding table is never     *)
(* emptied or half filled, its cleaners delete only what was due, and its   *)
(* updates make the link only to newer code that went through all their     *)
(* steps and leave it away only when one fails between removing and making  *)
(* it.                                                                      *)
THEOREM ServicesKeepTheirWord == ServicesSpec => TableKept /\ RowsKept /\ UpdateKept
<1>1. ServicesIInv /\ [ServicesNext]_allVars =>
          /\ [shard # {} => shard' # {}]_tableVars
          /\ [shard' # shard /\ stable => shard' = Range(onChain)]_tableVars
    BY ServicesParts, PullStep DEF ServicesIInv
<1>2. ServicesIInv /\ [ServicesNext]_allVars =>
          [\A r \in table : r.id \notin Ids(table') => r.finished /\ r.at + CleanupDelay <= clock]_cleanVars
    BY ServicesParts, DueStep DEF ServicesIInv
<1>3. ServicesIInv /\ [ServicesNext]_allVars =>
          /\ [(link' # link /\ link' # 0) => directory[link'].state \in {"installed", "broken"}]_updVars
          /\ [(link' # link /\ link' # 0) => directory[link'].version > directory[runsFrom].version]_updVars
    BY ServicesParts, LinkedStep, NewerStep DEF ServicesIInv
<1>4. ServicesIInv => DeletedIsArchived /\ RunningVersionStays
    BY ArchivedStays, RunningStays DEF ServicesIInv
<1>5. ServicesInit => LinkMissing
    BY LinkStays DEF ServicesInit
<1>6. ServicesIInv /\ LinkMissing /\ [ServicesNext]_allVars => LinkMissing'
    BY ServicesParts, LinkStays DEF ServicesIInv
<1> QED
    BY <1>1, <1>2, <1>3, <1>4, <1>5, <1>6, ServicesStart, ServicesStep, PTL
       DEF ServicesSpec, TableKept, NeverEmptied, PulledIsWhole, RowsKept, DeletedWasDue, UpdateKept,
           LinkedWasInstalled, NeverOlder

(* With one chain the listener keeps the order of its events and loses none *)
(* but those of failed requests and of handlers that threw, beside          *)
(* everything else that the node does.                                      *)
THEOREM ServicesListen == ASSUME OneChain PROVE ServicesSpec => []ListenerInv /\ HandledInOrder
<1>1. ServicesInit => ListenerIInv
    BY ListenTypesInit, ListenerInit DEF ServicesInit, ListenerIInv
<1>2. ListenerIInv /\ [ServicesNext]_allVars => ListenerIInv'
    BY ServicesParts, ListenerStep
<1>3. ListenerIInv => ListenerInv
    BY ListenerIInvGivesInv
<1>4. ListenerIInv /\ [ServicesNext]_allVars =>
        [Changeless' => \A e \in handled' \ handled :
             InRange(e[1], 0, e[2]) \subseteq handled' \cup dropped']_vars
    BY ServicesParts, OrderStep
<1> QED
    BY <1>1, <1>2, <1>3, <1>4, PTL DEF ServicesSpec, HandledInOrder
=================================================================================
