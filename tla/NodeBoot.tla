------------------------------ MODULE NodeBoot ------------------------------
(***************************************************************************)
(* The first half of OTNode.start(): the migration of the user's           *)
(* configuration, then the modules, initialized concurrently               *)
(* (initializeModules): the repository with the migrations of its          *)
(* database, the blockchains, the blockchain events, the triple store.     *)
(*                                                                         *)
(* A required module that fails ends the process, and the others with it   *)
(* wherever they are: between two statements of a database migration, too, *)
(* which the database does not undo.  umzug runs the migrations and keeps  *)
(* their names; it and the database are modelled from how they are used.   *)
(***************************************************************************)
EXTENDS Sequences, FiniteSets, Integers

CONSTANTS
    Migrations,         \* the kinds of the migrations, in the order of their names
    BootChains,         \* the blockchains, in the order of the configuration
    Endpoints,          \* how many RPC endpoints each has
    Repositories,       \* of the triple store
    TripleStoreRetries, \* 10 in the code
    MaxBootFaults       \* bound: failures and deaths of the process

MigrationKinds == {"create", "alter", "indexes", "transaction"}

ASSUME BootAssumption ==
    /\ Migrations \in Seq(MigrationKinds) /\ IsFiniteSet(Repositories)
    /\ Endpoints \in Nat \ {0} /\ Len(BootChains) \in Nat \ {0}
    /\ TripleStoreRetries \in Nat \ {0} /\ MaxBootFaults \in Nat

BootModules == {"repository", "blockchain", "blockchainEvents", "tripleStore"}
(* Mutant: a list that leaves the blockchains out. *)
RequiredModules_Fewer == {"repository", "tripleStore"}

(* The list names the events' module "blockchainEventsService", which none is
   called: that module is not required. *)
RequiredModules == {"repository", "blockchain", "tripleStore"}

AllOf == DOMAIN Migrations

VARIABLES
    configFile,     \* "old", "dkg" (with the new repository) or "broken"
    marker,         \* the configuration's migration is marked as done
    recorded,       \* sequelize_meta: the migrations that were run
    applied,        \* by migration: its statements that are in the schema
    bootAt,         \* how far start() is; "off" when no process runs
    dkgKnown,       \* the configuration in memory has the new repository
    moduleAt,       \* by module: how far its initialization is
    handlers,       \* by module: the implementations that are in place
    todo, at,       \* umzug: the migrations left, the next statement
    committing,     \* migrations whose commit was not waited for
    tried, good,    \* by module: RPC endpoints tried, and those that answered
    retries, ready, \* by repository of the triple store
    repoAt, there,  \* how far its creation is; the store's repositories
    torn,           \* history: migrations an end or an error fell into
    bootFaults

disk == <<configFile, marker>>
schema == <<recorded, applied, torn>>
rpc == <<tried, good>>
store == <<retries, ready, repoAt, there>>
repo == <<todo, at, committing>>
bootVars == <<disk, schema, bootAt, dkgKnown, moduleAt, handlers, repo, rpc, store,
              bootFaults>>

BootFault == bootFaults < MaxBootFaults /\ bootFaults' = bootFaults + 1

(* The statements of a migration that is run.  createTable is IF NOT EXISTS,
   the trigger after it is not; columns are added, renamed or removed without a
   look; an index is added if it is not there; what happens in a transaction
   is there with its commit. *)
Statements(m) == 1..(CASE Migrations[m] \in {"create", "alter", "indexes"} -> 2
                       [] Migrations[m] = "transaction" -> 1)

Repeatable(m, s) == \/ Migrations[m] \in {"indexes", "transaction"}
                    \/ Migrations[m] = "create" /\ s = 1

BootInit ==
    /\ configFile \in {"old", "dkg"} /\ marker = FALSE
    /\ recorded \in {1..k : k \in 0..Len(Migrations)}
    /\ applied = [m \in AllOf |-> IF m \in recorded THEN Statements(m) ELSE {}]
    /\ bootAt = "off" /\ dkgKnown = FALSE
    /\ moduleAt = [m \in BootModules |-> "off"] /\ handlers = [m \in BootModules |-> 0]
    /\ todo = {} /\ at = 1 /\ committing = {}
    /\ tried = [m \in {"blockchain", "blockchainEvents"} |-> 0] /\ good = tried
    /\ retries = [r \in Repositories |-> 0] /\ ready = {}
    /\ repoAt = [r \in Repositories |-> "probe"] /\ there \in SUBSET Repositories
    /\ torn = {} /\ bootFaults = 0

-----------------------------------------------------------------------------
(* A new process reads the configuration; one that cannot be parsed ends it at
   once. *)
BootStarts ==
    /\ bootAt = "off" /\ configFile # "broken"
    /\ bootAt' = "config" /\ dkgKnown' = (configFile = "dkg")
    /\ UNCHANGED <<disk, schema, moduleAt, handlers, repo, rpc, store, bootFaults>>

(* The migrations are run in the order of their names and reverted from the
   last one. *)
NextPending == CHOOSE m \in todo : \A n \in todo : m <= n
LastRecorded == CHOOSE m \in recorded : \A n \in recorded : n <= m

(* The migration that is being run or reverted, if one is. *)
AtWork ==
    IF bootAt # "modules" THEN {}
    ELSE CASE moduleAt["repository"] = "up" /\ todo # {} -> {NextPending}
           [] moduleAt["repository"] \in {"down", "unrecord"} -> {LastRecorded}
           [] OTHER -> {}

Whole(m) == applied[m] = IF m \in recorded THEN Statements(m) ELSE {}

(* The memory of the process is gone and what it did not commit rolled back. *)
MemoryGone ==
    /\ bootAt' = "off" /\ dkgKnown' = FALSE
    /\ moduleAt' = [m \in BootModules |-> "off"] /\ handlers' = [m \in BootModules |-> 0]
    /\ todo' = {} /\ at' = 1 /\ committing' = {}
    /\ tried' = [m \in DOMAIN tried |-> 0] /\ good' = tried'
    /\ retries' = [r \in Repositories |-> 0] /\ ready' = {}
    /\ repoAt' = [r \in Repositories |-> "probe"] /\ UNCHANGED there

(* process.exit, an error that nothing catches, or a death. *)
ProcessEnds ==
    /\ MemoryGone
    /\ torn' = torn \cup {m \in AtWork \cup committing : ~Whole(m)}
    /\ UNCHANGED <<marker, recorded, applied>>

Dies ==
    /\ bootAt # "off" /\ BootFault /\ ProcessEnds
    /\ configFile' \in {configFile} \cup (IF bootAt = "write" THEN {"broken"} ELSE {})

-----------------------------------------------------------------------------
(* MigrationExecutor.executeTripleStoreUserConfigurationMigration: an error is
   logged and the node goes on; the next start tries again. *)

ReadUserConfiguration ==
    /\ bootAt = "config"
    /\ \/ /\ bootAt' = (IF marker THEN "modules" ELSE "write")
          /\ UNCHANGED bootFaults
       \/ ~marker /\ BootFault /\ bootAt' = "modules"
    /\ UNCHANGED <<disk, schema, dkgKnown, moduleAt, handlers, repo, rpc, store>>

(* The file gets the new repository; the configuration in memory does not. *)
WriteUserConfiguration ==
    /\ bootAt = "write"
    /\ \/ configFile' = "dkg" /\ bootAt' = "mark" /\ UNCHANGED bootFaults
       \/ BootFault /\ configFile' \in {configFile, "broken"} /\ bootAt' = "modules"
    /\ UNCHANGED <<marker, schema, dkgKnown, moduleAt, handlers, repo, rpc, store>>

MarkMigrated ==
    /\ bootAt = "mark"
    /\ \/ marker' = TRUE /\ UNCHANGED bootFaults
       \/ BootFault /\ UNCHANGED marker
    /\ bootAt' = "modules"
    /\ UNCHANGED <<configFile, schema, dkgKnown, moduleAt, handlers, repo, rpc, store>>

-----------------------------------------------------------------------------
(* initializeModules *)

Valid(m) == m = "tripleStore" => dkgKnown

FirstStep == [repository |-> "database", blockchain |-> "rpc", blockchainEvents |-> "rpc",
              tripleStore |-> "connect"]

ModuleGoes(m, step) == moduleAt' = [moduleAt EXCEPT ![m] = step]
IsAt(m, step) == bootAt = "modules" /\ moduleAt[m] = step

(* All managers validate their part before any of them waits. *)
InitializeModules ==
    /\ bootAt = "modules" /\ \A m \in BootModules : moduleAt[m] = "off"
    /\ UNCHANGED <<configFile, bootFaults>>
    /\ IF \A m \in RequiredModules : Valid(m)
       THEN /\ moduleAt' = [m \in BootModules |-> IF Valid(m) THEN FirstStep[m] ELSE "failed"]
            /\ UNCHANGED <<marker, schema, bootAt, dkgKnown, handlers, repo, rpc, store>>
       ELSE ProcessEnds

(* An error of an optional module is logged, and the node does without what is
   missing of it. *)
ModuleFails(m) ==
    IF m \in RequiredModules THEN ProcessEnds
    ELSE /\ ModuleGoes(m, "failed")
         /\ UNCHANGED <<marker, schema, bootAt, dkgKnown, handlers, repo, rpc, store>>

ModulesDone ==
    /\ bootAt = "modules"
    /\ \A m \in BootModules : moduleAt[m] \in {"done", "failed"}
    /\ bootAt' = "booted"
    /\ UNCHANGED <<disk, schema, dkgKnown, moduleAt, handlers, repo, rpc, store, bootFaults>>

-----------------------------------------------------------------------------
(* SequelizeRepository.initialize *)

CreateDatabase ==
    /\ IsAt("repository", "database")
    /\ ModuleGoes("repository", "pending")
    /\ UNCHANGED <<disk, schema, bootAt, dkgKnown, handlers, repo, rpc, store, bootFaults>>

(* migrator.up(): the list is made once. *)
ReadPending ==
    /\ IsAt("repository", "pending")
    /\ todo' = AllOf \ recorded /\ at' = 1
    /\ ModuleGoes("repository", "up")
    /\ UNCHANGED <<disk, schema, bootAt, dkgKnown, handlers, committing, rpc, store, bootFaults>>

Running == IsAt("repository", "up") /\ todo # {}

(* Whether the next statement of the migration passes on the schema as it is. *)
Passes == Repeatable(NextPending, at) \/ at \notin applied[NextPending]

Statement ==
    /\ Running /\ at \in Statements(NextPending) /\ Passes
    /\ LET m == NextPending IN
       IF Migrations[m] = "transaction"
       THEN committing' = committing \cup {m} /\ UNCHANGED applied
       ELSE applied' = [applied EXCEPT ![m] = @ \cup {at}] /\ UNCHANGED committing
    /\ at' = at + 1
    /\ UNCHANGED <<disk, recorded, torn, bootAt, dkgKnown, moduleAt, handlers, todo, rpc, store,
                   bootFaults>>

CommitTransaction(m) ==
    /\ bootAt # "off" /\ m \in committing
    /\ committing' = committing \ {m} /\ applied' = [applied EXCEPT ![m] = Statements(m)]
    /\ UNCHANGED <<disk, recorded, torn, bootAt, dkgKnown, moduleAt, handlers, todo, at, rpc,
                   store, bootFaults>>

Record ==
    /\ Running /\ at \notin Statements(NextPending)
    /\ recorded' = recorded \cup {NextPending}
    /\ todo' = todo \ {NextPending} /\ at' = 1
    /\ UNCHANGED <<disk, applied, torn, bootAt, dkgKnown, moduleAt, handlers, committing, rpc,
                   store, bootFaults>>

(* runMigrations, when up() throws: a statement that cannot be made twice, or
   an error of the database.  What was recorded last is reverted, whichever
   migration failed; with nothing recorded down() has nothing to do. *)
UpFails ==
    /\ bootAt = "modules" /\ moduleAt["repository"] \in {"pending", "up"}
    /\ \/ /\ Running /\ at \in Statements(NextPending) /\ ~Passes
          /\ UNCHANGED bootFaults
       \/ BootFault
    /\ IF recorded = {} THEN ProcessEnds
       ELSE /\ ModuleGoes("repository", "down") /\ at' = 1
            /\ torn' = torn \cup {m \in AtWork : ~Whole(m) \/ m \in committing}
            /\ UNCHANGED <<marker, recorded, applied, bootAt, dkgKnown, handlers, todo,
                           committing, rpc, store>>
    /\ UNCHANGED configFile

(* down(): a table is dropped with its rows and triggers; of the others each
   statement is undone, and one that is not there is an error.  The commit is
   not waited for here either, and the process is about to end. *)
Undo ==
    /\ IsAt("repository", "down")
    /\ LET m == LastRecorded IN
       \/ /\ Migrations[m] = "create" /\ applied' = [applied EXCEPT ![m] = {}]
          /\ ModuleGoes("repository", "unrecord") /\ UNCHANGED <<at, torn>>
       \/ /\ Migrations[m] = "transaction" /\ ModuleGoes("repository", "unrecord")
          /\ \/ /\ m \notin committing
                /\ applied' = [applied EXCEPT ![m] = {}] /\ UNCHANGED torn
             \/ torn' = torn \cup {m} /\ UNCHANGED applied
          /\ UNCHANGED at
       \/ /\ Migrations[m] \in {"alter", "indexes"} /\ at \in applied[m]
          /\ applied' = [applied EXCEPT ![m] = @ \ {at}] /\ at' = at + 1
          /\ ModuleGoes("repository", IF at' \in Statements(m) THEN "down" ELSE "unrecord")
          /\ UNCHANGED torn
    /\ UNCHANGED <<disk, recorded, bootAt, dkgKnown, handlers, todo, committing, rpc, store,
                   bootFaults>>

(* The error of up() is thrown once down() is through; one of down() at once. *)
DownEnds ==
    /\ bootAt = "modules"
    /\ \/ /\ moduleAt["repository"] = "unrecord"
          /\ MemoryGone
          /\ recorded' = recorded \ {LastRecorded}
          /\ torn' = torn \cup {m \in committing : ~Whole(m)}
          /\ UNCHANGED <<marker, applied, bootFaults>>
       \/ /\ moduleAt["repository"] = "down"
          /\ Migrations[LastRecorded] \in {"alter", "indexes"} /\ at \notin applied[LastRecorded]
          /\ ProcessEnds /\ UNCHANGED bootFaults
       \/ moduleAt["repository"] \in {"down", "unrecord"} /\ BootFault /\ ProcessEnds
    /\ UNCHANGED configFile

LoadModels ==
    /\ IsAt("repository", "up") /\ todo = {}
    /\ ModuleGoes("repository", "done") /\ handlers' = [handlers EXCEPT !["repository"] = 1]
    /\ UNCHANGED <<disk, schema, bootAt, dkgKnown, repo, rpc, store, bootFaults>>

DatabaseFails ==
    /\ IsAt("repository", "database") /\ BootFault
    /\ ModuleFails("repository") /\ UNCHANGED configFile

-----------------------------------------------------------------------------
(* Web3Service.initialize, one implementation after the other, and
   OtEthers.initialize, the providers of all blockchains before the contracts. *)

TryEndpoint(m) ==
    /\ IsAt(m, "rpc") /\ tried[m] < Endpoints
    /\ tried' = [tried EXCEPT ![m] = @ + 1]
    /\ \/ good' = [good EXCEPT ![m] = @ + 1] /\ UNCHANGED bootFaults
       \/ BootFault /\ UNCHANGED good
    /\ IF tried'[m] = Endpoints /\ good'[m] > 0 THEN ModuleGoes(m, "contracts")
       ELSE UNCHANGED moduleAt
    /\ UNCHANGED <<disk, schema, bootAt, dkgKnown, handlers, repo, store>>

(* No endpoint answered, or a contract could not be read. *)
ChainFails(m) ==
    /\ \/ IsAt(m, "rpc") /\ tried[m] = Endpoints /\ UNCHANGED bootFaults
       \/ IsAt(m, "contracts") /\ BootFault
    /\ ModuleFails(m) /\ UNCHANGED configFile

ContractsRead(m) ==
    /\ IsAt(m, "contracts")
    /\ handlers' = [handlers EXCEPT ![m] = @ + 1]
    /\ IF m = "blockchain" /\ handlers'[m] < Len(BootChains)
       THEN /\ ModuleGoes(m, "rpc")
            /\ tried' = [tried EXCEPT ![m] = 0] /\ good' = [good EXCEPT ![m] = 0]
       ELSE ModuleGoes(m, "done") /\ UNCHANGED rpc
    /\ UNCHANGED <<disk, schema, bootAt, dkgKnown, repo, store, bootFaults>>

-----------------------------------------------------------------------------
(* OtTripleStore.ensureConnections, for all repositories at once: the process
   ends when the last retry was made, whether it found the store or not. *)
CheckHealth(r) ==
    /\ IsAt("tripleStore", "connect") /\ r \notin ready
    /\ \E healthy \in BOOLEAN :
         /\ IF healthy THEN UNCHANGED bootFaults ELSE BootFault
         /\ IF retries[r] = TripleStoreRetries THEN ProcessEnds
            ELSE /\ IF healthy THEN ready' = ready \cup {r} /\ UNCHANGED retries
                    ELSE retries' = [retries EXCEPT ![r] = @ + 1] /\ UNCHANGED ready
                 /\ UNCHANGED <<repoAt, there, marker, schema, bootAt, dkgKnown, moduleAt, handlers, repo, rpc>>
    /\ UNCHANGED configFile

Connected ==
    /\ IsAt("tripleStore", "connect") /\ ready = Repositories
    /\ ModuleGoes("tripleStore", "create")
    /\ UNCHANGED <<disk, schema, bootAt, dkgKnown, handlers, repo, rpc, store, bootFaults>>

(* createRepository, as the stores have it.  An error of the question whether
   the repository is there is a no (Blazegraph) or ends the process; an error of
   the creation, with or without effect, ends it or is tried once more
   (GraphDB); a repository is not created twice.  Ends by a fault: see Dies. *)
RepositoryGoes(r, from, to) ==
    /\ IsAt("tripleStore", "create") /\ repoAt[r] \in from
    /\ repoAt' = [repoAt EXCEPT ![r] = to]
    /\ UNCHANGED <<disk, schema, bootAt, dkgKnown, moduleAt, handlers, repo, rpc, retries, ready>>

RepositoryExists(r) ==
    /\ \/ RepositoryGoes(r, {"probe"}, IF r \in there THEN "made" ELSE "absent")
          /\ UNCHANGED bootFaults
       \/ RepositoryGoes(r, {"probe"}, "absent") /\ BootFault
    /\ UNCHANGED there

CreateRepository(r) ==
    /\ RepositoryGoes(r, {"absent", "again"}, "made")
    /\ r \notin there /\ there' = there \cup {r}
    /\ UNCHANGED bootFaults

CreationFails(r) ==
    /\ RepositoryGoes(r, {"absent"}, "again")
    /\ BootFault /\ there' \in {there, there \cup {r}}

CreationEnds(r) ==
    /\ IsAt("tripleStore", "create")
    /\ repoAt[r] = "again" \/ (repoAt[r] = "absent" /\ r \in there)
    /\ ProcessEnds /\ UNCHANGED <<configFile, bootFaults>>

RepositoryStepOf(r) ==
    RepositoryExists(r) \/ CreateRepository(r) \/ CreationFails(r) \/ CreationEnds(r)

RepositoriesMade ==
    /\ IsAt("tripleStore", "create") /\ \A r \in Repositories : repoAt[r] = "made"
    /\ ModuleGoes("tripleStore", "done")
    /\ handlers' = [handlers EXCEPT !["tripleStore"] = 1]
    /\ UNCHANGED <<disk, schema, bootAt, dkgKnown, repo, rpc, store, bootFaults>>

-----------------------------------------------------------------------------
RpcStep(m) == TryEndpoint(m) \/ ChainFails(m) \/ ContractsRead(m)

RepositoryStep ==
    \/ CreateDatabase \/ ReadPending \/ Statement \/ Record \/ UpFails \/ Undo \/ DownEnds
    \/ LoadModels \/ DatabaseFails \/ \E m \in AllOf : CommitTransaction(m)

BootStep ==
    \/ ReadUserConfiguration \/ WriteUserConfiguration \/ MarkMigrated
    \/ InitializeModules \/ ModulesDone \/ RepositoryStep
    \/ \E m \in DOMAIN tried : RpcStep(m)
    \/ \E r \in Repositories : CheckHealth(r) \/ RepositoryStepOf(r)
    \/ Connected \/ RepositoriesMade

BootNext == BootStarts \/ Dies \/ BootStep

BootSpec == BootInit /\ [][BootNext]_bootVars /\ WF_bootVars(BootStep)

-----------------------------------------------------------------------------
BootTypeOK ==
    /\ configFile \in {"old", "dkg", "broken"} /\ marker \in BOOLEAN /\ dkgKnown \in BOOLEAN
    /\ recorded \subseteq AllOf /\ torn \subseteq AllOf /\ committing \subseteq AllOf
    /\ \A m \in AllOf : applied[m] \subseteq Statements(m)
    /\ bootAt \in {"off", "config", "write", "mark", "modules", "booted"}
    /\ handlers["blockchain"] \in 0..Len(BootChains)
    /\ todo \subseteq AllOf /\ at \in 1..3
    /\ \A m \in DOMAIN tried : tried[m] \in 0..Endpoints /\ good[m] \in 0..tried[m]
    /\ retries \in [Repositories -> 0..TripleStoreRetries] /\ ready \subseteq Repositories
    /\ repoAt \in [Repositories -> {"probe", "absent", "again", "made"}]
    /\ there \subseteq Repositories
    /\ bootFaults \in 0..MaxBootFaults

(* The names that umzug keeps tell what the schema is: a migration is recorded
   when all of it is there and not when none is, except one that an end or an
   error fell into, is at work or waits for its commit.  So none is run twice
   on a schema it does not fit, unless an end made it so. *)
RecordIsSchema == \A m \in AllOf \ (torn \cup AtWork \cup committing) : Whole(m)

(* Migrations are recorded in the order of their names, without a gap, however
   often boots failed and reverted one: none runs before one it builds on. *)
NoneSkipped == recorded = 1..Cardinality(recorded)

(* A node past its modules has the whole database, every blockchain and the
   triple store with its repositories; the required modules had no part that
   failed, while any of them was free to fail before or after the others were
   done. *)
BootedIsWhole ==
    bootAt = "booted" =>
        /\ recorded = AllOf /\ \A m \in AllOf \ (torn \cup committing) : Whole(m)
        /\ handlers["blockchain"] = Len(BootChains)
        /\ handlers["repository"] = 1 /\ handlers["tripleStore"] = 1
        /\ ready = Repositories /\ there = Repositories

(* A configuration that is marked as migrated has the new repository, and is
   not marked again: wherever the process died, no later start is refused. *)
MarkedIsMigrated == marker => configFile = "dkg"

(* A boot comes to an end. *)
BootEnds == (bootAt = "config") ~> (bootAt \in {"booted", "off"})

(* The four parts of what a boot leaves behind. *)
BootInv == RecordIsSchema /\ NoneSkipped /\ BootedIsWhole /\ MarkedIsMigrated
=============================================================================
