# Verification of the OT-node in this repository

The repository is a monorepo. Its one large program of its own is the OT-node
(`src/ot-node`), the node of a decentralised knowledge graph: it publishes
datasets to the nodes of a shard, answers queries about them, and follows the
events of the blockchains on which knowledge collections are minted. Its
logic is a set of *commands* that a *command executor* runs from a priority
queue, persists in a database, retries and replays, and that interleave at every
`await`. This directory holds TLA+ modules for the parts of the node that carry
that logic and for two smaller programs beside it, TLC configurations that
model-check them, and TLAPS proofs.

Contents: [inventory](#inventory) - [modules](#modules) - [runs](#runs-and-what-they-show) -
[findings](#findings) - [bounds](#bounds) - [fairness](#fairness) -
[proofs](#proofs) - [not modelled](#what-is-not-modelled) - [plan](#plan)

To check: `tlc -workers 2 -config MCCommandExecutor_safety.cfg MCCommandExecutor`,
and so on for each configuration; `tlapm CommandExecutorProofs.tla`, and so on for each
module whose name ends in `Proofs`, one after the other: a prover that shares its
processors may run out of the seconds a step has.

## Inventory

Paths are below `src/ot-node/src` unless they start with `src/`. `PROJECT.json`
has, for every component, its sources and how much of it is modelled, and under
`hazards` what is hard to test in it, at its line, with the properties that are
about it.

### What handles a request

**Command executor** (`commands/command-executor.js`, `command-repository.js`).
*State*: the `commands` table, the queue and timers in memory, what the boot
replay has read. *Operations*: `add` with the blocking check, `_execute` with its
outcomes, `_handleError` and `recover`, the replay, the cleaner. *Hard*: the
process may die between any two writes; the blocking check and the insertion are
two steps; children are inserted before their parent is completed; the database may
fail while a failure is handled. *Correct when*: no command runs before its predecessor
completed or after it completed itself, one listener runs per blockchain, and no single
failure makes disappear what was accepted.

**Publish and get** (`commands/protocols/common`, `service/operation-service.js`,
`service/publish-service.js`, `service/get-service.js`, the senders,
`commands/local-store`, `service/signature-service.js`). *State*: the nodes found,
the schedule-messages and request commands, the table of responses, the status of
the operation and of its id, the cached dataset, the files of signatures.
*Operations*: find the shard, schedule a batch, send, take an answer, record it
and count under a mutex, judge, the three writes of a verdict. *Hard*: requests
run in parallel and act on counts they read before an `await`; the writes of
verdicts interleave; a retry can repeat a response; a minimum belongs to the
command's singleton. *Correct when*: the client is told of the minimum replication
only when that many nodes signed, a publish fails only when it is hopeless, one
answer decides a get, no node is asked twice, a verdict is given and stays.

**Network sessions and receivers** (`modules/network`, `controllers/rpc`,
`commands/protocols/*/receiver`). *State*: streams and sessions of both sides, the
rate limiter, the handler commands with their retries. *Hard*: a later stream of
an operation takes the place of an earlier one; timeouts race answers; a handler
writes to a stream that is gone. *Correct when*: a request ends with one answer at
most, a positive one is true, and sessions are removed.

**Publish finalization and finality** (`commands/protocols/publish`,
`commands/protocols/finality`, `pending-storage-cleaner-command.js`). *State*: the
pending storage, the stored collections, the acknowledgements. *Hard*: events are
handled twice, the pending file may come late or be cleaned, exceptions use up the
retries that wait for it, the process dies between storing and acknowledging. *Correct when*: what is stored has the root of
the event, and who stored it acknowledges or the run is shown as failed.

**Triple store** (`service/triple-store-service.js`,
`modules/triple-store`). *State*: named graphs of a collection. *Hard*: several
inserts of one collection with retries and a rollback, and gets that read a graph
with each query. *Correct when*: a rollback removes nothing another insert stored
and a get returns the collection or nothing.

**Operation ids and cached data; HTTP API** (`service/operation-id-service.js`,
`commands/query`, `operation-id-cleaner-command.js`, `controllers/http-api`).
*State*: two rows of an operation, its data in memory and in a file, the
controller of a request beside the command it added. *Hard*: the cleaner removes
rows, memory and files one after the other; the command starts before its
controller is through; what a controller throws ends the process. *Correct when*:
a completed operation has its data, the rows agree, and what a client was given an
id for ends.

### What runs beside the requests

**Blockchain event listener** (`commands/blockchain-event-listener`,
`modules/blockchain-events`). *State*: per chain the last checked block and the
events; in memory the contract addresses, and fields of the handler object that
all chains share. *Hard*: two writes that a crash separates; memory that a rollback
does not undo; swallowed errors; commands of several chains on one object.
*Correct when*: no event is skipped or marked that was not handled, unless its handler threw,
they are handled in order, all are in the end, and the contracts listened to are the
registered ones.

**Sharding table** (`service/sharding-table-service.js`,
`commands/common/sharding-table-check-command.js`, `dial-peers-command.js`). *Hard*:
the contract's list changes between the calls of a pull; a pull interleaves with
the dialling. *Correct when*: the table is never seen empty, a pull is of whole
pages, every peer is dialled again.

**Cleaners and archive** (`commands/cleaners`). *Hard*: a file and a table that are
written one after the other. *Correct when*: what is deleted is in an archive and
was due.

**Boot and startup** (`src/ot-node/ot-node.js`, `migration`, `modules`,
`paranet-service.js`). *Hard*: the modules start concurrently and the first that
fails ends the process with database migrations between two statements; profiles
of the blockchains are made concurrently and a chain may be removed meanwhile.
*Correct when*: a migration that is recorded is in the schema, none is skipped, a node
that is up has its modules and, on each chain it kept, a profile of its own key.

**Database** (`modules/repository/implementation/sequelize`). *State*: the tables with
their columns, references and indexes; how many migrations are recorded. *Hard*: sixty
migrations written over two years, each on what the earlier ones left; the statements
of a migration take effect one by one, so that a boot may die between two, and the next
one repeats or reverts what is half done. *Correct when*: no statement of an upgrade is
refused, and what the models of the code name is there.

**Auto-updater** (`commands/common/otnode-update-command.js`,
`modules/auto-updater`). *Hard*: it dies anywhere between download and restart.
*Correct when*: the version that runs stays on disk while the link names it, the link is
made only to what went through all steps and is newer, and it is missing only where a
failure fell between its removal and its making.

**Data migration to version 8** (`src/ot-node/v8-data-migration`). *Hard*: it is run
again after it died anywhere. *Correct when*: what is marked as done is stored, and
the migration is marked at last only when it is complete.

### Programs beside the node

**Chat of the web portal** (`src/web-portal/backend/src/routes/discord.ts`,
`src/web-portal/src/components/ChatWindow`): requests that listen to one channel
with two timers each. *Correct when*: an answer follows its question and a window
that waits is listened for.

**Companion app** (`src/backend/companion_app`): a pipeline in two processes with
one database and one directory, whose files are named by the second. *Correct when*:
what is stored for a page is of that page, and the latest file stays the latest.

### Interactions

The controllers add the first command of an operation; the rest of it is a
sequence of commands the executor runs. `eventListenerCommand` is a permanent
command that adds one blocking `blockchainEventListenerCommand` per chain. The
handler of an event adds the commands of publish finalization, which read the
pending storage the receivers of a publish filled. Components share the
database, the files of the operation id cache and of the pending storage, and
fields of singletons (`service/dependency-injection.js:22` registers every command
handler and service as one). What a module takes from another one is stated where
it takes it: `NetworkOperation` takes from `NetworkSession` that a request has one
answer at most (`RequestAnswer`), `PublishFinalization` from
`BlockchainEventListener` that an event may be handled twice and from
`CommandExecutor` that root commands die with the process and children are
replayed, `KnowledgeStore` from `PublishFinalization` that a collection is inserted
more than once.

## Modules

| module | models |
|---|---|
| `CommandExecutor` | the executor, its table, crash and replay |
| `NetworkOperation` | what publish and get share: variables and actions that the next two extend |
| `PublishOperation`, `GetOperation` | a publish and a get on the node that received it |
| `OperationVerdict` | abstract: nodes are asked and answer, and at some moment one final verdict is given |
| `NetworkSession` | messages between two nodes: streams, sessions, and the commands that handle a request |
| `RequestAnswer` | abstract: a request ends with one answer at most, and a positive one is true |
| `PublishFinalization` | the event of a publish on all nodes of a shard, up to the acknowledgements |
| `KnowledgeStore` | inserts and gets of one collection, query by query |
| `OperationCache` | a query, its row, its data in memory and in a file, the cleaner, the polls |
| `OperationApi` | the controllers of the API next to the commands they add |
| `BlockchainEventListener` | the listener commands of all chains, their table, memory and chains |
| `ShardingTable` | the node's copy of a sharding table, and the dialling of its peers |
| `RecordCleaner` | the cleaner commands with their archive |
| `NodeBoot`, `NodeStartup` | the two halves of `OTNode.start()` |
| `DatabaseSchema` | the database as its migrations make it, from release to release |
| `AutoUpdate` | an update of the node |
| `V8DataMigration` | the migration script of version 8 |
| `ChatRelay`, `CompanionScrape`, `Platform` | the chat of the portal; the scraping of the companion app; both |
| `MCCommandExecutor`, `MCPublishOperation`, `MCGetOperation`, `MCBlockchainEventListener`, `MCNetworkSession` | instances for TLC |
| `MCNodeRequests`, `MCNodeServices` | instances for TLC of the modules of the two halves of the inventory |
| `CommandExecutorProofs`, `NetworkOperationProofs`, `PublishOperationProofs`, `GetOperationProofs`, `NodeRequestsProofs`, `BlockchainEventListenerProofs`, `DatabaseSchemaProofs`, `NodeServicesProofs` | theorems and proofs, see [proofs](#proofs) |

An action is a stretch of code between two awaits, or a call whose outcome is a
choice. Bounds on faults, restarts and similar counters are CONSTANTS named `Max...`.

**CommandExecutor.** A command is an id. `status`, `chain`, `parent`, `steps`,
`retries` are the columns of its row, `pc` says where the object in memory is. A
restart sets every `pc` to `"none"` and starts the replay. There are two kinds of
commands: those of operations, whose sequence is a number of steps left, and the
blocking listener of a blockchain. `CheckListener` and `InsertListener` are the two
halves of `add` for a blocking command, `Continue` inserts the child and `Complete`
writes `COMPLETED`. An exception (`Throw`) leads to `HandleError`, which retries or writes
`FAILED`, and to `Recover`, which writes `REPEATING`. One more exception in there
(`HandlingFails`) is swallowed: the command is `"lost"` with the row it has, until a restart
replays it. `producing` says the same of `eventListenerCommand`, which adds the listeners.

**NetworkOperation, PublishOperation, GetOperation.** The other nodes of the shard
are numbered in its order; a request is a node and the copy of the batch it belongs
to, since nodes can be scheduled twice. `place` is where a request command is;
`seen` is the answer it recorded with the counts it read under the mutex: all that
`processResponse` decides later uses these and not the table. `Fault` is an
exception anywhere in the processing of an answer; `LocalFault` one of the local
command. `OtherMinima` are the minima of other publishes, one of which may be in
the singleton's field when the size of the shard is checked. `signers` and
`publisherSigned` are the lines of the two files of signatures. `Undisturbed` names
what the code takes for granted and what some properties need: that nothing was
thrown (a retry after a response was recorded counts the node a second time) and,
for a publish, that the node is in the shard itself and that the publish is not of
version 0, which has no response of its own. The local command of a get may
find the assertion, miss it, or throw.

**NetworkSession** numbers requests by their streams. `senderSession` and `session`
are the maps of the network module of the two sides, `place` where the handling of a
request is, `answer` what was written to its stream, `got` what `sendMessage`
returned, `cut` the streams that were aborted. `HandleRequest`,
`CacheToFile`, `ValidateReceivedData`, `CacheDataset`, `SignMessage`, `GetAssertion`,
`SaveFinalityAck`, `SendResponse`, `RemoveSession`, `HandleError` are the awaits of
the receivers. Its abstract specification `RequestAnswer` is what
`NetworkOperation` assumes of a request.

**PublishFinalization** has runs, each one handling of the event by a node: read the
pending file with its retries, validate, store, find the publisher, schedule, send,
and at the publisher save the acknowledgement. `RunThrows` has the exceptions that reach the
executor: of the first command, which has retries (`ReadThrows`), of the later ones, which
have none and are recovered, and one while another is handled. Files age and are cleaned, a node may
die and loses its root commands while children are replayed. `ackRows` is the set of rows of
`finality_status`, keyed as the table is.

**KnowledgeStore** has the three graphs that an insert writes (public, private,
metadata), each query sent, landed or failed on its own, retries that await the
same promises again, and a rollback that drops graphs by the wrong name; gets read
a graph with each query and the metadata concurrently.

**OperationCache** follows a query with the row of its operation id, its entries in
memory and in a file with their times, the cleaner step by step, and polls that read
row, memory and file in three steps. **OperationApi** has a controller as the
sequence of its writes (`PublishController`, `GetController`, ...), the command it
added as another one (`Added`), and their writes in `IdWrites`, `RowWrites`,
`MemoryWrites`, `FileWrites`; `ResultV0` and `ResultV1` are what the result routes
answer.

**BlockchainEventListener.** A chain is the sequence of its monitored events, which
grows by `Emit`. `GetBlock`, `ReadLast`, `Fetch`, `Store`, `List` are the awaits of
`fetchAndHandleBlockchainEvents`; `Loop` is what runs without an await between two
handlers, and `Handled`, `Refetch`, `Inserted` are the awaits of the handlers;
`Commit` and `Mark` the two last writes; `HandlerFails` is the exception of any handler, which
`processEvent` swallows: the event is marked with the rest, and what a new contract emitted
is not stored (`Unstored`). `currentBlock`, `events` and `fresh` have no
chain as index: they are the fields of the one handler object. `rows` has the table's events by chain; `Emitted` is what a request returns, in the order `Rank` sorts the list by. `dropped` and
`refetched` are history variables. Two pieces of code have no definition because
they cannot have an effect, which the head of the module explains:
`invalidatedContracts`, asked for a lower-case address while it holds mixed-case
ones, and `removeContractEventsAfterBlock`, called with the address of the Hub.

**ShardingTable** has the contract's list, the pull in a transaction (length, first
node, pages, rows) and the dialling: `lastDialed` lists the nodes that have rows by the time they were
dialled at. **RecordCleaner** is the
base class of the cleaners with one table. **AutoUpdate** has the directories by
version, the link, the archive and the folder it is unpacked into, each with its state.
**V8DataMigration** numbers the tokens of a blockchain: `Listed` is what the downloaded database has of
them, which may leave gaps; `Due` is what is listed and what was minted after the last one listed. It has the progress file, the rows of every blockchain's list and the
graphs of the new repository, and is run again by `EnsureProgressFile` after it
stopped or died.

**NodeBoot**: `configFile` and `marker` are the files of the configuration migration,
`applied` the statements of each database migration that are in the schema,
`recorded` the migrations whose name umzug has;
`moduleAt` is how far each of the concurrently initialized modules is. `todo` is the set of migrations
`up` found pending, of which `NextPending` is the one it runs. A fault in a
statement makes `Undo` revert the newest recorded migration, as the code does, and an
end of the process leaves whatever was applied. **NodeStartup**: `keyFile` and the
contracts (`identityOf`, `nodeId`) outlive the process; `FirstIdentity` is the first that
`getIdentityId` finds of a wallet; paranets, then on every
blockchain the profile, found or created with its tries; `registered` are the
blockchains not removed.

**DatabaseSchema** has every migration as the list of its statements up and down, and of a
column its name, whether a row needs a value for it, and whether its type can be indexed.
`Takes` says which statement the database accepts, `Applied` what it leaves. A boot runs the
pending migrations statement by statement and records each; a statement that is refused or
fails makes it revert the newest recorded one, which may fail too (that of
`add_indexes_to_tables` always does, by `RemovedIndex`); between two starts the node may be updated to a
later release. Rows are left out.

**ChatRelay** numbers the messages of the channel; a request listens, and its timers
may run out as long as they are set. **CompanionScrape** has jobs in two processes; a
job keeps the event loop of its process from one await to the next.

**MCNodeRequests and MCNodeServices** extend the modules of one half of the inventory.
Their modules share no variable, so that no property relates two of them; a behaviour
is one of the component in `focus`, chosen initially, while the others keep their
initial state. That is as good as one configuration per module, and every
property is of the component it is about.

## Runs and what they show

| run | configuration | outcome |
|---|---|---|
| `executor_safety` | operations of a command and two children, one listener, two workers, two faults, a restart | `ParentFirst`, `CompletedIsOver`, `OneListener`, `NoSilentDrop` (no single exception loses a command) hold |
| `executor_live` | one worker, two faults, a restart, fairness | `SequenceGoesOn` (a child that was handed over is finalized, also over a restart), `ListenersKeepRunning` (while retries are left) hold, but for what the handling of an exception lost |
| `executor_recover` | the listener after its last retry | `AlwaysListening` is violated |
| `publish_member` | up to three other nodes, minimum three, node in or out of the shard, other operations with minimum 1 and 4, two exceptions | `MinAcksTold`, `MemberFailedIsHopeless`, `PublishInv`, `ImplementsVerdict`, `EventuallyDecided`, `MinAcksReported` hold |
| `publish_twice` | node outside the shard, no exception | `MinAcksDistinct` is violated |
| `get_all` | up to three other nodes, minimum one, in or out of the shard, busy nodes, one exception | `GetInv`, `ImplementsVerdict`, `GetDecided` hold |
| `get_member` | node in the shard that misses the assertion | `EventuallyDecided` is violated |
| `listener_chains` | two chains, no fault | `MarkedWasHandled` is violated |
| `listener_changed` | one chain, no fault, a change of the contract | `RefetchedWasHandled` is violated |
| `finality_unanswered` | one publish and one finality request | `FinalityIsAnswered` is violated |
| `node_requests` | sessions, finalization, triple store, cache, API | ten properties hold, below |
| `node_services` | listener, sharding table, cleaner, migration, update, boot, startup, database, chat, companion | twelve properties hold, below |

Some properties are conjunctions whose named parts each say one thing (the comment
of a part names the code it is about):

| property | parts |
|---|---|
| `PublishInv` | `AskedOnce`, `ReportAgrees`, `DatasetThere`, `NoLostResponse`, `SignaturesThere` |
| `GetInv` | `OneVerdictWriter`, `AskedOnce`, `ResultThere` |
| `GetDecided` | `OutsiderDecided`, `FoundIsReturned` |
| `SessionInv` | `NoStaleSession`, `HandledIsAnswered`, `SessionRemoved` |
| `FinalityInv` | `FinalityIsStored` (the publisher counts no more than stored), `EndsAsFailed` |
| `StoreInv` | `StoredStays`, `StoredIsPublic`, `ReadIsWhole` |
| `CacheInv` | `CompletedHasData`, `DataOutlivesRow` |
| `ApiInv` | `CompletedHasResult`, `RowsAgree`, `StoreIsThere`, `CommandHasInput` |
| `RequestsGoOn` | `EveryRequestReturns`, `EveryHandlerEnds`, `RunEnds`, `FilesGo`, `QueryEnds`, `AnsweredEnds` |
| `ListenerInv` | `MarkedWasHandled`, `NothingSkipped`, `AddressFollows` |
| `TableKept` | `NeverEmptied`, `PulledIsWhole` |
| `RowsKept` | `DeletedIsArchived`, `DeletedWasDue` |
| `MigInv` | `DoneIsStored`, `MigratedIsComplete` |
| `UpdateKept` | `RunningVersionStays`, `LinkMissing`, `LinkedWasInstalled`, `NeverOlder` |
| `BootInv` | `RecordIsSchema`, `NoneSkipped`, `BootedIsWhole`, `MarkedIsMigrated` |
| `StartInv` | `UpIsOurs`, `RemovedAreTheFailed`, `KeyOutlivesProfile`, `WalletsCounted`, `SyncedAsMember` |
| `PlatformInv` | `WaitingListens`, `HeardIsTaken`, `AnswersFollow`, `StoredIsOfPage`, `LatestStays`, `GraphNeedsSchema` |
| `DatabaseInv` | `StatementsFit`, `ModelsFit`, `IndexesFit` |
| `ServicesGoOn` | `EventuallyHandled`, `DialledAgain`, `CleanerEnds`, `MigrationEnds`, `BootEnds`, `StartReturns`, `ChatReturns` |

The other properties of `node_requests` are `ImplementsAnswer` (a refinement),
`CachedIsStored` (what is in pending storage when its event comes gets stored, also over one
failing query of the command that reads it) and
`VerdictStays`; of `node_services` `HandledInOrder`.

Two refinements are checked: `PublishOperation` and `GetOperation` implement
`OperationVerdict` (`ImplementsVerdict`: a node answers once and only if asked, and a
verdict that is given stays), and `NetworkSession` implements `RequestAnswer`
(`ImplementsAnswer`). The mappings are at the end of each module.

Every property of a passing run has a mutant in `PROJECT.json`: a definition of the
model changed the way a plausible bug would change the code, under which TLC finds
the property violated.

## Findings

1. *A blockchain is no longer listened to.* When a listener command has used up its
   retries `_handleError` writes `FAILED` before it awaits `recover()`, the
   producer adds a second instance in between, and `recover()` makes the first one
   `REPEATING`. From then on each is skipped because of the other, also after a
   restart (`executor_recover`).
2. *A publish from outside the shard reports its minimum with too few nodes.*
   `canScheduleBatch` is computed for batches of which the first has one response
   more, that of the node itself. Without it the end of a batch is seen after its
   first response, the next batch is scheduled twice, nodes are asked twice, and
   responses carry no node id (`publish_twice`). For the same reason such a publish
   can be failed while requests are outstanding.
3. *A get in the shard is never decided.* The node that misses the assertion locally
   is counted among the nodes found and records no response (`get_member`).
4. *Events of one chain are lost by another.* `dependentEvents` is a field of a
   singleton: a second chain's command replaces it while the first one is going
   through it (`listener_chains`). `currentBlock` is shared in the same way and is
   stored as the last checked block of the wrong chain.
5. *Events of a new contract are lost.* They are marked as processed without having been
   handled when the change is the last event, or when one sorts before the
   event that was taken already (`listener_changed`).
6. *A finality request is never answered.* The controller takes the first command of a
   sequence of two and adds it with an empty sequence, so that the command that sends
   the answer is not reached (`finality_unanswered`).

Seen while modelling, without a run of their own. The models have these as the code
does; properties are stated so that they say what is true.

- *Executor.* The catch of an exception that is raised while another one is handled only logs it:
  the command is gone until the next boot, and for good if it is a root command of an
  operation. For `eventListenerCommand` this means that no listener is added any more,
  for that of a chain that nobody listens to it.
- *Finalization.* The retries that wait for the dataset are also used up by exceptions of
  the queries around its reading, so that a node that has the dataset may not store it.
- *Publish and get.* A publish outside the shard never gets the publisher's
  signature, so that the result route answers 400 once `minAcksReached` is set. The
  check of the shard's size may use the minimum of another operation, but no verdict
  rests on it. A v0 publish in the shard has no local response and is never
  decided; it caches its pending dataset without the publisher's peer id. A request
  retried after its response was recorded counts its node twice. Commands that start
  an operation are not replayed after a restart.
- *Listener.* One that missed a change of contract (window, failed request) follows
  the old contract until the node restarts; after a rollback or a restart, events a
  replaced contract emitted before its replacement are not fetched. Where the handler of a
  change throws, the address has changed and the event is marked, and what the new contract
  emitted since then is never fetched.
- *Triple store.* The rollback of an insert drops graphs that do not exist; an insert
  that found the collection leaves the private part to an earlier call that may have
  failed. Metadata of a get is read with `"[object Object]"` as UAL and never found; a
  get begun before the collection is reported may have any part of it.
- *API.* `http-api-router` asks `mountedLatestRoutes` for `route.name`, which is
  undefined, so that only the first route is mounted under `/latest`. What a
  controller throws outside its `try` ends the process.
- *Boot.* A database migration that fails reverts the newest *recorded* one, which may
  drop a table with its rows; where a statement cannot be repeated every later boot
  fails and reverts another one. `transaction.commit()` is not awaited.
  The down of `20221206183634` changes `ask` twice. `REQUIRED_MODULES` says
  `blockchainEventsService`, the module is `blockchainEvents`. The start after the
  migration of the configuration is refused, since the configuration in memory lacks
  `dkg`; the next one passes. `ensureConnections` exits at the last retry even if it
  passed; a failed probe of an existing Blazegraph namespace makes the boot fail on
  the conflict.
- *Database.* A revert that broke off after its statement leaves the migration recorded
  whose effect is gone: every later boot comes up without, for instance,
  `publish.min_acks_reached` (`ModelsFit` speaks of nodes without such a revert). Every revert of
  `20241105160000-add-indexes-to-tables.js` is one: its down removes
  `publish_response_operation_id_index` (line 131), which up made as `operation_id_index`
  (line 43), so that twenty indexes are gone for good. The down of the predefined roles waits for
  none of its queries, of which MySQL refuses two. A
  migration whose statement cannot be repeated and that died after it makes every later
  boot fail and revert one more. `update_response` and `publish_paranet_response` still
  require a `keyword` that no model names; nothing writes them at this commit. The down
  of the paranet table drops `Paranet`. The associations of `role_ability` and `user`
  give their models columns that do not exist, but only `getTokenAbilities` reads these
  tables, with a query of its own that joins `user` and `role_ability` on `u.role_id = u.id`.
- *Startup.* `getIdentityId` uses what `find` returns as an index and drops the first
  wallets instead of the foreign ones. A valid configured paranet always ends the node:
  without a `publicCurrent` repository at `initializeParanetRepository`, with it in
  the callback of `startParanetSyncCommands`. `createParanetRecord` is not awaited.
  A paranet is kept of a blockchain that `createProfiles` removes afterwards.
- *Sharding table.* A node that leaves during a pull makes it loop until another
  joins.
- *Auto-updater.* A failure or death between removing and making the link (lines 70-72) leaves none:
  a node that goes on makes it with its next update, one that ended is not started again.
  A version whose `npm install` failed unnoticed is linked all the same, and does not start.
- *Chat.* The handler of a request is put on after the question was sent, so an
  immediate answer is missed.

## Bounds

- `executor_*`: in the safety run four ids, of which three may be of operations (`MaxOpRows`),
  allow a parent, its child and a child of a retried parent, or a whole sequence, next to a
  listener; three ids are enough for the liveness. Ids are reused once
  nothing names them, so executions are not short. Two faults reach "retry, then fail
  for good", "fail while another recovers" and "fail while a failure is handled"; one restart is enough for every state
  to be the one a crash meets. Ids are symmetric in the safety run.
- `publish_*`, `get_*`: batches of two and three others make a full and an incomplete
  batch; `publish_twice` needs four others to schedule a batch twice. Two
  exceptions for publish: the same response may fail, be retried and fail again, or
  two responses may. Copies of a batch are bounded by two: one more than
  correct. Another operation may have a lower minimum or a higher one.
- `listener_*`: two chains of two blocks suffice for the violation, three blocks for
  that of the change. In `node_services` four blocks of one chain with a window of
  two, one of them unconfirmed, so that a listener runs several times and the window
  is both kept and exceeded, and one fault.
- `node_requests`: two streams of any of five operations, one retry and one fault: a
  request can be replaced, time out or be retried. A shard of the publisher, which
  handles its event once, and another node, which may handle it twice (`MaxHandled`), with a
  dataset that may be the wrong one, and two faults: with a file that is missing first they use
  up the retries, or the second one breaks off the handling of the first. Two concurrent inserts of version 8 and one of version 6, or one of each and a get,
  with one failed query and two attempts. One query of which the cleaner may take
  the three parts at three times. Two operations of the API, of which the second is
  a local store: enough for one to end the process under the other.
- `node_services`: a table of three nodes in pages of two, so that a pull has a full
  and an incomplete page, with a node joining or leaving once. Three rows for a cleaner of
  batches of two. Two chains of four and two tokens with batches of two and
  tokens the list misses, each kind of content, and three faults. Three versions
  and two faults of an update. Three database migrations of which two are new, one
  repository, one RPC endpoint, two faults. Two blockchains with two and
  one wallets, a curated paranet and one of an unknown blockchain, three tries, two
  faults. A first installation of the release with 46 migrations or of the one
  with all 60, an update between them, and two failing statements or deaths: one for the upgrade and one for
  its revert. Two windows and four messages. Two pages, a request for one of them, two chunks
  and one second.

`CHECK_DEADLOCK FALSE` stands where the modelled system does come to rest: an
operation that is over, an executor whose bounds on faults and rows are used up. The
two `listener_*` runs check for deadlock.

## Fairness

Weak fairness of every step of a command states that database calls return, timers
fire and handlers end; requests get an answer, since `sendMessage` of the network
module makes a NACK of a timeout. Strong fairness of `Start` and `InsertListener`
in the executor: commands of equal priority leave the priority queue in the order
they entered, so that one that waits is taken although others are added, and a free
id comes up although the cleaner and others compete for it. Weak fairness of
`Step(c)` in the listener is what `ListenersKeepRunning` gives: as long as retries
are left and it is not lost the command of a chain runs again and again. In `MCNodeRequests` and
`MCNodeServices` the fairness of a component is that of its steps while it is in
focus: handlers, runs, cleaners, queries, controllers and commands; the pull, the
dialling, the passing of time; the steps of the migration, the boot, the startup and a
chat request. Requests of clients, new blocks, joining nodes, releases, faults,
crashes, restarts and starts of a process are never forced; the bot of the chat may
stay silent.

## Proofs

The modules below prove their theorems for every value of the constants that their
assumptions admit: bounds are natural numbers, sets that are counted are finite,
sizes of batches and pages are positive, and what a name stands for is as in the code. TLC
evaluates every assumption on the instances. What a run shows on its instance and a
theorem in general is the same definition.

| theorem | module | statement |
|---|---|---|
| `TypeCorrect`, `ParentFirstAlways`, `CompletedIsOverAlways`, `OneListenerAlways`, `NoSilentDropAlways` | `CommandExecutorProofs` | each property of `executor_safety`, the last an action property |
| `PublishTypeCorrect`, `ClientToldIsReplicated`, `FailsOnlyWhenHopeless`, `PublishCorrect` | `PublishOperationProofs` | `[]TypeOK`, `[]MinAcksTold`, `[]MemberFailedIsHopeless`, `[]PublishInv` |
| `PublishImplementsVerdict` | | `Spec => ImplementsVerdict` |
| `GetTypeCorrect`, `GetCorrect` | `GetOperationProofs` | `[]TypeOK`, `[]GetInv` |
| `GetImplementsVerdict` | | `Spec => ImplementsVerdict`, assuming `MinAck = 1` |
| `SessionCorrect`, `SessionImplementsAnswer` | `NodeRequestsProofs` | `[]SessionInv`, `ImplementsAnswer` |
| `FinalityCorrect`, `CacheCorrect` | | `[]FinalityInv`, `[]CacheInv` |
| `StoreTypeCorrect`, `StoredIsThere` | | `[]StoreTypeOK`, `[]StoreInv` |
| `ApiTypeCorrect`, `ApiCorrect`, `VerdictsStay` | | `[]ApiTypeOK`, `[]ApiInv`, `VerdictStays` |
| `RequestsTypeCorrect`, `RequestsCorrect`, `RequestsKeepTheirWord` | | all of these, of `RequestsSpec` |
| `ListenerTypeCorrect` | `BlockchainEventListenerProofs` | `[]TypeOK` |
| `ListenerCorrect`, `ListenerInOrder` | | `[]ListenerInv`, `HandledInOrder`, assuming one chain |
| `DatabaseTypeCorrect`, `DatabaseCorrect` | `DatabaseSchemaProofs` | `[]DatabaseTypeOK`, `[]DatabaseInv` |
| `BootTypeCorrect`, `BootCorrect` | `NodeServicesProofs` | `[]BootTypeOK`, `[]BootInv` |
| `StartTypeCorrect`, `StartCorrect` | | `[]StartTypeOK`, `[]StartInv` |
| `MigrationCorrect`, `UpdateCorrect`, `CleanerCorrect` | | `[]MigInv`, `UpdateKept`, `RowsKept` |
| `TableTypeCorrect`, `TableCorrect` | | `[]TableTypeOK`, `TableKept` |
| `PlatformCorrect` | | `[]PlatformInv` |
| `ServicesTypeCorrect`, `ServicesCorrect`, `ServicesKeepTheirWord`, `ServicesListen` | | all of these, of `ServicesSpec` |

`NetworkOperationProofs` has the lemmas that publish and get share.

Hardly any of the properties is inductive. What each proof adds to its property, and why:

- *Executor* (`IInv`). `OneListener` needs to know that the producer of a chain
  between its two steps found no other instance, that recovering commands are out of
  retries, and that the row of a failed one says so; `NoSilentDrop` that a command whose
  exception is handled has no final status yet, so that the row of a lost one is replayable; `ParentFirst` and
  `CompletedIsOver` need that what the replay has read is still pending.
- *Publish* (`IInv == TypeOK /\ PhaseInv /\ AnswerLeft /\ (Undisturbed => CalmInv)`).
  The counts that a response read under the mutex are of the past when they are judged.
  Whatever is thrown, this node takes its own steps in their order (`PhaseInv`) and an answer
  that counts has left its signature (`AnswerLeft`). As long as nothing is, `CalmInv`
  says that the counts number the responses, so that one of them is the last of its batch:
  it alone schedules the next one or gives the verdict, after every response before it.
- *Get* (`IInv`) is alike. The response that reached the minimum completes the get, the last of all
  fails it. A node that finds the assertion locally answers alone, so that its own response must be
  the minimum: `constants.js` sets it to one, and `GetImplementsVerdict` assumes it.
- *Sessions* (`SessionIInv`): which streams have a session and who is still to answer; the last two
  conjuncts only as long as no call has failed, as the properties themselves.
- *Finalization* (`FinIInv`): who acknowledged has stored, whatever its commands threw since. *Cache* (`CacheIInv`): a file is newer than
  its row and is deleted only when the row is due as well. *Triple store* (`StoreIInv`):
  which queries a call has sent; what it wrote or found is still there, since the graphs that a
  rollback drops do not exist.
- *API* (`ApiIInv`). A controller and its command are sequences of writes of which a suffix
  is left. What the suffixes are would be an induction over data; instead every one that occurs has
  a name, a lemma says what its head and its tail are, and `FineAt` says of each pair of a
  controller's and a command's place what is in the rows and in the two caches.
- *Listener* (`ListenerIInv`). Types hold for any chains. With one chain: an event that was stored
  was handled, was lost with a change of contract or a handler that threw (`dropped`), is fetched again, or is still before the
  loop (`HandlingInv`); the changes of contract up to the last checked block are stored or handled, in
  order, so that the address is that of the last one handled (`ChangesInv`); and as long as the node
  missed no change, what is not stored of the checked blocks is of a contract that it learns of before it
  gets there (`CoverInv`). With two chains all of it is false, since the handler object has one list
  for them (run `listener_chains`), hence `OneChain`.
- *Boot* (`BootIInv`): what is recorded and what is still to do are the first and the last
  migrations (`InOrder`, `WorkInv`), at most one of them half done. *Startup* (`StartIInv`): a key is made
  again only after an end of the process left none; who made a profile had saved its key, and
  until an attempt passes nobody has one; the list of wallets is whole until an identity is found in it.
- *Database*. For the types (`DatabaseIInv`): tables, columns, references and indexes fit together
  (`Intact`); every statement of the sixty migrations is well formed (`EveryMigrationGood`), and
  one that the database accepts keeps it intact (`AppliedIntact`). For `DatabaseInv`
  (`SchemaIInv`): statement `n` of migration `k` is at position `100 * k + n`, and `Here` is where
  the upgrade is. The tables `MadeAt`, `AddedAt`, `GoneAt`, `BaseOf` and the like say at which position
  a table, column or index comes or goes. Three layers hold, each under less disturbance than the last:
  `World`, whatever failed (tables have their base columns, no column of a table that is
  written asks for a value unless a model or a later migration knows it, indexes are on the right columns);
  `Facts(Here)`, unless a revert broke off (what was made before `Here` for good is there); and
  `Clean(Here)`, while nothing failed (also, nothing is there early). The weaker layers are needed because
  migrations repeat statements after a failure, so that what is there early cannot be
  excluded. Each migration is shown to fit its position once (`MigrationFine`), so that a
  statement that is run keeps the three (`WorldUp`, `FactsUp`, `CleanUp`) and one of a revert the
  first two (`WorldDown`, `SchemaReverts`), and the properties are
  read off at the last position (`SchemaFitsModels`, `SchemaFitsIndexes`) or at the next one (`StatementFits`).
- *Migration* (`MigIInv`): the rows have all that was listed and no gap among the newer ones, and a batch
  has only rows. *Update* (`UpdIInv`): a directory has at least the version it is named after, and
  what each stage has made; that the link is missing only after a failure is inductive as it stands. *Cleaners* (`CleanIInv`): a row keeps its time and the name of an archive spans those of
  its rows. *Sharding table* (`TableIInv`, `PeersInv`): what a pull has
  of an unchanged contract is its first nodes, up to the one with which the next page begins;
  the rows are in the order they were dialled in, each once. *Chat, companion* (`RelayIInv`, `CompanionIInv`): a request that listens heard
  nothing before its first response; chunks are written by the job that prepared them.

`RequestsIInv` and `ServicesIInv` are the conjunctions of these over the components of a
half of the inventory: a step of one leaves the others' variables as they were
(`PartSteps`, `ServicesParts`), so that what is proved of one component also holds of the node.

Only model-checked:

- liveness, which is out of the prover's reach as are the ENABLED conditions of fairness:
  `SequenceGoesOn`, `ListenersKeepRunning`, `EventuallyDecided`, `MinAcksReported`, `GetDecided`,
  `CachedIsStored`, `RequestsGoOn`, `ServicesGoOn`;
- the findings, whose runs give the counterexample.

## What is not modelled

In the modelled components: the content of messages, datasets, signatures and
paths; priorities of commands beyond their effect on fairness; deadlines and
transactional commands, which no command of the node uses; the choice of the nodes
of a shard; reorganisations of a chain deeper than the two blocks the listener stays
behind; locks of database rows; several events in one block (so not the one the new
contract emits in the block of its registration, which line 106 of `ot-ethers.js`
passes over); the validation of the migration script's arguments.

Parts of the node that have nothing to model at this commit, because they cannot run:

- the paranet sync command, since the start of its sync throws; the tables of synced
  and missed assets stay empty;
- the transaction queues of the blockchain module, which have no caller, and the cache
  of contract calls, whose keys are not the names that are looked up;
- the update protocol, which `NETWORK_PROTOCOLS` leaves out; the ask sender beyond its
  find-shard command, which throws; `find-curated-paranet-nodes`, named in comments only;
- telemetry: nothing calls `createEventRecord`, and `sendTelemetryData` takes other
  parameters than it is given and returns nothing.

Of the repository module the tables and migrations are `DatabaseSchema`; the content of
a table is a variable of the module that uses it, and the functions that read and write
one are part of the actions that call them.

Parts with no state or order of their own that a property could be about: logger,
cryptography and formatting, the stateless middlewares of the HTTP API (authentication,
rate limit, JSON schemas), installers and tools that run in sequence.

The rest of the monorepo: the trading back end is one trade after the other through a
third-party client; the Eliza starter imports a module that is not there;
`dkg-node` imports missing modules and its contract does not compile; of the AI
services one fails to load and the others are placeholders or stateless; the front
ends are screens; the companion app's endpoints for the latest graph read tables
nobody creates, and its scores of pages are arithmetic; the portal's other
routes are lists that never change or not mounted. `PROJECT.json` has each with its
sources.

## Plan

Done: every component that has a model is checked, and every safety property and action property
of a passing run is proved.

What is left, in this order:

1. The safety side of the liveness properties: that whoever waits in `RequestsGoOn` and
   `ServicesGoOn` has a step to take, by cases on where it is.
2. `ListenerInv` for several chains of which one at a time runs, the assumption under which
   the shared handler object is right.
