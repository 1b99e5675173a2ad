-------------------------- MODULE V8DataMigration --------------------------
(***************************************************************************)
(* The script that moves the assertions of a node from the repositories of *)
(* version 6 to the one of version 8 (v8-data-migration).                  *)
(*                                                                         *)
(* It downloads a database that lists the assets of every blockchain,      *)
(* inserts the listed assets in batches and marks their rows, then follows *)
(* the contract for newer assets, and at last marks the whole migration.   *)
(* What it has done is on disk: it may die anywhere and be run again.      *)
(* One run at a time; the assets of version 6 do not change meanwhile.     *)
(***************************************************************************)
EXTENDS Integers, FiniteSets

CONSTANTS
    MigChains,      \* enabled blockchains 1..MigChains, in the order of migration
    Listed,         \* tokens of a chain in the database that is downloaded
    Minted,         \* number of tokens a chain has: token ids are 1..Minted[c]
    Contents,       \* choices of what the repositories of version 6 hold
    BatchSize,      \* BATCH_SIZE (50 in constants.js)
    TripleStore,    \* the implementation that is enabled
    ConnectRetries, \* TRIPLE_STORE_CONNECT_MAX_RETRIES
    MaxMigFaults    \* bound: failures and deaths of the process

(* What version 6 holds of an asset: a public assertion, a public and a
   private one, none; one with characters that are illegal in an IRI; one whose
   private assertion id cannot be extracted from the public assertion. *)
MigKinds == {"public", "private", "absent", "illegal", "unreadable"}
ChainIds == 1..MigChains
TripleStores == {"ot-blazegraph", "ot-fuseki", "ot-graphdb"}

Tokens == UNION {{c} \X (1..Minted[c]) : c \in ChainIds}

ASSUME MigAssumption ==
    /\ MigChains \in Nat \ {0} /\ BatchSize \in Nat \ {0}
    /\ TripleStore \in TripleStores
    /\ ConnectRetries \in Nat \ {0} /\ MaxMigFaults \in Nat
    /\ Minted \in [ChainIds -> Nat \ {0}]
    /\ \A c \in ChainIds : Listed[c] \subseteq 1..Minted[c] /\ Listed[c] # {}
    /\ \A h \in Contents : h \in [Tokens -> MigKinds]

VARIABLES
    \* on disk, and in the triple store of version 8
    dbFile,         \* the database file
    progressFile,   \* v8DataMigration
    rowsTodo, rowsDone,     \* tokens with a row, by their column processed
    kaGraphs,       \* tokens whose named graphs exist
    holds,          \* what version 6 holds of each token
    \* in the memory of the process
    migAt,          \* where main is
    checks, connected,      \* health checks made; whether they have passed
    chainIndex,     \* the blockchain it is at
    batchIds, fetched, toCheck, processed,   \* of the batch: its tokens, those
                    \* fetched, those inserted, successfullyProcessed
    newTokenId,
    migFaults

migDisk == <<dbFile, progressFile, rowsTodo, rowsDone, kaGraphs, holds>>
migBatch == <<batchIds, fetched, toCheck, processed>>
migVars == <<migDisk, migAt, checks, connected, chainIndex, migBatch, newTokenId,
             migFaults>>

MigInit ==
    /\ holds \in Contents
    /\ dbFile = "none" /\ progressFile = "none"
    /\ rowsTodo = {} /\ rowsDone = {} /\ kaGraphs = {}
    /\ migAt = "stopped" /\ checks = 0 /\ connected = FALSE /\ chainIndex = 0
    /\ batchIds = {} /\ fetched = {} /\ toCheck = {} /\ processed = {}
    /\ newTokenId = 0 /\ migFaults = 0

MigFault == migFaults < MaxMigFaults /\ migFaults' = migFaults + 1
MigGoes(from, to) == migAt = from /\ migAt' = to

Of(c) == {t \in Tokens : t[1] = c}
TodoOf(c) == rowsTodo \cap Of(c)
HighestTokenId(c) ==
    CHOOSE n \in {t[2] : t \in (rowsTodo \cup rowsDone) \cap Of(c)} :
        \A t \in (rowsTodo \cup rowsDone) \cap Of(c) : t[2] <= n
NewToken == <<chainIndex, newTokenId>>

(* process.exit, an error that main does not catch, or a kill: memory is gone. *)
Exits ==
    /\ migAt' = "stopped" /\ checks' = 0 /\ connected' = FALSE /\ chainIndex' = 0
    /\ batchIds' = {} /\ fetched' = {} /\ toCheck' = {} /\ processed' = {}
    /\ newTokenId' = 0

-----------------------------------------------------------------------------
(* Startup: the progress file, the triple store, the database. *)

EnsureProgressFile ==
    /\ MigGoes("stopped", "connect")
    /\ progressFile # "MIGRATED"
    /\ progressFile' = "empty"
    /\ UNCHANGED <<dbFile, rowsTodo, rowsDone, kaGraphs, holds, checks, connected,
                   chainIndex, migBatch, newTokenId, migFaults>>

(* Any data is an answer of Blazegraph and Fuseki; GraphDB has to be green, or
   not to know the repository yet. *)
HealthCheck(response) ==
    IF TripleStore = "ot-graphdb" THEN response \in {"green", "404"}
    ELSE response \in {"data", "green"}

LastCheck == checks = ConnectRetries

(* A repository: the check is repeated until it passes or the retries are used
   up; the last retry ends the process whatever its check said.  The three
   repositories are one, they are in one triple store. *)
EnsureConnection ==
    /\ migAt = "connect" /\ ~connected
    /\ \E response \in {"data", "green", "404", "error"} :
        /\ IF HealthCheck(response) THEN UNCHANGED migFaults ELSE MigFault
        /\ IF LastCheck
             THEN Exits
             ELSE /\ checks' = checks + 1 /\ connected' = HealthCheck(response)
                  /\ UNCHANGED <<migAt, chainIndex, migBatch, newTokenId>>
    /\ UNCHANGED migDisk

(* fs.existsSync decides whether the database is downloaded. *)
Download ==
    /\ migAt = "connect" /\ connected
    /\ IF dbFile = "none"
         THEN migAt' = "download" /\ dbFile' = "partial"
         ELSE migAt' = "open" /\ UNCHANGED dbFile
    /\ UNCHANGED <<progressFile, rowsTodo, rowsDone, kaGraphs, holds, checks,
                   connected, chainIndex, migBatch, newTokenId, migFaults>>

DownloadFinishes ==
    /\ MigGoes("download", "open")
    /\ dbFile' = "whole"
    /\ rowsTodo' = UNION {{c} \X Listed[c] : c \in ChainIds}
    /\ UNCHANGED <<progressFile, rowsDone, kaGraphs, holds, checks, connected,
                   chainIndex, migBatch, newTokenId, migFaults>>

(* A file that is not whole has no table of the blockchain, or its queries fail:
   either way the process ends, and so will every later one. *)
OpenDatabase ==
    /\ migAt = "open"
    /\ IF dbFile = "whole"
         THEN /\ migAt' = "batch" /\ chainIndex' = 1
              /\ UNCHANGED <<checks, connected, migBatch, newTokenId>>
         ELSE Exits
    /\ UNCHANGED <<migDisk, migFaults>>

-----------------------------------------------------------------------------
(* A batch of listed tokens: fetch, insert, verify, mark. *)

(* The query has a LIMIT and no ORDER BY: any BatchSize rows. *)
GetBatchOfUnprocessedTokenIds(c) ==
    {b \in SUBSET TodoOf(c) :
        Cardinality(b) = IF Cardinality(TodoOf(c)) < BatchSize
                           THEN Cardinality(TodoOf(c)) ELSE BatchSize}

(* highestTokenId was read before the first batch; no batch changes it. *)
StartBatch ==
    /\ migAt = "batch"
    /\ batchIds' \in GetBatchOfUnprocessedTokenIds(chainIndex)
    /\ migAt' = IF batchIds' = {} THEN "rpc" ELSE "fetch"
    /\ newTokenId' = IF batchIds' = {} THEN HighestTokenId(chainIndex) + 1 ELSE 0
    /\ UNCHANGED <<migDisk, checks, connected, chainIndex, fetched, toCheck,
                   processed, migFaults>>

ExtractPrivateAssertionId(t) == holds[t] # "unreadable"

(* The tokens of s that success can be true of: it stays false when a query
   fails, and always when the private assertion id is not found. *)
Fetchable(s) == {t \in s : ExtractPrivateAssertionId(t)}

GetAssertionsInBatch ==
    /\ migAt = "fetch"
    /\ \E lost \in SUBSET Fetchable(batchIds) :
        /\ IF lost = {} THEN UNCHANGED migFaults ELSE MigFault
        /\ fetched' = Fetchable(batchIds) \ lost
        /\ migAt' = IF fetched' = {} THEN "batch" ELSE "insert"
    /\ UNCHANGED <<migDisk, checks, connected, chainIndex, batchIds, toCheck, processed,
                   newTokenId>>

HasSpecialCharactersInIRI(t) == holds[t] = "illegal"

(* Nothing is inserted for an asset that is absent or illegal; it is done. *)
Insertable(s) == {t \in s : holds[t] # "absent" /\ ~HasSpecialCharactersInIRI(t)}

(* The public, private and metadata graphs of all tokens of s in one query. *)
Landed(s) == kaGraphs \cup Insertable(s)

InsertAssertions ==
    /\ migAt = "insert"
    /\ toCheck' = Insertable(fetched)
    /\ processed' = fetched \ toCheck'
    /\ \/ kaGraphs' = Landed(fetched) /\ migAt' = "verify" /\ UNCHANGED migFaults
       \/ /\ MigFault /\ toCheck' # {} /\ migAt' = "batch"
          /\ kaGraphs' \in {kaGraphs, Landed(fetched)}
    /\ UNCHANGED <<dbFile, progressFile, rowsTodo, rowsDone, holds, checks,
                   connected, chainIndex, batchIds, fetched, newTokenId>>

(* What the ASK queries confirm; one that fails counts as "does not exist". *)
InsertConfirmed(s, unanswered) == (s \cap kaGraphs) \ unanswered

ProcessAndInsertAssertions ==
    /\ migAt = "verify"
    /\ \E unanswered \in SUBSET toCheck :
        /\ IF unanswered = {} THEN UNCHANGED migFaults ELSE MigFault
        /\ processed' = processed \cup InsertConfirmed(toCheck, unanswered)
        /\ migAt' = IF processed' = {} THEN "batch" ELSE "mark"
    /\ UNCHANGED <<migDisk, checks, connected, chainIndex, batchIds, fetched, toCheck,
                   newTokenId>>

MarkRows(s) == rowsTodo' = rowsTodo \ s /\ rowsDone' = rowsDone \cup s

(* Mutant: the whole batch is marked, not what was processed of it. *)
MarkRowsAsProcessed_Batch ==
    /\ MigGoes("mark", "batch")
    /\ MarkRows(batchIds)
    /\ UNCHANGED <<dbFile, progressFile, kaGraphs, holds, checks, connected, chainIndex,
                   migBatch, newTokenId, migFaults>>

MarkRowsAsProcessed ==
    /\ MigGoes("mark", "batch")
    /\ \/ MarkRows(processed) /\ UNCHANGED migFaults
       \/ MigFault /\ UNCHANGED <<rowsTodo, rowsDone>>
    /\ UNCHANGED <<dbFile, progressFile, kaGraphs, holds, checks, connected, chainIndex,
                   migBatch, newTokenId>>

-----------------------------------------------------------------------------
(* Newer tokens, one after the other, until the contract has none. *)

ConnectRpc ==
    /\ migAt = "rpc"
    /\ \/ migAt' = "newer"
          /\ UNCHANGED <<checks, connected, chainIndex, migBatch, newTokenId, migFaults>>
       \/ MigFault /\ Exits
    /\ UNCHANGED migDisk

(* getAssertionIds is empty; an error of the contract call ends the process. *)
NewerAssertionsEnd ==
    /\ migAt = "newer"
    /\ newTokenId > Minted[chainIndex]
    /\ IF chainIndex = MigChains
         THEN migAt' = "finish" /\ UNCHANGED chainIndex
         ELSE migAt' = "batch" /\ chainIndex' = chainIndex + 1
    /\ newTokenId' = 0
    /\ UNCHANGED <<migDisk, checks, connected, migBatch, migFaults>>

(* An assertion that cannot be fetched is fetched again, for ever if need be. *)
FetchNewer ==
    /\ migAt = "newer"
    /\ newTokenId <= Minted[chainIndex]
    /\ \/ Fetchable({NewToken}) # {} /\ migAt' = "insertNewer" /\ UNCHANGED migFaults
       \/ MigFault /\ UNCHANGED migAt
    /\ UNCHANGED <<migDisk, checks, connected, chainIndex, migBatch, newTokenId>>

(* An insert that fails is not caught: the process ends. *)
InsertNewer ==
    /\ migAt = "insertNewer"
    /\ \/ /\ kaGraphs' = Landed({NewToken})
          /\ migAt' = IF Insertable({NewToken}) = {} THEN "saveNewer" ELSE "verifyNewer"
          /\ UNCHANGED <<checks, connected, chainIndex, migBatch, newTokenId, migFaults>>
       \/ /\ MigFault /\ Insertable({NewToken}) # {} /\ Exits
          /\ kaGraphs' \in {kaGraphs, Landed({NewToken})}
    /\ UNCHANGED <<dbFile, progressFile, rowsTodo, rowsDone, holds>>

VerifyNewer ==
    /\ migAt = "verifyNewer"
    /\ \E unanswered \in SUBSET {NewToken} :
        /\ IF unanswered = {} THEN UNCHANGED migFaults ELSE MigFault
        /\ migAt' = IF InsertConfirmed({NewToken}, unanswered) = {}
                      THEN "newer" ELSE "saveNewer"
    /\ UNCHANGED <<migDisk, checks, connected, chainIndex, migBatch, newTokenId>>

(* INSERT OR IGNORE, with processed = 1. *)
InsertRow(t) == rowsDone' = IF t \in rowsTodo THEN rowsDone ELSE rowsDone \cup {t}

SaveNewer ==
    /\ MigGoes("saveNewer", "newer")
    /\ \/ /\ InsertRow(NewToken)
          /\ newTokenId' = newTokenId + 1 /\ UNCHANGED migFaults
       \/ MigFault /\ UNCHANGED <<rowsDone, newTokenId>>
    /\ UNCHANGED <<dbFile, progressFile, rowsTodo, kaGraphs, holds, checks, connected,
                   chainIndex, migBatch>>

MarkMigrationAsSuccessfull ==
    /\ migAt = "finish"
    /\ progressFile' = "MIGRATED"
    /\ Exits
    /\ UNCHANGED <<dbFile, rowsTodo, rowsDone, kaGraphs, holds, migFaults>>

(* The process dies; also a download, a query of the database or a call of the
   contract that fails, none of which is tried again. *)
MigrationDies ==
    /\ migAt # "stopped"
    /\ MigFault /\ Exits
    /\ UNCHANGED migDisk

MigStep ==
    \/ EnsureConnection \/ Download \/ DownloadFinishes \/ OpenDatabase
    \/ StartBatch \/ GetAssertionsInBatch \/ InsertAssertions
    \/ ProcessAndInsertAssertions \/ MarkRowsAsProcessed
    \/ ConnectRpc \/ NewerAssertionsEnd \/ FetchNewer \/ InsertNewer \/ VerifyNewer
    \/ SaveNewer \/ MarkMigrationAsSuccessfull

MigNext == EnsureProgressFile \/ MigStep \/ MigrationDies

MigSpec == MigInit /\ [][MigNext]_migVars /\ WF_migVars(MigStep)

-----------------------------------------------------------------------------
MigTypeOK ==
    /\ dbFile \in {"none", "partial", "whole"}
    /\ progressFile \in {"none", "empty", "MIGRATED"}
    /\ rowsTodo \subseteq Tokens /\ rowsDone \subseteq Tokens /\ kaGraphs \subseteq Tokens
    /\ holds \in [Tokens -> MigKinds]
    /\ migAt \in {"stopped", "connect", "download", "open", "batch", "fetch", "insert",
                  "verify", "mark", "rpc", "newer", "insertNewer", "verifyNewer", "saveNewer",
                  "finish"}
    /\ checks \in 0..ConnectRetries /\ connected \in BOOLEAN
    /\ chainIndex \in 0..MigChains /\ newTokenId \in Nat /\ migFaults \in 0..MaxMigFaults
    /\ batchIds \cup fetched \cup toCheck \cup processed \subseteq Tokens

(* A row that says "processed" is never looked at again.  Whatever failed or
   died, and however often the script ran, it says so only of an asset whose
   named graphs are in the new repository, or that had none to insert. *)
DoneIsStored == Insertable(rowsDone) \subseteq kaGraphs

(* Once the progress file says MIGRATED the script never does anything again.
   It says so only when every asset that the database lists, and every one that
   was minted after the newest of these, is done; one that the database leaves
   out in between is never looked at. *)
DueOf(c) == {n \in 1..Minted[c] : n \in Listed[c] \/ \A k \in Listed[c] : k < n}
Due == UNION {{c} \X DueOf(c) : c \in ChainIds}
MigratedIsComplete == progressFile = "MIGRATED" => Due \subseteq rowsDone

(* A run that has the database gets over a failed fetch, insert or check: if
   version 6 holds nothing unreadable, it ends with everything migrated unless
   the process dies. *)
MigrationEnds ==
    (migAt = "batch" /\ Fetchable(Tokens) = Tokens) ~> (migAt = "stopped")

(* What the progress of the migration says is true of the new repository. *)
MigInv == DoneIsStored /\ MigratedIsComplete
=============================================================================
