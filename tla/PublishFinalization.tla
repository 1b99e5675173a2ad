------------------------- MODULE PublishFinalization -------------------------
(***************************************************************************)
(* What the nodes of a shard do with the event of a publish: read the      *)
(* dataset kept in the pending storage, compare it with the event, store   *)
(* it, and acknowledge that to the publisher (commands/protocols/publish,  *)
(* commands/protocols/finality, commands/cleaners).                        *)
(*                                                                         *)
(* One publish.  A run is one handling of its event by a node; an event is *)
(* handled again when the node died after it had handled and before it had *)
(* marked it (BlockchainEventListener).  Root commands are lost with the   *)
(* process, their children are replayed (CommandExecutor).                 *)
(*                                                                         *)
(* Acknowledgements are not answered (FinalityIsAnswered of                *)
(* NetworkSession): every finality request times out at its sender.        *)
(***************************************************************************)
EXTENDS Naturals, FiniteSets

CONSTANTS
    Shard, Publisher,
    Mismatched,         \* nodes whose cached root differs from the event's
    ReadRetries,        \* MAX_RETRIES_READ_CACHED_PUBLISH_DATA
    MaxHandled,         \* bound: times each node handles the event
    MaxFinFaults        \* bound: crashes, queries that throw, lost messages, aged files

ASSUME FinalizationAssumption ==
    /\ IsFiniteSet(Shard) /\ Publisher \in Shard /\ Mismatched \subseteq Shard
    /\ ReadRetries \in Nat \ {0} /\ MaxHandled \in [Shard -> Nat] /\ MaxFinFaults \in Nat

VARIABLES
    at,             \* the command a run has come to
    readsLeft,      \* command.retries of its first command
    finStatus,      \* status of the operation id of a run
    pendingFile,    \* nodes with the dataset in their pending storage
    agedFile,       \* those whose file is older than a day
    inStore,        \* nodes with the knowledge collection in the triple store
    ackRows,        \* rows of finality_status at the publisher: peer, and which of its rows
    onWire,         \* runs whose acknowledgement is on its way
    spoiled,        \* what befell the nodes
    finFaults

finVars == <<at, readsLeft, finStatus, pendingFile, agedFile, inStore,
             ackRows, onWire, spoiled, finFaults>>
files == <<pendingFile, agedFile>>

Runs == UNION {{n} \X (1 .. MaxHandled[n]) : n \in Shard}
FinOver == {"unhandled", "dropped", "lost", "done"}
Stages == FinOver \cup {"read", "validate", "store", "find", "schedule",
                        "request", "waiting", "failing"}
Statuses == {"none", "START", "STORE_START", "STORE_END", "COMPLETED", "FAILED"}

Fates == {"died", "expired", "unstored", "threw"}

FinInit ==
    /\ at = [r \in Runs |-> "unhandled"] /\ readsLeft = [r \in Runs |-> ReadRetries]
    /\ finStatus = [r \in Runs |-> "none"]
    /\ pendingFile = {} /\ agedFile = {} /\ inStore = {}
    /\ ackRows = {} /\ onWire = {}
    /\ spoiled = {} /\ finFaults = 0

FinFault == finFaults < MaxFinFaults /\ finFaults' = finFaults + 1

GoesTo(r, p) == at' = [at EXCEPT ![r] = p]
HasStatus(r, s) == finStatus' = [finStatus EXCEPT ![r] = s]
Befalls(why, r) == spoiled' = spoiled \cup {<<r[1], why>>}

(* upsert, with a unique index over ual and peer_id. *)
(* Mutant: create. *)
Acknowledge_Create(n) ==
    ackRows' = ackRows \cup {<<n, 1 + Cardinality({row \in ackRows : row[1] = n})>>}

Acknowledge(n) == ackRows' = ackRows \cup {<<n, 1>>}

-----------------------------------------------------------------------------
(* The pending storage *)

(* cacheDataset, of the publisher's own store and of a store request. *)
CacheInPendingStorage(n) ==
    /\ n \notin pendingFile /\ <<n, "expired">> \notin spoiled
    /\ pendingFile' = pendingFile \cup {n}
    /\ UNCHANGED <<at, readsLeft, finStatus, agedFile, inStore, ackRows, onWire,
                   spoiled, finFaults>>

(* A day goes by. *)
Ages(n) ==
    /\ n \in pendingFile \ agedFile
    /\ FinFault
    /\ agedFile' = agedFile \cup {n}
    /\ UNCHANGED <<at, readsLeft, finStatus, pendingFile, inStore, ackRows, onWire, spoiled>>

(* removeExpiredFileCache goes by the age of a file, not by what became of its
   publish. *)
(* Mutant: every file is removed. *)
Expired_All(n) == n \in pendingFile

Expired(n) == n \in pendingFile /\ n \in agedFile

CleanPendingStorage(n) ==
    /\ Expired(n)
    /\ pendingFile' = pendingFile \ {n} /\ agedFile' = agedFile \ {n}
    /\ spoiled' = IF n \in agedFile THEN spoiled \cup {<<n, "expired">>} ELSE spoiled
    /\ UNCHANGED <<at, readsLeft, finStatus, inStore, ackRows, onWire, finFaults>>

-----------------------------------------------------------------------------
(* The commands of a run *)

Advance(r, p, q) ==
    /\ at[r] = p /\ GoesTo(r, q)
    /\ UNCHANGED <<readsLeft, files, onWire>>

(* handleKnowledgeCollectionCreatedEvent *)
HandleCreatedEvent(r) ==
    /\ r[2] > 1 => <<r[1], "died">> \in spoiled /\ at[<<r[1], r[2] - 1>>] # "unhandled"
    /\ Advance(r, "unhandled", "read")
    /\ UNCHANGED <<finStatus, inStore, ackRows, spoiled, finFaults>>

(* ReadCachedPublishDataCommand: a node that published itself acknowledges
   before anything is validated or stored. *)
ReadCachedPublishData(r) ==
    /\ r[1] \in pendingFile
    /\ Advance(r, "read", "validate")
    /\ HasStatus(r, "START")
    /\ IF r[1] = Publisher THEN Acknowledge(Publisher) ELSE UNCHANGED ackRows
    /\ UNCHANGED <<inStore, spoiled, finFaults>>

(* No file: the command is retried, each time with an operation id of its own,
   and dropped without a word with the last retry. *)
RetryRead(r) ==
    /\ at[r] = "read" /\ r[1] \notin pendingFile
    /\ IF readsLeft[r] > 1
       THEN readsLeft' = [readsLeft EXCEPT ![r] = @ - 1] /\ UNCHANGED at
       ELSE GoesTo(r, "dropped") /\ UNCHANGED readsLeft
    /\ HasStatus(r, "START")
    /\ UNCHANGED <<files, inStore, ackRows, onWire, spoiled, finFaults>>

(* ValidateAssertionMetadataCommand: a mismatch marks the operation id as
   failed, and the sequence goes on. *)
ValidateAssertionMetadata(r) ==
    /\ Advance(r, "validate", "store")
    /\ IF r[1] \in Mismatched THEN HasStatus(r, "FAILED") ELSE UNCHANGED finStatus
    /\ UNCHANGED <<inStore, ackRows, spoiled, finFaults>>

(* StoreAssertionCommand; for the publisher it is the last one. *)
AfterStore(r) == IF r[1] = Publisher THEN "done" ELSE "find"

StoreAssertion(r) ==
    /\ Advance(r, "store", AfterStore(r))
    /\ inStore' = inStore \cup {r[1]}
    /\ HasStatus(r, "STORE_END")
    /\ UNCHANGED <<ackRows, spoiled, finFaults>>

StoreAssertionFails(r) ==
    /\ FinFault
    /\ Advance(r, "store", "done")
    /\ HasStatus(r, "FAILED")
    /\ Befalls("unstored", r)
    /\ UNCHANGED <<inStore, ackRows>>

(* FindPublisherNodeCommand and NetworkFinalityCommand, which adds the next
   command as a root command. *)
NetworkFinality(r) ==
    /\ Advance(r, "find", "schedule")
    /\ UNCHANGED <<finStatus, inStore, ackRows, spoiled, finFaults>>

(* FinalityScheduleMessagesCommand: one batch of one node, the publisher. *)
ScheduleFinality(r) ==
    /\ Advance(r, "schedule", "request")
    /\ UNCHANGED <<finStatus, inStore, ackRows, spoiled, finFaults>>

(* FinalityRequestCommand sends its message, which may be lost. *)
RequestFinality(r) ==
    /\ at[r] = "request" /\ GoesTo(r, "waiting")
    /\ \/ onWire' = onWire \cup {r} /\ UNCHANGED finFaults
       \/ FinFault /\ UNCHANGED onWire
    /\ UNCHANGED <<readsLeft, finStatus, files, inStore, ackRows, spoiled>>

(* handleNack of the timeout marks the operation id as completed ... *)
FinalityTimesOut(r) ==
    /\ Advance(r, "waiting", "failing")
    /\ HasStatus(r, "COMPLETED")
    /\ UNCHANGED <<inStore, ackRows, spoiled, finFaults>>

(* ... and then processResponse as failed. *)
MarkFinalityFailed(r) ==
    /\ Advance(r, "failing", "done")
    /\ HasStatus(r, "FAILED")
    /\ UNCHANGED <<inStore, ackRows, spoiled, finFaults>>

(* The publisher: PublishFinalitySaveAckCommand, unless the query fails. *)
SaveAck(r) ==
    /\ r \in onWire /\ onWire' = onWire \ {r}
    /\ \/ Acknowledge(r[1]) /\ UNCHANGED finFaults
       \/ FinFault /\ UNCHANGED ackRows
    /\ UNCHANGED <<at, readsLeft, finStatus, files, inStore, spoiled>>

-----------------------------------------------------------------------------
(* Exceptions that reach the executor *)

(* A query of ReadCachedPublishDataCommand throws outside its try:
   generateOperationId, with the file there saveFinalityAck, or the insert of
   the next command.  _handleError runs the command again while retries are
   left, down to the last one, and then it has FAILED. *)
ReadThrows(r) ==
    /\ at[r] = "read" /\ FinFault
    /\ \/ UNCHANGED <<finStatus, ackRows>>
       \/ /\ r[1] \in pendingFile /\ HasStatus(r, "START")
          /\ UNCHANGED ackRows \/ (r[1] = Publisher /\ Acknowledge(Publisher))
    /\ IF readsLeft[r] > 0
       THEN readsLeft' = [readsLeft EXCEPT ![r] = @ - 1] /\ UNCHANGED <<at, spoiled>>
       ELSE GoesTo(r, "dropped") /\ Befalls("threw", r) /\ UNCHANGED readsLeft
    /\ UNCHANGED <<files, inStore, onWire>>

(* A query of a later command throws outside its try.  The command has no
   retries: recover() marks the operation id as failed, and the run ends, unless
   the next command was added as a root command before. *)
CommandThrows(r) ==
    /\ FinFault
    /\ \/ /\ at[r] \in {"validate", "store", "find", "schedule"}
          /\ GoesTo(r, "done") /\ Befalls("threw", r)
          /\ UNCHANGED inStore \/ (at[r] = "store" /\ inStore' = inStore \cup {r[1]})
       \/ /\ \/ at[r] = "find" /\ GoesTo(r, "schedule")
             \/ at[r] = "schedule" /\ GoesTo(r, "request")
          /\ UNCHANGED <<inStore, spoiled>>
    /\ HasStatus(r, "FAILED")
    /\ UNCHANGED <<readsLeft, files, ackRows, onWire>>

(* A query of FinalityRequestCommand throws: it is retried and sends its message
   again, or its retries (which are not counted) are used up and recover()
   processes the response as failed. *)
RequestThrows(r) ==
    /\ at[r] \in {"request", "waiting", "failing"} /\ FinFault
    /\ \/ GoesTo(r, "request") /\ UNCHANGED finStatus
       \/ GoesTo(r, "done") /\ HasStatus(r, "FAILED")
    /\ UNCHANGED <<readsLeft, files, inStore, ackRows, onWire, spoiled>>

(* An exception while another one is handled: the executor lets the command go. *)
RunIsLost(r) ==
    /\ at[r] \notin FinOver
    /\ finFaults + 1 < MaxFinFaults /\ finFaults' = finFaults + 2
    /\ GoesTo(r, "lost") /\ Befalls("threw", r)
    /\ UNCHANGED <<readsLeft, finStatus, files, inStore, ackRows, onWire>>

(* A node dies: its root commands are lost and the others run again. *)
NodeDies(n) ==
    /\ FinFault
    /\ at' = [r \in Runs |->
                IF r[1] = n /\ at[r] \in {"read", "schedule", "request", "waiting", "failing"}
                THEN "lost" ELSE at[r]]
    /\ onWire' = IF n = Publisher THEN {} ELSE onWire
    /\ spoiled' = spoiled \cup {<<n, "died">>}
    /\ UNCHANGED <<readsLeft, finStatus, files, inStore, ackRows>>

-----------------------------------------------------------------------------
RunStep(r) ==
    \/ ReadCachedPublishData(r) \/ RetryRead(r) \/ ValidateAssertionMetadata(r)
    \/ StoreAssertion(r) \/ StoreAssertionFails(r) \/ NetworkFinality(r)
    \/ ScheduleFinality(r) \/ RequestFinality(r) \/ FinalityTimesOut(r) \/ MarkFinalityFailed(r)

RunThrows(r) == ReadThrows(r) \/ CommandThrows(r) \/ RequestThrows(r) \/ RunIsLost(r)

FinNext ==
    \/ \E r \in Runs : HandleCreatedEvent(r) \/ RunStep(r) \/ SaveAck(r) \/ RunThrows(r)
    \/ \E n \in Shard : CacheInPendingStorage(n) \/ Ages(n) \/ CleanPendingStorage(n) \/ NodeDies(n)

FinSpec == FinInit /\ [][FinNext]_finVars

-----------------------------------------------------------------------------
(* Properties *)

(* Types of the pending storage, the operation ids and finality_status. *)
FinTypeOK ==
    /\ at \in [Runs -> Stages] /\ readsLeft \in [Runs -> 0 .. ReadRetries]
    /\ finStatus \in [Runs -> Statuses]
    /\ agedFile \subseteq pendingFile /\ pendingFile \subseteq Shard
    /\ inStore \subseteq Shard /\ onWire \subseteq Runs
    /\ spoiled \subseteq Shard \X Fates
    /\ ackRows \subseteq Shard \X Nat /\ finFaults \in 0 .. MaxFinFaults

(* The finality that the publisher reports (getFinalityAcksCount) does not
   exceed the number of nodes that have stored the collection, itself not
   counted: it acknowledges before it stores.  Events that are handled twice,
   nodes that die and stores that fail do not raise it. *)
FinalityIsStored ==
    Cardinality(ackRows) <= Cardinality(inStore \cup {Publisher})

(* A run that ended did not end with the completed status handleNack gives it
   for a moment: whoever polls the result later sees a failure. *)
EndsAsFailed ==
    \A r \in Runs : at[r] = "done" => finStatus[r] # "COMPLETED"

(* A node that has the dataset when the event comes, or gets it while it waits
   for it, stores it, unless it dies, fails to store, the dataset grows too old
   meanwhile, or exceptions end the run: one that uses up the last retry, one of
   a later command, or one while another is handled.  No single failure of a
   query that reads the dataset is among these. *)
CachedIsStored ==
    \A r \in Runs :
        (at[r] = "read" /\ r[1] \in pendingFile) ~> (r[1] \in inStore \/ \E why \in Fates : <<r[1], why>> \in spoiled)

(* Every handling of the event ends. *)
RunEnds == \A r \in Runs : (at[r] = "read") ~> (at[r] \in FinOver)

(* What the publisher and its client are told of the finality. *)
FinalityInv == FinalityIsStored /\ EndsAsFailed
=============================================================================
