--------------------------- MODULE KnowledgeStore ---------------------------
(***************************************************************************)
(* How a knowledge collection gets into the triple store: the queries that *)
(* TripleStoreService sends for it and what is done when one of them fails *)
(* (service/triple-store-service.js, modules/triple-store).                *)
(*                                                                         *)
(* One collection with a public and a private part.  It is inserted more   *)
(* than once when its event is handled twice (PublishFinalization) or when *)
(* it is stored locally as well (local-store-command.js).  A query changes *)
(* one graph, atomically; its answer may be lost.  Gets of the collection  *)
(* read it meanwhile, a graph with each query (local-get-command.js,       *)
(* v1-0-0-handle-get-request-command.js).  The update of a stored          *)
(* collection is not modelled: its protocol is disabled.                   *)
(***************************************************************************)
EXTENDS Naturals, FiniteSets

CONSTANTS
    InsertsV8, InsertsV6,   \* calls of insertKnowledgeCollection, createV6...
    LocalReads, RemoteReads,        \* gets of this node and of other nodes
    InsertRetries,          \* the parameter retries
    MaxStoreFaults          \* bound: queries that fail

ASSUME StoreAssumption ==
    /\ InsertsV8 \cap InsertsV6 = {}
    /\ InsertRetries \in Nat \ {0} /\ MaxStoreFaults \in Nat

VARIABLES
    graphs,         \* named graphs of the collection that are not empty
    insertAt,       \* where a call is
    existed,        \* existsInNamedGraphs of a call
    query,          \* what became of its queries
    attempts,
    readAt,         \* the query a get waits for
    hasRead,        \* what a get has read
    metaAt,         \* its read of the metadata, concurrent
    promised,       \* history: a call had reported the collection stored before
    storeFaults

insertVars == <<insertAt, existed, query, attempts>>
readVars == <<readAt, hasRead, metaAt, promised>>
storeVars == <<graphs, insertVars, readVars, storeFaults>>

Reads == LocalReads \cup RemoteReads
Inserts == InsertsV8 \cup InsertsV6

(* Graphs are named by the asset and the visibility; the metadata of all
   collections is in a graph of its own. *)
Public == "ual/1/public"
Private == "ual/1/private"
Metadata == "metadata:graph"
Parts == {Public, Private, Metadata}
InsertOver == {"stored", "thrown"}

StoreInit ==
    /\ graphs = {}
    /\ \E some \in SUBSET (Inserts \cup Reads) :      \* those that take place
         /\ insertAt = [i \in Inserts |-> CASE i \notin some -> "none"
                                           [] i \in some \cap InsertsV8 -> "check"
                                           [] OTHER -> Public]
         /\ readAt = [r \in Reads |-> IF r \in some THEN "idle" ELSE "none"]
    /\ existed = [i \in Inserts |-> FALSE]
    /\ query = [i \in Inserts |-> [p \in Parts |-> "none"]]
    /\ attempts = [i \in Inserts |-> 0]
    /\ metaAt = [r \in Reads |-> "end"]
    /\ hasRead = [r \in Reads |-> {}] /\ promised = [r \in Reads |-> FALSE]
    /\ storeFaults = 0

StoreFault == storeFaults < MaxStoreFaults /\ storeFaults' = storeFaults + 1

InsertGoesTo(i, p) == insertAt' = [insertAt EXCEPT ![i] = p]

-----------------------------------------------------------------------------
(* A query is answered with the graph written, or fails before or after. *)
Lands(i, p) ==
    \/ /\ graphs' = graphs \cup {p}
       /\ query' = [query EXCEPT ![i][p] = "done"] /\ UNCHANGED storeFaults
    \/ /\ StoreFault /\ graphs' \in {graphs, graphs \cup {p}}
       /\ query' = [query EXCEPT ![i][p] = "failed"]

QueryLands(i, p) ==
    /\ query[i][p] = "sent"
    /\ Lands(i, p)
    /\ UNCHANGED <<insertAt, existed, attempts, readVars>>

(* knowledgeCollectionNamedGraphsExist asks for the public graph of the first
   asset. *)
NamedGraphsExist(g) == Public \in g

CheckNamedGraphs(i) ==
    /\ insertAt[i] = "check"
    /\ existed' = [existed EXCEPT ![i] = NamedGraphsExist(graphs)]
    /\ InsertGoesTo(i, "send")
    /\ UNCHANGED <<graphs, query, attempts, storeFaults, readVars>>

(* The promises: the graphs unless they were there, and the metadata. *)
SendQueries(i) ==
    /\ insertAt[i] = "send"
    /\ query' = [query EXCEPT ![i] =
                    [p \in Parts |-> IF existed[i] /\ p # Metadata THEN "none" ELSE "sent"]]
    /\ InsertGoesTo(i, "await")
    /\ UNCHANGED <<graphs, existed, attempts, storeFaults, readVars>>

(* Promise.all: stored when all are done ... *)
AllDone(i) ==
    /\ insertAt[i] = "await" /\ \A p \in Parts : query[i][p] \in {"none", "done"}
    /\ InsertGoesTo(i, "stored")
    /\ UNCHANGED <<graphs, existed, query, attempts, storeFaults, readVars>>

(* ... and an error when one fails, whatever the others do later.  A retry
   awaits the same promises again. *)
OneFails(i) ==
    /\ insertAt[i] = "await" /\ \E p \in Parts : query[i][p] = "failed"
    /\ attempts' = [attempts EXCEPT ![i] = @ + 1]
    /\ InsertGoesTo(i, IF attempts[i] + 1 < InsertRetries THEN "await" ELSE "rollback")
    /\ UNCHANGED <<graphs, existed, query, storeFaults, readVars>>

(* deleteKnowledgeCollectionNamedGraphs is given the assets, not the graphs:
   it drops graphs that do not exist. *)
(* Mutant: it drops the graphs of the assets. *)
Dropped_Named(i) == IF existed[i] THEN {} ELSE {Public, Private}

Dropped(i) == IF existed[i] THEN {} ELSE {"ual/1"}

RollBack(i) ==
    /\ insertAt[i] = "rollback"
    /\ graphs' = graphs \ Dropped(i)
    /\ InsertGoesTo(i, "thrown")
    /\ UNCHANGED <<existed, query, attempts, storeFaults, readVars>>

(* createV6KnowledgeCollection: one query after the other, no rollback. *)
AfterV6(p) == CASE p = Public -> Private [] p = Private -> Metadata [] OTHER -> "stored"

CreateV6(i) ==
    \E p \in Parts :
        /\ insertAt[i] = p
        /\ Lands(i, p)
        /\ InsertGoesTo(i, IF query'[i][p] = "done" THEN AfterV6(p) ELSE "thrown")
        /\ UNCHANGED <<existed, attempts, readVars>>

-----------------------------------------------------------------------------
(* A get.  The number of the asset, or the range of the collection's, becomes a
   range (an object); the metadata is asked for with that in the name, at the
   same time, and there is no asset of such a name. *)

Reported == \E i \in Inserts : insertAt[i] = "stored" /\ ~existed[i]

BeginRead(r) ==
    /\ readAt[r] = "idle"
    /\ readAt' = [readAt EXCEPT ![r] = "public"]
    /\ \E includeMetadata \in BOOLEAN :
          metaAt' = [metaAt EXCEPT ![r] = IF includeMetadata THEN "asked" ELSE "end"]
    /\ promised' = [promised EXCEPT ![r] = Reported]
    /\ UNCHANGED <<graphs, insertVars, hasRead, storeFaults>>

(* The public graphs; of a local get then the private ones as well. *)
AfterRead(r, p) == IF p = "public" /\ r \in LocalReads THEN "private" ELSE "end"

GetNamedGraphs(r) ==
    /\ readAt[r] \in {"public", "private"}
    /\ LET p == IF readAt[r] = "public" THEN Public ELSE Private IN
       hasRead' = [hasRead EXCEPT ![r] = @ \cup (graphs \cap {p})]
    /\ readAt' = [readAt EXCEPT ![r] = AfterRead(r, @)]
    /\ UNCHANGED <<graphs, insertVars, metaAt, promised, storeFaults>>

GetMetadata(r) ==
    /\ metaAt[r] = "asked"
    /\ metaAt' = [metaAt EXCEPT ![r] = "end"]
    /\ UNCHANGED <<graphs, insertVars, readAt, hasRead, promised, storeFaults>>

(* Promise.all fails with either; the other query is not waited for. *)
ReadFails(r) ==
    /\ \/ readAt[r] \in {"public", "private"}
       \/ readAt[r] = "end" /\ metaAt[r] = "asked"
    /\ StoreFault
    /\ readAt' = [readAt EXCEPT ![r] = "failed"] /\ metaAt' = [metaAt EXCEPT ![r] = "end"]
    /\ UNCHANGED <<graphs, insertVars, hasRead, promised>>

ReadStep(r) == BeginRead(r) \/ GetNamedGraphs(r) \/ GetMetadata(r) \/ ReadFails(r)

-----------------------------------------------------------------------------
StoreNext ==
    \/ \E i \in InsertsV8 : \/ CheckNamedGraphs(i) \/ SendQueries(i) \/ AllDone(i)
                            \/ OneFails(i) \/ RollBack(i)
                            \/ \E p \in Parts : QueryLands(i, p)
    \/ \E i \in InsertsV6 : CreateV6(i)
    \/ \E r \in Reads : ReadStep(r)

StoreSpec == StoreInit /\ [][StoreNext]_storeVars

-----------------------------------------------------------------------------
(* Properties *)

(* Types of the calls and their queries. *)
StoreTypeOK ==
    /\ graphs \subseteq Parts
    /\ insertAt \in [Inserts -> InsertOver \cup Parts \cup {"none", "check", "send", "await", "rollback"}]
    /\ existed \in [Inserts -> BOOLEAN]
    /\ query \in [Inserts -> [Parts -> {"none", "sent", "done", "failed"}]]
    /\ attempts \in [Inserts -> 0 .. InsertRetries]
    /\ readAt \in [Reads -> {"none", "idle", "public", "private", "end", "failed"}]
    /\ metaAt \in [Reads -> {"asked", "end"}]
    /\ hasRead \in [Reads -> SUBSET {Public, Private}]
    /\ promised \in [Reads -> BOOLEAN]
    /\ storeFaults \in 0 .. MaxStoreFaults

(* What one call has stored stays, also when another call for the same
   collection fails and is rolled back: the calls do not know of each other
   (insertKnowledgeCollection). *)
StoredStays ==
    \A i \in Inserts : insertAt[i] = "stored" /\ ~existed[i] => graphs = Parts

(* A call that ended well has at least the public part and the metadata there,
   even when it found the collection and sent the metadata only: the private
   part it leaves to the call that came before, which may have failed. *)
StoredIsPublic ==
    \A i \in Inserts : insertAt[i] = "stored" => {Public, Metadata} \subseteq graphs

(* A get that began after the collection was reported as stored has all of it
   that it asks for, though it takes several queries and other calls insert and
   roll back in between.  (One that began before may have any part.) *)
ReadIsWhole ==
    \A r \in Reads :
        promised[r] /\ readAt[r] = "end" =>
            hasRead[r] = IF r \in LocalReads THEN {Public, Private} ELSE {Public}

(* What a call reported as stored is there, whatever the other calls do. *)
StoreInv == StoredStays /\ StoredIsPublic /\ ReadIsWhole
=============================================================================
