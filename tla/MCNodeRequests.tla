--------------------------- MODULE MCNodeRequests ---------------------------
(***************************************************************************)
(* The parts of a node that serve requests: the network sessions, the      *)
(* finalization of a publish, the inserts of the triple store, the cache   *)
(* of operations and the operations of the HTTP API.  They share no        *)
(* variable, so a step of one is seen by no property of another: every     *)
(* behaviour is that of one of them, in focus, while the others stay.      *)
(***************************************************************************)
EXTENDS NetworkSession, PublishFinalization, KnowledgeStore, OperationCache, OperationApi

(* The second operation is whatever else is in flight. *)
MCRequestsOf == [o \in Operations |-> IF o = "o1" THEN Requests ELSE {"store"}]

(* The publisher handles its event once, another node once more after its death. *)
MCMaxHandled == [n \in Shard |-> IF n = Publisher THEN 1 ELSE 2]

VARIABLE focus

Components == {"sessions", "finalization", "store", "cache", "api"}
partVars == <<sessionVars, finVars, storeVars, cacheVars, apiVars>>
allVars == <<focus, partVars>>

(* The calls of the triple store that take place together. *)
Together == {i \in Inserts : insertAt[i] # "none"} \cup {r \in Reads : readAt[r] # "none"}
MCTogether == {{"a", "b", "c"}, {"a", "c", "g"}, {"a", "c", "h"}}

RequestsInit ==
    /\ focus \in Components
    /\ SessionInit /\ FinInit /\ StoreInit /\ CacheInit /\ ApiInit
    /\ Together \in MCTogether /\ (focus # "store" => Together = {"a", "b", "c"})

InSessions == focus = "sessions" /\ UNCHANGED <<focus, finVars, storeVars, cacheVars, apiVars>>
InFinalization == focus = "finalization" /\ UNCHANGED <<focus, sessionVars, storeVars, cacheVars, apiVars>>
InStore == focus = "store" /\ UNCHANGED <<focus, sessionVars, finVars, cacheVars, apiVars>>
InCache == focus = "cache" /\ UNCHANGED <<focus, sessionVars, finVars, storeVars, apiVars>>
InApi == focus = "api" /\ UNCHANGED <<focus, sessionVars, finVars, storeVars, cacheVars>>

RequestsNext ==
    \/ InSessions /\ SessionNext
    \/ InFinalization /\ FinNext
    \/ InStore /\ StoreNext
    \/ InCache /\ CacheNext
    \/ InApi /\ ApiNext

(* The fairness of the modules: handlers, commands and cleaners go on.     *)
RequestsFairness ==
    /\ \A s \in Streams :
         /\ WF_sessionVars(focus = "sessions" /\ HandlerStep(s))
         /\ WF_sessionVars(focus = "sessions" /\ ReturnStep(s))
    /\ \A r \in Runs : WF_finVars(focus = "finalization" /\ RunStep(r))
    /\ WF_cacheVars(focus = "cache" /\ TimePasses)
    /\ WF_cacheVars(focus = "cache" /\ CleanerStep)
    /\ \A q \in Queries : WF_cacheVars(focus = "cache" /\ QueryStep(q))
    /\ \A o \in Operations :
         /\ WF_apiVars(focus = "api" /\ ControllerStep(o))
         /\ WF_apiVars(focus = "api" /\ CommandStep(o))

RequestsSpec == RequestsInit /\ [][RequestsNext]_allVars /\ RequestsFairness

(* The type invariants of the components. *)
RequestsTypeOK == SessionTypeOK /\ FinTypeOK /\ StoreTypeOK /\ CacheTypeOK /\ ApiTypeOK

(* Whatever is begun ends: a message between nodes on both sides, the       *)
(* handling of an event, a query and what it cached, and an operation whose *)
(* id a client was given.                                                   *)
RequestsGoOn ==
    /\ EveryRequestReturns /\ EveryHandlerEnds
    /\ RunEnds
    /\ FilesGo /\ QueryEnds
    /\ AnsweredEnds
=============================================================================
