---------------------------- MODULE OperationApi ----------------------------
(***************************************************************************)
(* How an operation asked for over HTTP starts and ends for its client:    *)
(* the controllers of publish, get, ask and local-store                    *)
(* (controllers/http-api), the two rows an operation has (its operation id *)
(* and the operation itself), its cached data, and the command the         *)
(* controller adds, which starts before the controller is through.  A      *)
(* controller's promise is dropped by the router's callback: what it       *)
(* throws outside its own try ends the process (index.js), with every      *)
(* other operation in flight.  What a command does over the network is in  *)
(* PublishOperation and GetOperation; here it ends in one verdict.         *)
(***************************************************************************)
EXTENDS Naturals, Sequences, SequencesExt

CONSTANTS
    Operations,         \* the operation ids
    RequestsOf,         \* per operation: what it may be a request for
    MaxApiFaults        \* bound: exceptions and crashes

Requests == {"publish", "get", "ask", "store"}

ASSUME ApiAssumption ==
    /\ RequestsOf \in [Operations -> SUBSET Requests]
    /\ MaxApiFaults \in Nat

VARIABLES
    requested,      \* per operation: what was asked for, "none" before
    controller,     \* the steps its controller has left
    running,        \* the steps its command has left
    idStatus,       \* the status of its operation id
    opRow,          \* the status of its own row
    inMemory, inFile,   \* its cached data
    answered,       \* the client has the operation id
    storedLocally,  \* local-store: the assertion is in the triple store
    caught,         \* its controller's catch was entered
    abandoned,      \* it was in flight when the process ended
    apiFaults

cacheOfApi == <<inMemory, inFile>>
apiVars == <<requested, controller, running, idStatus, opRow, cacheOfApi, answered,
             storedLocally, caught, abandoned, apiFaults>>

Verdicts == {"COMPLETED", "FAILED"}
HasVerdict(s) == s \in Verdicts

ApiInit ==
    /\ requested = [o \in Operations |-> "none"]
    /\ controller = [o \in Operations |-> <<>>] /\ running = [o \in Operations |-> <<>>]
    /\ idStatus = [o \in Operations |-> "none"] /\ opRow = [o \in Operations |-> "none"]
    /\ inMemory = [o \in Operations |-> "none"] /\ inFile = [o \in Operations |-> "none"]
    /\ answered = [o \in Operations |-> FALSE] /\ storedLocally = [o \in Operations |-> FALSE]
    /\ caught = [o \in Operations |-> FALSE] /\ abandoned = [o \in Operations |-> FALSE]
    /\ apiFaults = 0

-----------------------------------------------------------------------------
(* The controllers, as the awaits they make; those of Guarded are inside   *)
(* their try.                                                              *)

(* Mutant: the command is added before the operation starts for its client. *)
PublishController_Early == <<"initStart", "answer", "row", "memory", "file", "pending", "add",
                             "initEnd">>
PublishController == <<"initStart", "answer", "initEnd", "row", "memory", "file", "pending",
                       "add">>

(* The one of /v0 differs in what it caches in pending storage. *)
PublishControllerV0 == PublishController

GetController == <<"initStart", "answer", "row", "migration", "resolve", "add", "initEnd">>

(* The one of /v0 does not validate the asset: see GetSequence. *)
GetControllerV0 == GetController

AskController == <<"initStart", "answer", "row", "root", "add", "askEnd">>

(* Mutant: a local store writes the row of an operation too.               *)
LocalStoreController_Row == <<"answer", "initEnd", "row", "read", "memory", "file", "add">>
LocalStoreController == <<"answer", "initEnd", "read", "memory", "file", "add">>

Guarded(o) ==
    CASE requested[o] = "publish" -> {"memory", "file", "pending", "add"}
      [] requested[o] = "get" -> {"resolve", "add", "initEnd"}
      [] requested[o] = "ask" -> {"root", "add", "askEnd"}
      [] OTHER -> {}

-----------------------------------------------------------------------------
(* How operations end (operation-service.js, command.js)                   *)

(* Mutant: the operation id is completed before the result is cached. *)
MarkOperationAsCompleted_IdFirst(o) ==
    IF requested[o] = "get"
    THEN <<"end", "completed", "resultMemory", "resultFile", "rowCompleted">>
    ELSE <<"end", "completed", "drop", "rowCompleted">>
MarkOperationAsCompleted(o) ==
    IF requested[o] = "get"
    THEN <<"resultMemory", "resultFile", "rowCompleted", "end", "completed">>
    ELSE <<"drop", "rowCompleted", "end", "completed">>

MarkOperationAsFailed == <<"drop", "rowFailed", "drop", "failed">>

(* Command.handleError: updateOperationIdStatus with a message. *)
HandleCommandError == <<"drop", "failed">>

LocalStoreCommand == <<"begin", "insert", "end", "completed">>

FindShard == <<"begin", "shard", "begin", "work">>

(* AskService has no getMinAckResponses: the command throws and recovers. *)
AskFindShard == <<"begin">> \o HandleCommandError

(* Only the get of /v1 validates; the merkle root of an asset of an old    *)
(* contract is looked for unless the stores were migrated.                 *)
GetSequences == {<<"begin", "validate">>, <<"begin", "validate", "root">>, <<>>, <<"root">>}

(* The steps of the command the controller adds. *)
Added(o) ==
    CASE requested[o] = "publish" -> {FindShard}
      [] requested[o] = "get" -> {sequence \o FindShard : sequence \in GetSequences}
      [] requested[o] = "ask" -> {AskFindShard}
      [] OTHER -> {LocalStoreCommand}

(* getValidateAssetCommand: the id is not that of an asset. *)
ValidateAssetFails(step) == IF step = "validate" THEN {MarkOperationAsFailed} ELSE {}

(* getAssertionMerkleRootCommand: the triple store does not answer. *)
MerkleRootFails(step) == IF step = "root" THEN {MarkOperationAsFailed} ELSE {}

(* Where a command may turn from its way to the end of a failed one. *)
Refusals(step) ==
    ValidateAssetFails(step) \cup MerkleRootFails(step) \cup
    CASE step \in {"shard", "insert"} -> {HandleCommandError}
      [] step = "work" -> {MarkOperationAsFailed, HandleCommandError}
      [] OTHER -> {}

-----------------------------------------------------------------------------
(* What a step writes                                                      *)

IdWrites == [initStart |-> "INIT_START", initEnd |-> "INIT_END", askEnd |-> "ASK_END",
             begin |-> "STARTED", end |-> "ENDED",
             completed |-> "COMPLETED", failed |-> "FAILED"]
RowWrites == [row |-> "IN_PROGRESS", rowCompleted |-> "COMPLETED", rowFailed |-> "FAILED"]
MemoryWrites == [memory |-> "input", resultMemory |-> "result", drop |-> "none"]
FileWrites == [file |-> "input", resultFile |-> "result", drop |-> "none"]

Written(at, o, writes, step) ==
    IF step \in DOMAIN writes THEN [at EXCEPT ![o] = writes[step]] ELSE at

StepWrites(o, step) ==
    /\ idStatus' = Written(idStatus, o, IdWrites, step)
    /\ opRow' = Written(opRow, o, RowWrites, step)
    /\ inMemory' = Written(inMemory, o, MemoryWrites, step)
    /\ inFile' = Written(inFile, o, FileWrites, step)
    /\ answered' = [answered EXCEPT ![o] = @ \/ step = "answer"]
    /\ storedLocally' = [storedLocally EXCEPT ![o] = @ \/ step = "insert"]

-----------------------------------------------------------------------------
(* The actions                                                             *)

ControllerOf(request) ==
    CASE request = "publish" -> {PublishController, PublishControllerV0}
      [] request = "get" -> {GetController, GetControllerV0}
      [] request = "ask" -> {AskController}
      [] OTHER -> {LocalStoreController}

(* handleRequest: generateOperationId creates the row of the id. *)
HandleHttpRequest(o) ==
    /\ requested[o] = "none"
    /\ \E request \in RequestsOf[o] :
         /\ requested' = [requested EXCEPT ![o] = request]
         /\ \E steps \in ControllerOf(request) : controller' = [controller EXCEPT ![o] = steps]
    /\ idStatus' = [idStatus EXCEPT ![o] = "START"]
    /\ UNCHANGED <<running, opRow, cacheOfApi, answered, storedLocally, caught, abandoned,
                   apiFaults>>

ControllerStep(o) ==
    /\ controller[o] # <<>>
    /\ controller' = [controller EXCEPT ![o] = Tail(@)]
    /\ StepWrites(o, Head(controller[o]))
    /\ IF Head(controller[o]) = "add"
       THEN \E steps \in Added(o) : running' = [running EXCEPT ![o] = steps]
       ELSE UNCHANGED running
    /\ UNCHANGED <<requested, caught, abandoned, apiFaults>>

CommandStep(o) ==
    /\ running[o] # <<>>
    /\ LET step == Head(running[o]) IN
         \/ /\ running' = [running EXCEPT ![o] = IF step = "work" THEN MarkOperationAsCompleted(o)
                                                                ELSE Tail(@)]
            /\ StepWrites(o, step)
         \/ /\ \E steps \in Refusals(step) : running' = [running EXCEPT ![o] = steps]
            /\ UNCHANGED <<idStatus, opRow, cacheOfApi, answered, storedLocally>>
    /\ UNCHANGED <<requested, controller, caught, abandoned, apiFaults>>

(* The controller's catch. *)
RequestFails(o) ==
    /\ controller[o] # <<>> /\ apiFaults < MaxApiFaults
    /\ Head(controller[o]) \in Guarded(o)
    /\ controller' = [controller EXCEPT ![o] = MarkOperationAsFailed]
    /\ caught' = [caught EXCEPT ![o] = TRUE]
    /\ apiFaults' = apiFaults + 1
    /\ UNCHANGED <<requested, running, idStatus, opRow, cacheOfApi, answered, storedLocally, abandoned>>

(* An exception no try catches ends the process, or it is killed; the      *)
(* commands of a restarted node do not include those of its controllers    *)
(* (see CommandExecutor).                                                  *)
ProcessEnds ==
    /\ apiFaults < MaxApiFaults /\ apiFaults' = apiFaults + 1
    /\ \E o \in Operations : controller[o] # <<>> \/ running[o] # <<>>
    /\ abandoned' = [o \in Operations |->
                       abandoned[o] \/ controller[o] # <<>> \/ running[o] # <<>>]
    /\ controller' = [o \in Operations |-> <<>>] /\ running' = [o \in Operations |-> <<>>]
    /\ inMemory' = [o \in Operations |-> "none"]
    /\ UNCHANGED <<requested, idStatus, opRow, inFile, answered, storedLocally, caught>>

ApiNext ==
    \/ \E o \in Operations : HandleHttpRequest(o) \/ ControllerStep(o) \/ CommandStep(o) \/ RequestFails(o)
    \/ ProcessEnds

(* A controller's and a command's promises go on. *)
ApiSpec ==
    /\ ApiInit /\ [][ApiNext]_apiVars
    /\ \A o \in Operations : WF_apiVars(ControllerStep(o)) /\ WF_apiVars(CommandStep(o))

-----------------------------------------------------------------------------
(* What the result controllers return for an operation; undefined data is  *)
(* "none".                                                                 *)
GetCachedData(o) == IF inMemory[o] # "none" THEN inMemory[o] ELSE inFile[o]
ResultV1(o) ==
    [status |-> idStatus[o],
     data |-> IF idStatus[o] = "COMPLETED" /\ requested[o] = "get" THEN GetCachedData(o)
              ELSE "none"]
ResultV0(o) ==
    [status |-> idStatus[o],
     data |-> IF idStatus[o] = "COMPLETED" THEN GetCachedData(o) ELSE "none"]

(***************************************************************************)
(* Properties                                                              *)
(***************************************************************************)

(* Every operation is in a state the controllers and commands write. *)
ApiTypeOK ==
    \A o \in Operations :
      /\ requested[o] \in Requests \cup {"none"}
      /\ idStatus[o] \in {"none", "START", "INIT_START", "INIT_END", "ASK_END", "STARTED",
                          "ENDED"} \cup Verdicts
      /\ opRow[o] \in {"none", "IN_PROGRESS"} \cup Verdicts
      /\ {inMemory[o], inFile[o]} \subseteq {"none", "input", "result"}
      /\ abandoned[o] => requested[o] # "none" /\ controller[o] = <<>>
      /\ requested[o] = "store" => opRow[o] = "none" /\ "pending" \notin ToSet(controller[o])

(* A client that reads COMPLETED for its get is given the result by both   *)
(* result controllers, also after a restart: the data is cached before     *)
(* the status is written.  Only a controller whose status after the add    *)
(* threw drops the result of a get its command had completed.              *)
CompletedHasResult ==
    \A o \in Operations :
      requested[o] = "get" /\ idStatus[o] = "COMPLETED" /\ ~caught[o] =>
        ResultV1(o).data = "result" /\ ResultV0(o).data = "result"

(* The rows of an operation agree, the same controller apart: a completed  *)
(* id is that of a completed operation, and no failed id that of one       *)
(* (find-shard-command.js:98 fails the id, the operation is in progress).  *)
RowsAgree ==
    \A o \in Operations : requested[o] \in {"publish", "get"} /\ ~caught[o] =>
      /\ idStatus[o] = "COMPLETED" => opRow[o] = "COMPLETED"
      /\ idStatus[o] = "FAILED" => opRow[o] # "COMPLETED"

(* A local store told as completed is in the triple store. *)
StoreIsThere ==
    \A o \in Operations :
      requested[o] = "store" /\ idStatus[o] = "COMPLETED" => storedLocally[o]

(* A command that reads the data its controller cached finds it: the       *)
(* controller adds it after the cache is written, in a file that outlives  *)
(* the memory, and nothing drops it before the command's verdict.          *)
CommandHasInput ==
    \A o \in Operations :
      requested[o] \in {"publish", "store"} /\ running[o] # <<>>
        /\ Head(running[o]) \in {"shard", "work", "insert"} =>
          GetCachedData(o) = "input"

(* A verdict is replaced only for a get or an ask, whose controllers write *)
(* a status of their own after they added the command, or mark as failed   *)
(* an operation whose command goes on; the verdict of a publish or of a    *)
(* local store stays.                                                      *)
VerdictStays ==
    [][\A o \in Operations :
         HasVerdict(idStatus[o]) /\ idStatus'[o] # idStatus[o] =>
           /\ requested[o] \in {"get", "ask"}
           /\ controller'[o] # controller[o] \/ caught[o]]_apiVars

(* A client that was given the id of a publish or of a local store reads a *)
(* verdict in the end, unless the process ended meanwhile.                 *)
AnsweredEnds ==
    \A o \in Operations :
      answered[o] /\ requested[o] \in {"publish", "store"} ~>
        HasVerdict(idStatus[o]) \/ abandoned[o]

(* The rows, the cache and the triple store agree about an operation, between
   any two steps of its controller and its commands. *)
ApiInv == CompletedHasResult /\ RowsAgree /\ StoreIsThere /\ CommandHasInput
=============================================================================
