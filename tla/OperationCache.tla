--------------------------- MODULE OperationCache ---------------------------
(***************************************************************************)
(* What the client of a node asks for and polls: an operation id, its row, *)
(* and the data of a completed operation, cached in memory and in a file   *)
(* (service/operation-id-service.js), by the example of a query.  The      *)
(* cleaner removes rows, memory entries and files by age, one after the    *)
(* other; the node may restart at any point, which empties the memory and  *)
(* leaves the command of a running query behind (see CommandExecutor).     *)
(***************************************************************************)
EXTENDS Naturals, FiniteSets

CONSTANTS
    Queries,
    Expiry,             \* OPERATION_ID_COMMAND_CLEANUP_TIME_MILLS, in ticks
    MaxTime, MaxRestarts, MaxCacheFaults        \* bounds

ASSUME CacheAssumption ==
    /\ Expiry \in Nat /\ MaxTime \in Nat /\ MaxRestarts \in Nat /\ MaxCacheFaults \in Nat

Never == MaxTime + 1        \* no such entry; compares as not expired

VARIABLES
    time,
    queryAt,        \* per query: how far the controller and the command are
    status, born,   \* per query: its row in operation_ids, "none" if there is none
    memory, file,   \* per query: when the data was cached there, or Never
    cleaning,       \* the place of the cleaner
    listed, stated, \* the cleaner's file list, and those found to be expired
    pollAt, polled, reply,      \* the result controller: place, query, last reply
    restarts, cacheFaults

rowVars == <<status, born>>
cleaningVars == <<cleaning, listed, stated>>
pollVars == <<pollAt, polled, reply>>
cacheVars == <<time, queryAt, rowVars, memory, file, cleaningVars, pollVars,
               restarts, cacheFaults>>

Running == {"init", "command", "file", "completing", "failing", "failed"}
NoReply == [status |-> "none", data |-> FALSE, age |-> 0]

CacheInit ==
    /\ time = 0
    /\ queryAt = [q \in Queries |-> "new"]
    /\ status = [q \in Queries |-> "none"] /\ born = [q \in Queries |-> 0]
    /\ memory = [q \in Queries |-> Never] /\ file = [q \in Queries |-> Never]
    /\ cleaning = "idle" /\ listed = {} /\ stated = {}
    /\ pollAt = "idle" /\ polled \in Queries /\ reply = NoReply
    /\ restarts = 0 /\ cacheFaults = 0

Goes(q, place) == queryAt' = [queryAt EXCEPT ![q] = place]

(* An update of a row that is gone changes nothing. *)
UpdateRecord(q, s) ==
    status' = IF status[q] = "none" THEN status ELSE [status EXCEPT ![q] = s]

TimePasses ==
    /\ time < MaxTime /\ time' = time + 1
    /\ UNCHANGED <<queryAt, rowVars, memory, file, cleaningVars, pollVars, restarts, cacheFaults>>

-----------------------------------------------------------------------------
(* The query: QueryController.handleRequest, then QueryCommand.execute. *)

(* generateOperationId; the client gets the id. *)
GenerateOperationId(q) ==
    /\ queryAt[q] = "new"
    /\ status' = [status EXCEPT ![q] = "QUERY_INIT_START"]
    /\ born' = [born EXCEPT ![q] = time]
    /\ Goes(q, "init")
    /\ UNCHANGED <<time, memory, file, cleaningVars, pollVars, restarts, cacheFaults>>

ScheduleQuery(q) ==
    /\ queryAt[q] = "init"
    /\ UpdateRecord(q, "QUERY_INIT_END")
    /\ Goes(q, "command")
    /\ UNCHANGED <<time, born, memory, file, cleaningVars, pollVars, restarts, cacheFaults>>

(* Both repositories have answered: cacheOperationIdDataToMemory. *)
CacheToMemory(q) ==
    /\ queryAt[q] = "command"
    /\ memory' = [memory EXCEPT ![q] = time]
    /\ UpdateRecord(q, "QUERY_START")
    /\ Goes(q, "file")
    /\ UNCHANGED <<time, born, file, cleaningVars, pollVars, restarts, cacheFaults>>

CacheResultToFile(q) ==
    /\ queryAt[q] = "file"
    /\ file' = [file EXCEPT ![q] = time]
    /\ Goes(q, "completing")
    /\ UNCHANGED <<time, rowVars, memory, cleaningVars, pollVars, restarts, cacheFaults>>

CompleteQuery(q) ==
    /\ queryAt[q] = "completing"
    /\ UpdateRecord(q, "COMPLETED")
    /\ Goes(q, "done")
    /\ UNCHANGED <<time, born, memory, file, cleaningVars, pollVars, restarts, cacheFaults>>

(* The triple store, the file system or the database throws. *)
QueryThrows(q) ==
    /\ queryAt[q] \in {"command", "file", "completing"}
    /\ cacheFaults < MaxCacheFaults /\ cacheFaults' = cacheFaults + 1
    /\ Goes(q, "failing")
    /\ UNCHANGED <<time, rowVars, memory, file, cleaningVars, pollVars, restarts>>

(* updateOperationIdStatus with an error: first the cached data goes ... *)
RemoveOperationIdCache(q) ==
    /\ queryAt[q] = "failing"
    /\ memory' = [memory EXCEPT ![q] = Never] /\ file' = [file EXCEPT ![q] = Never]
    /\ Goes(q, "failed")
    /\ UNCHANGED <<time, rowVars, cleaningVars, pollVars, restarts, cacheFaults>>

(* ... then the row is updated. *)
FailQuery(q) ==
    /\ queryAt[q] = "failed"
    /\ UpdateRecord(q, "FAILED")
    /\ Goes(q, "done")
    /\ UNCHANGED <<time, born, memory, file, cleaningVars, pollVars, restarts, cacheFaults>>

-----------------------------------------------------------------------------
(* OperationIdCleanerCommand.execute, every Expiry. *)

MemoryExpired(stamp) == stamp + Expiry < time

(* removeOperationIdRecord: final rows that are old. *)
RemoveOperationIdRecords ==
    /\ cleaning = "idle"
    /\ status' = [q \in Queries |->
           IF status[q] \in {"COMPLETED", "FAILED"} /\ MemoryExpired(born[q]) THEN "none" ELSE status[q]]
    /\ cleaning' = "memory"
    /\ UNCHANGED <<time, queryAt, born, memory, file, listed, stated, pollVars, restarts, cacheFaults>>

RemoveExpiredMemoryCache ==
    /\ cleaning = "memory"
    /\ memory' = [q \in Queries |-> IF MemoryExpired(memory[q]) THEN Never ELSE memory[q]]
    /\ cleaning' = "files"
    /\ UNCHANGED <<time, queryAt, rowVars, file, listed, stated, pollVars, restarts, cacheFaults>>

ReadCacheDirectory ==
    /\ cleaning = "files"
    /\ listed' = {q \in Queries : file[q] # Never}
    /\ cleaning' = "deleting"
    /\ UNCHANGED <<time, queryAt, rowVars, memory, file, stated, pollVars, restarts, cacheFaults>>

(* Mutant: the cleaner deletes every file it has listed. *)
FileIsExpired_Any(q) == TRUE

(* deleteFile of a file that is gone meanwhile is a settled failure.  (Its now is
   the time of the listing; here that of the stat.) *)
FileIsExpired(q) == file[q] # Never /\ MemoryExpired(file[q])

StatFile ==
    /\ cleaning = "deleting"
    /\ \E q \in listed :
           /\ listed' = listed \ {q}
           /\ stated' = IF FileIsExpired(q) THEN stated \cup {q} ELSE stated
    /\ UNCHANGED <<time, queryAt, rowVars, memory, file, cleaning, pollVars, restarts, cacheFaults>>

RemoveFile ==
    /\ cleaning = "deleting"
    /\ \E q \in stated :
           /\ stated' = stated \ {q}
           /\ file' = [file EXCEPT ![q] = Never]
    /\ UNCHANGED <<time, queryAt, rowVars, memory, cleaning, listed, pollVars, restarts, cacheFaults>>

CleanerRepeats ==
    /\ cleaning = "deleting" /\ listed = {} /\ stated = {}
    /\ cleaning' = "idle"
    /\ UNCHANGED <<time, queryAt, rowVars, memory, file, listed, stated, pollVars, restarts, cacheFaults>>

CleanerStep ==
    \/ RemoveOperationIdRecords \/ RemoveExpiredMemoryCache \/ ReadCacheDirectory
    \/ StatFile \/ RemoveFile \/ CleanerRepeats

-----------------------------------------------------------------------------
(* ResultController.handleRequest. *)

Answers(s, data) ==
    /\ reply' = [status |-> s, data |-> data, age |-> time - born[polled]]
    /\ pollAt' = "idle" /\ polled' = polled

ReadRecord ==
    /\ pollAt = "idle"
    /\ polled' \in {q \in Queries : queryAt[q] # "new"}
    /\ IF status[polled'] = "COMPLETED"
       THEN pollAt' = "cached" /\ reply' = reply
       ELSE pollAt' = "idle"
            /\ reply' = [status |-> status[polled'], data |-> FALSE, age |-> time - born[polled']]
    /\ UNCHANGED <<time, queryAt, rowVars, memory, file, cleaningVars, restarts, cacheFaults>>

(* getCachedOperationIdData: memory, else a file if there is one; without one the
   reply is COMPLETED with no data. *)
ReadCached ==
    /\ pollAt = "cached"
    /\ \/ memory[polled] # Never /\ Answers("COMPLETED", TRUE)
       \/ memory[polled] = Never /\ file[polled] = Never /\ Answers("COMPLETED", FALSE)
       \/ memory[polled] = Never /\ file[polled] # Never
          /\ pollAt' = "file" /\ UNCHANGED <<polled, reply>>
    /\ UNCHANGED <<time, queryAt, rowVars, memory, file, cleaningVars, restarts, cacheFaults>>

(* A file that is gone meanwhile throws, and the reply is an error. *)
ReadCachedFile ==
    /\ pollAt = "file"
    /\ IF file[polled] # Never THEN Answers("COMPLETED", TRUE) ELSE Answers("ERROR", FALSE)
    /\ UNCHANGED <<time, queryAt, rowVars, memory, file, cleaningVars, restarts, cacheFaults>>

-----------------------------------------------------------------------------
NodeRestarts ==
    /\ restarts < MaxRestarts /\ restarts' = restarts + 1
    /\ queryAt' = [q \in Queries |-> IF queryAt[q] \in Running THEN "left" ELSE queryAt[q]]
    /\ memory' = [q \in Queries |-> Never]
    /\ cleaning' = "idle" /\ listed' = {} /\ stated' = {}
    /\ pollAt' = "idle"
    /\ UNCHANGED <<time, rowVars, file, polled, reply, cacheFaults>>

QueryStep(q) ==
    \/ ScheduleQuery(q) \/ CacheToMemory(q) \/ CacheResultToFile(q) \/ CompleteQuery(q)
    \/ RemoveOperationIdCache(q) \/ FailQuery(q)

CacheNext ==
    \/ TimePasses
    \/ \E q \in Queries :
           \/ GenerateOperationId(q) \/ ScheduleQuery(q) \/ CacheToMemory(q)
           \/ CacheResultToFile(q) \/ CompleteQuery(q) \/ QueryThrows(q)
           \/ RemoveOperationIdCache(q) \/ FailQuery(q)
    \/ RemoveOperationIdRecords \/ RemoveExpiredMemoryCache \/ ReadCacheDirectory
    \/ StatFile \/ RemoveFile \/ CleanerRepeats
    \/ ReadRecord \/ ReadCached \/ ReadCachedFile
    \/ NodeRestarts

CacheSpec ==
    /\ CacheInit /\ [][CacheNext]_cacheVars
    /\ WF_cacheVars(TimePasses) /\ WF_cacheVars(CleanerStep)
    /\ \A q \in Queries : WF_cacheVars(QueryStep(q))

-----------------------------------------------------------------------------
CacheTypeOK ==
    /\ time \in 0..MaxTime
    /\ queryAt \in [Queries -> Running \cup {"new", "done", "left"}]
    /\ status \in [Queries -> {"none", "QUERY_INIT_START", "QUERY_INIT_END", "QUERY_START",
                               "COMPLETED", "FAILED"}]
    /\ born \in [Queries -> 0..MaxTime]
    /\ memory \in [Queries -> 0..Never] /\ file \in [Queries -> 0..Never]
    /\ cleaning \in {"idle", "memory", "files", "deleting"}
    /\ listed \subseteq Queries /\ stated \subseteq Queries /\ listed \cap stated = {}
    /\ pollAt \in {"idle", "cached", "file"} /\ polled \in Queries
    /\ restarts \in 0..MaxRestarts /\ cacheFaults \in 0..MaxCacheFaults

(* A client that is told COMPLETED gets the data, through restarts, cleanings and
   polls that overlap them; but for operations older than the time of clean-up,
   whose data may go under a poll that has already seen the row. *)
CompletedHasData ==
    (reply.status \in {"COMPLETED", "ERROR"} /\ ~reply.data) => reply.age > Expiry

(* Whatever restarts and fails, a row that says COMPLETED has its data, until it
   is due for removal itself. *)
DataOutlivesRow ==
    \A q \in Queries :
        (status[q] = "COMPLETED" /\ memory[q] = Never /\ file[q] = Never) => MemoryExpired(born[q])

(* What was cached goes (in the time that is left), also the file of a query that
   a restart cut off and whose row stays. *)
FilesGo ==
    \A q \in Queries : file[q] + Expiry < MaxTime ~> file[q] = Never

(* An operation whose node does not restart comes to an end that is told: the
   row leaves the intermediate statuses. *)
QueryEnds ==
    \A q \in Queries :
        status[q] = "QUERY_INIT_START" ~>
            status[q] \in {"COMPLETED", "FAILED", "none"} \/ queryAt[q] = "left"

(* The row that says COMPLETED and the data it speaks of, for who polls and in
   the store. *)
CacheInv == CompletedHasData /\ DataOutlivesRow
=============================================================================
