--------------------------- MODULE NetworkOperation ---------------------------
(***************************************************************************)
(* What publish and get share on the node that runs the operation          *)
(* (src/ot-node/src/commands/protocols/common, service/operation-service): *)
(* the shard is found, its nodes are asked in batches by schedule-messages *)
(* commands, every request command sends a message, retries while the node *)
(* is busy, and hands the answer to processResponse, which records it in   *)
(* the table of responses, judges the operation from the counts it read,   *)
(* and marks it as completed or failed in three separate writes.           *)
(*                                                                         *)
(* One operation on a shard of at most MaxOthers other nodes, which are    *)
(* numbered in the order of the shard.  PublishOperation and GetOperation  *)
(* extend this module with their processResponse.                          *)
(***************************************************************************)
EXTENDS Integers, FiniteSets

CONSTANTS
    MaxOthers,    \* bound: nodes of the shard other than this one
    Membership,   \* whether this node may be, or may not be, in the shard
    BatchSize, MinAck,
    OtherMinima,  \* minima of operations whose shard is looked for meanwhile
    Retries,      \* retries of a request command
    MaxCopies,    \* bound: times a batch is scheduled
    MaxFaults     \* bound: exceptions thrown while an answer is processed

ASSUME OperationAssumption ==
    /\ MaxOthers \in Nat /\ Membership \in SUBSET BOOLEAN
    /\ BatchSize \in Nat \ {0} /\ MinAck \in Nat \ {0} /\ OtherMinima \subseteq Nat
    /\ Retries \in Nat /\ MaxCopies \in Nat \ {0} /\ MaxFaults \in Nat

Nodes == 1 .. MaxOthers
Copies == 1 .. MaxCopies
Requests == Nodes \X Copies
Local == <<0, 1>>                 \* the command that answers for this node
Responders == Requests \cup {Local}

(* A batch is named by the number of nodes before it.                      *)
Batches == {k \in 0 .. MaxOthers : k % BatchSize = 0} \X Copies
BatchOf(n) == ((n - 1) \div BatchSize) * BatchSize

VARIABLES
    phase,      \* how far the sequence of the operation is
    others,     \* nodes found, other than this one
    inShard,    \* this node was found too
    sched,      \* schedule-messages commands
    place,      \* where the command of a responder is
    tries,      \* its retries column; -1 while its recover() runs
    seen,       \* the answer it recorded and the counts it read with it
    completed, failed,  \* rows of the table of responses
    minAcks,    \* minAcksReached column
    opStatus,   \* status of the operation (table of publishes, gets)
    idStatus,   \* status of the operation id: what the client is shown
    cached,     \* the operation id cache holds data
    faults

vars == <<phase, others, inShard, sched, place, tries, seen, completed, failed,
          minAcks, opStatus, idStatus, cached, faults>>
shard == <<phase, others, inShard>>
responses == <<completed, failed>>
outcome == <<minAcks, opStatus, idStatus, cached>>

(* none, then ready (queued), sent, acked or nacked (processResponse is     *)
(* called), recorded, judging, then the three writes of a verdict; lost    *)
(* when the recover() of a request throws too.                             *)
Marks == {"completing", "completeOp", "completeId", "failing", "failOp", "failId"}
Processing == {"acked", "nacked", "recorded", "judging"} \cup Marks
Places == {"none", "ready", "sent", "done", "lost"} \cup Processing

Unseen == [status |-> "none", completed |-> 0, failed |-> 0]

(* hasInput: the controller cached the dataset that is published.          *)
InitWith(hasInput) ==
    /\ phase = "finding" /\ others = 0 /\ inShard = FALSE
    /\ sched = [b \in Batches |-> "none"]
    /\ place = [r \in Responders |-> "none"]
    /\ tries = [r \in Responders |-> Retries]
    /\ seen = [r \in Responders |-> Unseen]
    /\ completed = 0 /\ failed = 0 /\ minAcks = FALSE
    /\ opStatus = "IN_PROGRESS" /\ idStatus = "running" /\ cached = hasInput
    /\ faults = 0

(* numberOfFoundNodes counts this node when it is in the shard.            *)
Found == others + (IF inShard THEN 1 ELSE 0)

(* leftoverNodes of a command: the nodes after its batch; all the others   *)
(* for the local one.                                                      *)
LeftFrom(r) == IF r = Local THEN 0 ELSE BatchOf(r[1]) + BatchSize
Left(r) == IF LeftFrom(r) < others THEN others - LeftFrom(r) ELSE 0

-----------------------------------------------------------------------------
(* Finding the shard and asking a batch                                    *)

(* The minimum is a field of the command, which all operations share, set  *)
(* before the nodes are looked for: another operation may set its own.     *)
MinimumRead == {MinAck} \cup OtherMinima

FindShard(m, member) ==
    /\ phase = "finding"
    /\ \E minimum \in MinimumRead : m + (IF member THEN 1 ELSE 0) >= minimum
    /\ phase' = "found" /\ others' = m /\ inShard' = member
    /\ UNCHANGED <<sched, place, tries, seen, responses, outcome, faults>>

(* Too few nodes: handleError reports the operation id as failed.          *)
TooFewNodes(m, member) ==
    /\ phase = "finding"
    /\ \E minimum \in MinimumRead : m + (IF member THEN 1 ELSE 0) < minimum
    /\ phase' = "over" /\ idStatus' = "FAILED" /\ cached' = FALSE
    /\ UNCHANGED <<others, inShard, sched, place, tries, seen, responses, minAcks,
                   opStatus, faults>>

(* The input is refused: markOperationAsFailed before any node is asked.    *)
Refuse(when) ==
    /\ phase = when
    /\ phase' = "over"
    /\ opStatus' = "FAILED" /\ idStatus' = "FAILED" /\ cached' = FALSE
    /\ UNCHANGED <<others, inShard, sched, place, tries, seen, responses, minAcks, faults>>

(* The next schedule-messages command for the nodes after the first k.     *)
Scheduled(k) ==
    \E c \in Copies :
        /\ sched[<<k, c>>] = "none"
        /\ \A d \in 1 .. (c - 1) : sched[<<k, d>>] # "none"
        /\ sched' = [sched EXCEPT ![<<k, c>>] = "waiting"]

StartSchedule(b) ==
    /\ sched[b] = "waiting"
    /\ sched' = [sched EXCEPT ![b] = "adding"]
    /\ idStatus' = "running"
    /\ UNCHANGED <<shard, place, tries, seen, responses, minAcks, opStatus, cached, faults>>

(* The request commands of a batch are inserted side by side, each of them *)
(* may run before the others are there.                                    *)
AddRequest(r) ==
    /\ r \in Requests
    /\ r[1] <= others
    /\ sched[<<BatchOf(r[1]), r[2]>>] = "adding"
    /\ place[r] = "none"
    /\ place' = [place EXCEPT ![r] = "ready"]
    /\ UNCHANGED <<shard, sched, tries, seen, responses, outcome, faults>>

EndSchedule(b) ==
    /\ sched[b] = "adding"
    /\ \A n \in Nodes : n <= others /\ BatchOf(n) = b[1] => place[<<n, b[2]>>] # "none"
    /\ sched' = [sched EXCEPT ![b] = "done"]
    /\ idStatus' = "running"
    /\ UNCHANGED <<shard, place, tries, seen, responses, minAcks, opStatus, cached, faults>>

ScheduleStep(b) == StartSchedule(b) \/ EndSchedule(b)

-----------------------------------------------------------------------------
(* A request command                                                       *)

Moved(r, p) == place' = [place EXCEPT ![r] = p]

Send(r) ==
    /\ r \in Requests
    /\ place[r] = "ready"
    /\ Moved(r, "sent")
    /\ UNCHANGED <<shard, sched, tries, seen, responses, outcome, faults>>

Busy_NoLimit(r) ==
    /\ place[r] = "sent"
    /\ Moved(r, "ready") /\ tries' = [tries EXCEPT ![r] = @ - 1]
    /\ UNCHANGED <<shard, sched, seen, responses, outcome, faults>>

(* BUSY: the command is retried; when no retry is left retryFinished marks *)
(* the response as failed.                                                 *)
Busy(r) ==
    /\ place[r] = "sent"
    /\ IF tries[r] > 1
       THEN Moved(r, "ready") /\ tries' = [tries EXCEPT ![r] = @ - 1]
       ELSE Moved(r, "nacked") /\ UNCHANGED tries
    /\ UNCHANGED <<shard, sched, seen, responses, outcome, faults>>

(* ACK; or NACK, which is also what a timeout and a failed dial amount to. *)
Answered(r) ==
    /\ place[r] = "sent"
    /\ Moved(r, "acked") \/ Moved(r, "nacked")
    /\ UNCHANGED <<shard, sched, tries, seen, responses, outcome, faults>>

(* execute() of a request threw: it is retried, and with no retry left its *)
(* recover() marks the response as failed.                                 *)
Thrown(r) ==
    IF tries[r] > 0
    THEN Moved(r, "ready") /\ tries' = [tries EXCEPT ![r] = @ - 1]
    ELSE Moved(r, "nacked") /\ tries' = [tries EXCEPT ![r] = -1]

(* The database fails while an answer is processed; the executor only logs *)
(* an exception of recover().                                              *)
Fault(r) ==
    /\ r \in Requests
    /\ faults < MaxFaults
    /\ faults' = faults + 1
    /\ place[r] \in Processing
    /\ IF tries[r] = -1 THEN Moved(r, "lost") /\ UNCHANGED tries ELSE Thrown(r)
    /\ UNCHANGED <<shard, sched, seen, responses, outcome>>

-----------------------------------------------------------------------------
(* operation-service                                                       *)

(* getResponsesStatuses: under the mutex the response is inserted and the  *)
(* responses are counted; the counts are used after the mutex is released. *)
Record(r) ==
    LET status == IF place[r] = "acked" THEN "COMPLETED" ELSE "FAILED"
    IN /\ place[r] \in {"acked", "nacked"}
       /\ completed' = completed + (IF status = "COMPLETED" THEN 1 ELSE 0)
       /\ failed' = failed + (IF status = "FAILED" THEN 1 ELSE 0)
       /\ seen' = [seen EXCEPT ![r] = [status |-> status, completed |-> completed',
                                       failed |-> failed']]
       /\ Moved(r, "recorded")
       /\ UNCHANGED <<shard, sched, tries, outcome, faults>>

Total(r) == seen[r].completed + seen[r].failed

(* markOperationAsCompleted and markOperationAsFailed write the cache, the *)
(* status of the operation and the status of the operation id in turn;     *)
(* keeps is whether a completed operation caches its result.               *)
MarkCache(r, keeps) ==
    /\ place[r] \in {"completing", "failing"}
    /\ cached' = (keeps /\ place[r] = "completing")
    /\ Moved(r, IF place[r] = "completing" THEN "completeOp" ELSE "failOp")
    /\ UNCHANGED <<shard, sched, tries, seen, responses, minAcks, opStatus, idStatus, faults>>

MarkOperation(r) ==
    /\ place[r] \in {"completeOp", "failOp"}
    /\ opStatus' = IF place[r] = "completeOp" THEN "COMPLETED" ELSE "FAILED"
    /\ Moved(r, IF place[r] = "completeOp" THEN "completeId" ELSE "failId")
    /\ UNCHANGED <<shard, sched, tries, seen, responses, minAcks, idStatus, cached, faults>>

(* A failed operation id has its cache removed once more.                  *)
MarkOperationId(r) ==
    /\ place[r] \in {"completeId", "failId"}
    /\ idStatus' = IF place[r] = "completeId" THEN "COMPLETED" ELSE "FAILED"
    /\ cached' = (cached /\ place[r] = "completeId")
    /\ Moved(r, "done")
    /\ UNCHANGED <<shard, sched, tries, seen, responses, minAcks, opStatus, faults>>

-----------------------------------------------------------------------------
(* Notions the properties are stated with                                  *)

(* Nodes whose positive answer is in the table; nodes not yet heard of.    *)
Ackers == {r[1] : r \in {q \in Responders : seen[q].status = "COMPLETED"}}
Heard == {r[1] : r \in {q \in Responders : seen[q].status # "none"}}
Asked == 1 .. others

Decided == opStatus # "IN_PROGRESS"

ShardTypeOK ==
    /\ others \in 0 .. MaxOthers /\ inShard \in BOOLEAN
    /\ sched \in [Batches -> {"none", "waiting", "adding", "done"}]
    /\ place \in [Responders -> Places]
    /\ tries \in [Responders -> -1 .. Retries]
    /\ seen \in [Responders -> [status : {"none", "COMPLETED", "FAILED"},
                                completed : Nat, failed : Nat]]
    /\ completed \in Nat /\ failed \in Nat /\ minAcks \in BOOLEAN
    /\ opStatus \in {"IN_PROGRESS", "COMPLETED", "FAILED"}
    /\ idStatus \in {"running", "COMPLETED", "FAILED"}
    /\ cached \in BOOLEAN /\ faults \in 0 .. MaxFaults
=============================================================================
