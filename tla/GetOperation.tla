----------------------------- MODULE GetOperation -----------------------------
(***************************************************************************)
(* The get operation on the node that serves it: getValidateAssetCommand,  *)
(* getFindShardCommand, localGetCommand when the node is in the shard,     *)
(* networkGetCommand when the assertion is not found there, and            *)
(* get-service's processResponse.  A node that misses the assertion does   *)
(* not record a response, although it is counted in numberOfFoundNodes.    *)
(***************************************************************************)
EXTENDS NetworkOperation

Init == InitWith(FALSE)

(* getValidateAssetCommand: the id is not that of an asset.                *)
Invalid == Refuse("finding")

(* localGetCommand found the assertion and marks the operation as           *)
(* completed, missed it and goes on, or threw and recovers.                *)
LocalStep(to) ==
    /\ phase = "found" /\ inShard
    /\ phase' = to
    /\ UNCHANGED <<others, inShard, sched, tries, seen, responses, outcome, faults>>

LocalHit == LocalStep("local") /\ Moved(Local, "completing")
LocalMiss == LocalStep("missed") /\ UNCHANGED place
LocalThrows == LocalStep("local") /\ Moved(Local, "failing")

LocalGet == LocalHit \/ LocalMiss \/ LocalThrows

(* A write of localGetCommand's verdict threw: the command has no retries, *)
(* its recover() marks the operation as failed.                            *)
LocalFault ==
    /\ place[Local] \in Marks
    /\ faults < MaxFaults
    /\ faults' = faults + 1
    /\ IF tries[Local] = -1
       THEN Moved(Local, "lost") /\ UNCHANGED tries
       ELSE Moved(Local, "failing") /\ tries' = [tries EXCEPT ![Local] = -1]
    /\ UNCHANGED <<shard, sched, seen, responses, outcome>>

NetworkGet ==
    /\ phase = "missed" \/ (phase = "found" /\ ~inShard)
    /\ phase' = "asking"
    /\ Scheduled(0)
    /\ UNCHANGED <<others, inShard, place, tries, seen, responses, outcome, faults>>

(* shouldSendMessage: a request whose operation is decided is skipped, and *)
(* records no response.                                                    *)
SendGet(r) ==
    \/ opStatus = "IN_PROGRESS" /\ Send(r)
    \/ /\ opStatus # "IN_PROGRESS"
       /\ place[r] = "ready"
       /\ Moved(r, "done")
       /\ UNCHANGED <<shard, sched, tries, seen, responses, outcome, faults>>

-----------------------------------------------------------------------------
(* processResponse, from the counts of the recording                       *)

(* Mutants: a failed response may be the one that completes the operation;  *)
(* one more than the minimum is needed.                                    *)
IsEnough_AnyStatus(r) == seen[r].completed = MinAck
IsEnough(r) == seen[r].status = "COMPLETED" /\ seen[r].completed = MinAck

(* Mutant: only the last response ends a batch.                            *)
EndOfBatch_AllOnly(r) == Total(r) = Found
EndOfBatch(r) == Total(r) = Found \/ Total(r) % BatchSize = 0

(* Mutant: only full batches are scheduled.                                *)
MayGoOn_FullBatch(r) == Left(r) >= BatchSize
MayGoOn(r) == Left(r) > 0 /\ seen[r].completed + Left(r) >= MinAck

IsShort(r) == seen[r].completed < MinAck

JudgeEnough(r) ==
    /\ place[r] = "recorded" /\ IsEnough(r)
    /\ Moved(r, "completing")
    /\ UNCHANGED <<shard, sched, tries, seen, responses, outcome, faults>>

JudgeNextBatch(r) ==
    /\ place[r] = "recorded" /\ ~IsEnough(r)
    /\ IsShort(r) /\ EndOfBatch(r) /\ MayGoOn(r)
    /\ Scheduled(LeftFrom(r))
    /\ Moved(r, "done")
    /\ UNCHANGED <<shard, tries, seen, responses, outcome, faults>>

JudgeHopeless(r) ==
    /\ place[r] = "recorded" /\ ~IsEnough(r)
    /\ IsShort(r) /\ EndOfBatch(r) /\ ~MayGoOn(r)
    /\ Moved(r, "failing")
    /\ UNCHANGED <<shard, sched, tries, seen, responses, outcome, faults>>

JudgeNothing(r) ==
    /\ place[r] = "recorded" /\ ~IsEnough(r)
    /\ ~(IsShort(r) /\ EndOfBatch(r))
    /\ Moved(r, "done")
    /\ UNCHANGED <<shard, sched, tries, seen, responses, outcome, faults>>

-----------------------------------------------------------------------------
Process(r) ==
    \/ Record(r)
    \/ JudgeEnough(r) \/ JudgeNextBatch(r) \/ JudgeHopeless(r) \/ JudgeNothing(r)
    \/ MarkCache(r, TRUE) \/ MarkOperation(r) \/ MarkOperationId(r)

Begin ==
    \/ \E m \in 0 .. MaxOthers, member \in Membership :
          TooFewNodes(m, member) \/ FindShard(m, member)
    \/ Invalid \/ LocalGet \/ NetworkGet

RequestStep(r) == AddRequest(r) \/ SendGet(r) \/ Busy(r) \/ Answered(r) \/ Process(r)

Next ==
    \/ Begin
    \/ \E r \in Responders : RequestStep(r) \/ Fault(r)
    \/ \E b \in Batches : ScheduleStep(b)
    \/ LocalFault

Spec == Init /\ [][Next]_vars

(* The executor runs every command, and a request gets an answer, a NACK   *)
(* after a timeout at the latest.                                          *)
Fairness ==
    /\ WF_vars(Begin)
    /\ \A r \in Responders : WF_vars(RequestStep(r))
    /\ \A b \in Batches : WF_vars(ScheduleStep(b))

FairSpec == Spec /\ Fairness

-----------------------------------------------------------------------------
(* Properties                                                              *)

TypeOK ==
    /\ phase \in {"finding", "found", "local", "missed", "asking", "over"}
    /\ ShardTypeOK

(* Nothing was thrown while an answer was processed or a verdict written.   *)
Undisturbed == faults = 0

(* At most one response is marking the operation: the result that is       *)
(* cached is not overwritten by that of a second verdict, nor by the data  *)
(* of a failed response.                                                   *)
OneVerdictWriter ==
    Undisturbed =>
        \A r, q \in Responders : place[r] \in Marks /\ place[q] \in Marks => r = q

(* "Still possible to meet minAckResponses, schedule leftover nodes"       *)
(* (get-service.js:78): only at the end of a batch, so no node is asked    *)
(* twice.                                                                  *)
AskedOnce == Undisturbed => \A r \in Requests : place[r] # "none" => r[2] = 1

(* An operation shown as completed has its result in the cache, which is   *)
(* written before the status and is what the client gets.                  *)
ResultThere ==
    Undisturbed => (opStatus = "COMPLETED" \/ idStatus = "COMPLETED" => cached)

(* "Not enough potential responses to meet minAckResponses, or no leftover *)
(* nodes" (get-service.js:82): once the shard is asked, the operation gets *)
(* a verdict.                                                              *)
EventuallyDecided == []Undisturbed => (phase = "asking" ~> Decided)

(* Every get of a node outside the shard is decided, since all the nodes   *)
(* it counts are asked; and wherever it is asked, a get completes when     *)
(* enough nodes returned the assertion.                                    *)
OutsiderDecided == phase = "asking" /\ ~inShard ~> Decided
FoundIsReturned == Cardinality(Ackers) >= MinAck ~> opStatus = "COMPLETED"
GetDecided == []Undisturbed => OutsiderDecided /\ FoundIsReturned

(* The operation implements OperationVerdict; a node that finds the        *)
(* assertion locally asks and answers itself.                              *)
LocalFound ==
    phase = "local" /\ place[Local] \notin {"failing", "failOp"} /\ opStatus # "FAILED"
LocalAnswered == LocalFound /\ place[Local] # "completing"

Verdict == INSTANCE OperationVerdict WITH
    Answerers <- 0 .. MaxOthers,
    asked <- CASE phase = "asking" -> Asked
               [] LocalFound -> {0}
               [] OTHER -> {},
    acked <- IF LocalAnswered THEN {0} ELSE Ackers,
    refused <- Heard \ Ackers,
    verdict <- opStatus

ImplementsVerdict ==
    Verdict!Init /\ [][Undisturbed' => Verdict!Next]_<<Verdict!vars>>

(* Of a get of a node outside the shard, while nothing throws: every node   *)
(* is asked once, one response gives the verdict, and its result is there.  *)
GetInv == AskedOnce /\ OneVerdictWriter /\ ResultThere
=============================================================================
