--------------------------- MODULE PublishOperation ---------------------------
(***************************************************************************)
(* The publish operation on the publishing node: publishFindShardCommand,  *)
(* publishValidateAssetCommand, then localStoreCommand when the node is in *)
(* the shard (its own answer is the first response, and schedules the      *)
(* first batch) or networkPublishCommand when it is not, and               *)
(* publish-service's processResponse.                                      *)
(***************************************************************************)
EXTENDS NetworkOperation

CONSTANT IsOperationV0   \* an operation of the v0 API never stores locally
ASSUME VersionAssumption == IsOperationV0 \in BOOLEAN

(* What the client mints with, lines of two files of the operation.        *)
VARIABLES
    signers,            \* nodes with a signature of the dataset root there
    publisherSigned     \* this node has signed as the publisher

signatures == <<signers, publisherSigned>>
publishVars == <<vars, signatures>>

Init == InitWith(TRUE) /\ signers = {} /\ publisherSigned = FALSE

(* publishValidateAssetCommand found a wrong dataset root; an operation of  *)
(* the v0 API skips it.                                                    *)
Invalid == ~IsOperationV0 /\ Refuse("found")

(* localStoreCommand.  The graphs of an operation of this API are inserted *)
(* when its event comes: here the node signs, twice, and answers itself.   *)
LocalStep(from, to) ==
    /\ phase = from /\ inShard /\ ~IsOperationV0
    /\ phase' = to
    /\ UNCHANGED <<others, inShard, sched, tries, seen, responses, outcome, faults>>

StoreLocally == LocalStep("found", "storing") /\ UNCHANGED <<place, signatures>>

SignForNetwork ==
    /\ LocalStep("storing", "signing")
    /\ signers' = signers \cup {Local[1]}
    /\ UNCHANGED <<place, publisherSigned>>

SignAsPublisher ==
    /\ LocalStep("signing", "signed")
    /\ publisherSigned' = TRUE
    /\ UNCHANGED <<place, signers>>

AnswerLocally ==
    /\ LocalStep("signed", "asking")
    /\ Moved(Local, "acked")
    /\ UNCHANGED signatures

LocalStore == StoreLocally \/ SignForNetwork \/ SignAsPublisher \/ AnswerLocally

(* localStoreCommand threw: the operation id is reported as failed.        *)
LocalStoreFails ==
    /\ phase \in {"found", "storing", "signing", "signed"} /\ inShard /\ ~IsOperationV0
    /\ phase' = "over" /\ idStatus' = "FAILED" /\ cached' = FALSE
    /\ UNCHANGED <<others, inShard, sched, place, tries, seen, responses, minAcks,
                   opStatus, faults>>

NetworkPublish ==
    /\ phase = "found" /\ (~inShard \/ IsOperationV0)
    /\ phase' = "asking"
    /\ Scheduled(0)
    /\ UNCHANGED <<others, inShard, place, tries, seen, responses, outcome, faults>>

(* prepareMessage reads the dataset from the cache, and throws when it is  *)
(* gone.                                                                   *)
SendStore(r) ==
    \/ cached /\ Send(r)
    \/ /\ ~cached /\ r \in Requests /\ place[r] = "ready"
       /\ Thrown(r)
       /\ UNCHANGED <<shard, sched, seen, responses, outcome, faults>>

(* handleAck appends the signature of the node before its answer is        *)
(* processed ...                                                           *)
AnsweredSigned(r) ==
    /\ Answered(r)
    /\ signers' = IF place'[r] = "acked" THEN signers \cup {r[1]} ELSE signers
    /\ UNCHANGED publisherSigned

(* ... or cannot, and the command is retried.                              *)
SigningFails(r) ==
    /\ place[r] = "sent" /\ faults < MaxFaults
    /\ faults' = faults + 1
    /\ Thrown(r)
    /\ UNCHANGED <<shard, sched, seen, responses, outcome>>

-----------------------------------------------------------------------------
(* processResponse, from the counts of the recording                       *)

(* Mutants: all responses count; one more than the minimum is needed.      *)
CheckMinAcks_Total(r) ==
    /\ place[r] = "recorded"
    /\ minAcks' = (minAcks \/ Total(r) = MinAck)
    /\ Moved(r, "judging")
    /\ UNCHANGED <<shard, sched, tries, seen, responses, opStatus, idStatus, cached, faults>>
CheckMinAcks_OneMore(r) ==
    /\ place[r] = "recorded"
    /\ minAcks' = (minAcks \/ seen[r].completed = MinAck + 1)
    /\ Moved(r, "judging")
    /\ UNCHANGED <<shard, sched, tries, seen, responses, opStatus, idStatus, cached, faults>>

(* 1. the minimum replication is reached                                   *)
CheckMinAcks(r) ==
    /\ place[r] = "recorded"
    /\ minAcks' = (minAcks \/ seen[r].completed = MinAck)
    /\ Moved(r, "judging")
    /\ UNCHANGED <<shard, sched, tries, seen, responses, opStatus, idStatus, cached, faults>>

AllResponded(r) == Total(r) = Found

(* Mutants: the local response is not accounted for; every response ends a *)
(* batch.                                                                  *)
EndOfBatch_NotShifted(r) == Total(r) % BatchSize = 0
EndOfBatch_Always(r) == TRUE
EndOfBatch(r) == (Total(r) - 1) % BatchSize = 0

(* Mutant: the leftover nodes are not counted.                             *)
CanStillReach_NoLeftover(r) == seen[r].completed >= MinAck
CanStillReach(r) == seen[r].completed + Left(r) >= MinAck

(* 2. all responses have arrived: the verdict                              *)
JudgeAll(r) ==
    /\ place[r] = "judging" /\ AllResponded(r)
    /\ Moved(r, IF seen[r].completed >= MinAck THEN "completing" ELSE "failing")
    /\ UNCHANGED <<shard, sched, tries, seen, responses, outcome, faults>>

(* 3.1 the leftover nodes are scheduled                                    *)
JudgeNextBatch(r) ==
    /\ place[r] = "judging" /\ ~AllResponded(r)
    /\ Left(r) > 0 /\ CanStillReach(r) /\ EndOfBatch(r)
    /\ Scheduled(LeftFrom(r))
    /\ Moved(r, "done")
    /\ UNCHANGED <<shard, tries, seen, responses, outcome, faults>>

(* 3.2 the minimum replication cannot be reached                           *)
JudgeHopeless(r) ==
    /\ place[r] = "judging" /\ ~AllResponded(r)
    /\ ~CanStillReach(r) /\ EndOfBatch(r)
    /\ Moved(r, "failing")
    /\ UNCHANGED <<shard, sched, tries, seen, responses, outcome, faults>>

JudgeNothing(r) ==
    /\ place[r] = "judging" /\ ~AllResponded(r)
    /\ EndOfBatch(r) => Left(r) = 0 /\ CanStillReach(r)
    /\ Moved(r, "done")
    /\ UNCHANGED <<shard, sched, tries, seen, responses, outcome, faults>>

(* localStoreCommand catches what its processResponse throws, and reports  *)
(* the operation id as failed.                                             *)
LocalFault ==
    /\ place[Local] \in Processing
    /\ faults < MaxFaults
    /\ faults' = faults + 1
    /\ Moved(Local, "done")
    /\ idStatus' = "FAILED" /\ cached' = FALSE
    /\ UNCHANGED <<shard, sched, tries, seen, responses, minAcks, opStatus>>

-----------------------------------------------------------------------------
(* Everything processResponse does after recording.                        *)
Process(r) ==
    \/ Record(r) \/ CheckMinAcks(r)
    \/ JudgeAll(r) \/ JudgeNextBatch(r) \/ JudgeHopeless(r) \/ JudgeNothing(r)
    \/ MarkCache(r, FALSE) \/ MarkOperation(r) \/ MarkOperationId(r)

Begin ==
    \/ /\ \/ \E m \in 0 .. MaxOthers, member \in Membership :
                TooFewNodes(m, member) \/ FindShard(m, member)
          \/ Invalid \/ LocalStoreFails \/ NetworkPublish
       /\ UNCHANGED signatures
    \/ LocalStore

RequestStep(r) ==
    \/ (AddRequest(r) \/ SendStore(r) \/ Busy(r) \/ Process(r)) /\ UNCHANGED signatures
    \/ AnsweredSigned(r)

Disturb ==
    /\ \/ \E r \in Responders : Fault(r) \/ SigningFails(r)
       \/ LocalFault
    /\ UNCHANGED signatures

Next ==
    \/ Begin
    \/ \E r \in Responders : RequestStep(r)
    \/ (\E b \in Batches : ScheduleStep(b)) /\ UNCHANGED signatures
    \/ Disturb

Spec == Init /\ [][Next]_publishVars

(* The executor runs every command, and a request gets an answer, a NACK   *)
(* after a timeout at the latest.                                          *)
Fairness ==
    /\ WF_publishVars(Begin)
    /\ \A r \in Responders : WF_publishVars(RequestStep(r))
    /\ \A b \in Batches : WF_publishVars(ScheduleStep(b) /\ UNCHANGED signatures)

FairSpec == Spec /\ Fairness

-----------------------------------------------------------------------------
(* Properties                                                              *)

TypeOK ==
    /\ phase \in {"finding", "found", "storing", "signing", "signed", "asking", "over"}
    /\ signers \subseteq 0 .. MaxOthers /\ publisherSigned \in BOOLEAN
    /\ ShardTypeOK

(* Nothing was thrown while an answer was processed (a request that is     *)
(* retried after its response was recorded is counted twice), and this     *)
(* node answers first (the ends of the batches are computed for that; of   *)
(* the v0 API it never does).                                              *)
Undisturbed == faults = 0 /\ (phase = "asking" => inShard /\ ~IsOperationV0)

(* "1. Check minimum replication reached" (publish-service.js:66): the      *)
(* client is told so, and mints, only when MinAck different nodes stored   *)
(* and signed the dataset.                                                 *)
MinAcksDistinct == minAcks => Cardinality(Ackers) >= MinAck

(* The same for a node of the shard, as long as nothing throws.            *)
MinAcksTold == Undisturbed => MinAcksDistinct

(* "3.2 If minimum replication cannot be reached and it's end of a batch,  *)
(* mark as failed" (publish-service.js:107): a publish fails only when the *)
(* nodes it has not heard of could not make up the minimum any more (a node *)
(* of the shard, as long as nothing throws).                               *)
MemberFailedIsHopeless ==
    (Undisturbed /\ phase = "asking" /\ opStatus = "FAILED")
    => Cardinality(Ackers) + Found - Cardinality(Heard) < MinAck

(* "3.1 ... scheduling leftover nodes (and it's at the end of a batch)"    *)
(* (publish-service.js:102): the next batch is scheduled once, after every *)
(* node of the one before it, so no node is asked twice.                   *)
AskedOnce == Undisturbed => \A r \in Requests : place[r] # "none" => r[2] = 1

(* What the client is shown of a decided operation id is the verdict of    *)
(* the operation (the last write of a schedule-messages command may still  *)
(* show it as running).                                                    *)
ReportAgrees ==
    (Undisturbed /\ phase = "asking" /\ idStatus # "running") => idStatus = opStatus

(* The dataset stays in the cache until every request has read it: the     *)
(* verdict that removes it never overtakes a request.                      *)
DatasetThere == Undisturbed => \A r \in Requests : place[r] = "ready" => cached

(* Whatever fails while its answer is processed, and even when the dataset *)
(* is gone before it is sent, a request that is over has left a response,  *)
(* so the counts the verdict waits for are reached (only an exception of   *)
(* recover(), the last resort, loses it).                                  *)
NoLostResponse == \A r \in Requests : place[r] = "done" => seen[r].status # "none"

(* "2. Check if all responses have been received" (publish-service.js:74): *)
(* a publish that asks the network gets a verdict.                         *)
EventuallyDecided == []Undisturbed => (phase = "asking" ~> Decided)

(* A positive answer that counts has its signature in the file already, and *)
(* a node of the shard has signed as the publisher before the client is    *)
(* told to mint (an operation of the v0 API apart): the result route reads *)
(* both as soon as minAcksReached shows                                    *)
(* (result-http-api-controller-v1.js:48).                                  *)
SignaturesThere ==
    /\ Ackers \subseteq signers
    /\ minAcks /\ inShard /\ ~IsOperationV0 => publisherSigned

(* The client learns that the minimum replication is reached.              *)
MinAcksReported == [](faults = 0) => (Cardinality(Ackers) >= MinAck ~> minAcks)

(* The operation implements OperationVerdict, as long as it is undisturbed. *)
Verdict == INSTANCE OperationVerdict WITH
    Answerers <- 0 .. MaxOthers,
    asked <- IF phase = "asking"
             THEN Asked \cup (IF inShard THEN {0} ELSE {}) ELSE {},
    acked <- Ackers,
    refused <- Heard \ Ackers,
    verdict <- opStatus

ImplementsVerdict ==
    Verdict!Init /\ [][Undisturbed' => Verdict!Next]_<<Verdict!vars>>

(* Whatever throws, a request that is over left a response and an answer   *)
(* that counts left its signature; and of a publish of a node of the shard,*)
(* while nothing throws, every node is asked once, the dataset is there    *)
(* when it is, and the client reads the verdict.                           *)
PublishInv == AskedOnce /\ DatasetThere /\ NoLostResponse /\ ReportAgrees /\ SignaturesThere
=============================================================================
