-------------------------- MODULE GetOperationProofs --------------------------
(***************************************************************************)
(* Proofs about GetOperation, for every shard, batch size, minimum and     *)
(* number of retries: its types, that one response at most writes the      *)
(* verdict, that no node is asked twice and that a completed get has its   *)
(* result, and, for the minimum the code uses, that it implements          *)
(* OperationVerdict.                                                       *)
(***************************************************************************)
EXTENDS GetOperation, NetworkOperationProofs

-----------------------------------------------------------------------------
(* The inductive invariant                                                 *)

(* Before the shard is asked no request is there; this node's own command  *)
(* only writes a verdict, and only if it has read the assertion itself.    *)
PhaseInv ==
    /\ phase # "asking" => Blank
    /\ phase # "local" => place[Local] = "none"
    /\ place[Local] \in {"none", "done", "lost"} \cup Marks
    /\ phase \in {"finding", "found", "missed"} => opStatus = "IN_PROGRESS" /\ idStatus = "running"
    /\ phase = "over" => opStatus # "COMPLETED" /\ idStatus # "COMPLETED"

Completing == {"completing", "completeOp", "completeId"}
Failing == {"failing", "failOp", "failId"}

(* The response that reached the minimum: the one that read this count of  *)
(* positive answers, itself included.                                      *)
Enough(r) == seen[r].status = "COMPLETED" /\ seen[r].completed = MinAck
CompletedApart ==
    \A r, q \in Responders :
        /\ seen[r].status = "COMPLETED" /\ seen[q].status = "COMPLETED"
        /\ seen[r].completed = seen[q].completed
        => r = q

(* A responder whose counts are those of the end of its batch, or of all   *)
(* the nodes that are asked.                                               *)
Final(r) == HasAnswered(r) /\ (IsLast(0, r) \/ Total(r) = others)

(* What a verdict that is written, or is being written, rests on.          *)
Verdicts ==
    /\ \A r \in Responders :
          /\ place[r] \in {"recorded"} \cup Marks => HasAnswered(r)
          /\ place[r] \in Completing => Enough(r)
          /\ place[r] \in Failing => Final(r)
          /\ place[r] \in {"completing", "completeOp", "failing", "failOp"} => ~Decided
          /\ place[r] \in {"completeOp", "completeId"} => cached
          /\ place[r] = "completeId" => opStatus = "COMPLETED"
          /\ place[r] = "failId" => opStatus = "FAILED"
    /\ idStatus = "COMPLETED" => opStatus = "COMPLETED"
    /\ opStatus = "COMPLETED" =>
          /\ cached
          /\ \E r \in Responders : Enough(r) /\ place[r] \in {"completeId", "done"}

(* The operation is being failed: no answer is awaited any more, there are *)
(* not enough, and nobody else will judge the end of a batch.              *)
Doomed == opStatus = "FAILED" \/ \E r \in Responders : place[r] \in Failing
Hopeless ==
    Doomed =>
        /\ Quiet /\ completed < MinAck /\ others - failed < MinAck
        /\ \A r \in Responders : Final(r) => place[r] # "recorded"

(* The verdict of a get that this node serves itself.                      *)
LocalVerdict ==
    /\ place[Local] \in Marks \cup {"done"}
    /\ place[Local] \in {"completing", "completeOp", "failing", "failOp"} => ~Decided
    /\ place[Local] \in {"completeOp", "completeId"} => cached
    /\ place[Local] = "completeId" => opStatus = "COMPLETED"
    /\ place[Local] = "failId" => opStatus = "FAILED"
    /\ place[Local] = "done" => Decided
    /\ idStatus = "COMPLETED" => opStatus = "COMPLETED"
    /\ opStatus = "COMPLETED" => cached

CalmInv ==
    /\ Batched(0) /\ CompletedApart
    /\ phase = "asking" => Verdicts /\ Hopeless
    /\ phase = "local" => LocalVerdict

IInv == TypeOK /\ PhaseInv /\ (Undisturbed => CalmInv)

-----------------------------------------------------------------------------
(* Types                                                                   *)

LEMMA InitType == Init => TypeOK
BY InitTypes DEF Init, InitWith, TypeOK

LEMMA BeginTypes == ASSUME TypeOK, Begin PROVE TypeOK'
<1> USE DEF shard, responses, outcome, TypeOK
<1>1. ASSUME NEW m \in 0 .. MaxOthers, NEW member \in Membership,
             TooFewNodes(m, member) \/ FindShard(m, member)
      PROVE  TypeOK'
    <2>1. ShardTypeOK'
        BY <1>1, FindTypes
    <2> QED BY <1>1, <2>1 DEF TooFewNodes, FindShard
<1>2. CASE Invalid
    <2>1. ShardTypeOK'
        BY <1>2, RefuseTypes DEF Invalid
    <2> QED BY <1>2, <2>1 DEF Invalid, Refuse
<1>3. CASE LocalGet
    <2>1. place' \in [Responders -> Places]
        BY <1>3 DEF LocalGet, LocalHit, LocalMiss, LocalThrows, Moved, ShardTypeOK,
                    Places, Processing, Marks
    <2> QED BY <1>3, <2>1 DEF LocalGet, LocalHit, LocalMiss, LocalThrows, LocalStep, ShardTypeOK
<1>4. CASE NetworkGet
    <2>1. sched' \in [Batches -> {"none", "waiting", "adding", "done"}]
        BY <1>4, ScheduledTypes DEF NetworkGet
    <2> QED BY <1>4, <2>1 DEF NetworkGet, ShardTypeOK
<1> QED BY <1>1, <1>2, <1>3, <1>4 DEF Begin

(* What a judgement moves to is a place.                                   *)
LEMMA JudgeTypes ==
    ASSUME TypeOK, NEW r \in Responders,
           JudgeEnough(r) \/ JudgeNextBatch(r) \/ JudgeHopeless(r) \/ JudgeNothing(r)
    PROVE  TypeOK'
<1> USE DEF shard, responses, outcome, TypeOK
<1>1. place' \in [Responders -> Places]
    BY DEF JudgeEnough, JudgeNextBatch, JudgeHopeless, JudgeNothing, Moved, ShardTypeOK,
           Places, Processing, Marks
<1>2. sched' \in [Batches -> {"none", "waiting", "adding", "done"}]
    <2>1. Scheduled(LeftFrom(r)) \/ UNCHANGED sched
        BY DEF JudgeEnough, JudgeNextBatch, JudgeHopeless, JudgeNothing
    <2> QED BY <2>1, ScheduledTypes DEF ShardTypeOK
<1>3. UNCHANGED <<phase, others, inShard, tries, seen, completed, failed, minAcks, opStatus,
                  idStatus, cached, faults>>
    BY DEF JudgeEnough, JudgeNextBatch, JudgeHopeless, JudgeNothing
<1> QED BY <1>1, <1>2, <1>3 DEF ShardTypeOK

LEMMA TypeKeeps == ASSUME TypeOK, [Next]_vars PROVE TypeOK'
<1> USE DEF shard, responses, outcome
<1>1. CASE Begin
    BY <1>1, BeginTypes
<1>2. ASSUME NEW r \in Responders,
             AddRequest(r) \/ Busy(r) \/ Answered(r) \/ Record(r) \/ MarkCache(r, TRUE)
                \/ MarkOperation(r) \/ MarkOperationId(r) \/ Fault(r)
      PROVE  TypeOK'
    <2>1. ShardTypeOK'
        BY <1>2, RequestTypes, ProcessTypes DEF TypeOK
    <2> QED BY <1>2, <2>1
            DEF TypeOK, AddRequest, Busy, Answered, Record, MarkCache, MarkOperation,
                MarkOperationId, Fault
<1>3. ASSUME NEW r \in Responders, SendGet(r)
      PROVE  TypeOK'
    <2>1. ShardTypeOK'
        <3>1. CASE Send(r)
            BY <3>1, RequestTypes DEF TypeOK
        <3>2. CASE ~Send(r)
            BY <1>3, <3>2 DEF SendGet, Moved, TypeOK, ShardTypeOK, Places
        <3> QED BY <3>1, <3>2
    <2> QED BY <1>3, <2>1 DEF TypeOK, SendGet, Send
<1>4. ASSUME NEW r \in Responders,
             JudgeEnough(r) \/ JudgeNextBatch(r) \/ JudgeHopeless(r) \/ JudgeNothing(r)
      PROVE  TypeOK'
    BY <1>4, JudgeTypes
<1>5. ASSUME NEW b \in Batches, ScheduleStep(b)
      PROVE  TypeOK'
    <2>1. ShardTypeOK'
        BY <1>5, ScheduleTypes DEF TypeOK
    <2> QED BY <1>5, <2>1 DEF TypeOK, ScheduleStep, StartSchedule, EndSchedule
<1>6. CASE LocalFault
    <2>1. place' \in [Responders -> Places]
        BY <1>6 DEF LocalFault, Moved, TypeOK, ShardTypeOK, Places, Processing, Marks
    <2>2. tries' \in [Responders -> -1 .. Retries]
        BY <1>6, OperationAssumption DEF LocalFault, TypeOK, ShardTypeOK
    <2>3. faults' \in 0 .. MaxFaults
        BY <1>6, OperationAssumption DEF LocalFault, TypeOK, ShardTypeOK
    <2> QED BY <1>6, <2>1, <2>2, <2>3 DEF LocalFault, TypeOK, ShardTypeOK
<1>7. CASE UNCHANGED vars
    BY <1>7 DEF vars, TypeOK, ShardTypeOK
<1> QED BY <1>1, <1>2, <1>3, <1>4, <1>5, <1>6, <1>7 DEF Next, RequestStep, Process

(* The operation keeps its types, whatever throws.                          *)
THEOREM GetTypeCorrect == Spec => []TypeOK
<1>1. TypeOK /\ [Next]_vars => TypeOK'
    BY TypeKeeps
<1> QED BY InitType, <1>1, PTL DEF Spec

-----------------------------------------------------------------------------
(* Phases                                                                  *)

LEMMA InitKeeps == Init => PhaseInv /\ CalmInv
<1> SUFFICES ASSUME Init PROVE PhaseInv /\ CalmInv
    OBVIOUS
<1>1. /\ \A r \in Responders : place[r] = "none" /\ seen[r].status = "none"
      /\ Local \in Responders /\ Requests \subseteq Responders
    BY DEF Init, InitWith, Unseen, Responders
<1>2. Blank
    BY <1>1 DEF Init, InitWith, Blank, HasAnswered
<1>3. PhaseInv
    BY <1>1, <1>2 DEF Init, InitWith, PhaseInv
<1>4. Batched(0)
    BY <1>2, BlankIsBatched
<1>5. CompletedApart /\ phase = "finding"
    BY <1>1 DEF CompletedApart, Init, InitWith
<1> QED BY <1>3, <1>4, <1>5 DEF CalmInv

LEMMA BeginPhase == ASSUME TypeOK, PhaseInv, Begin PROVE PhaseInv'
<1> USE DEF shard, responses, outcome, TypeOK
<1>0. Local \in Responders /\ Requests \subseteq Responders /\ Local \notin Requests
    BY RequestBatch DEF Responders
<1>1. ASSUME NEW m, NEW member, TooFewNodes(m, member) \/ FindShard(m, member)
      PROVE  PhaseInv'
    BY <1>1, <1>0 DEF TooFewNodes, FindShard, PhaseInv, Blank, HasAnswered
<1>2. CASE Invalid
    BY <1>2, <1>0 DEF Invalid, Refuse, PhaseInv, Blank, HasAnswered
<1>3. CASE LocalMiss
    BY <1>3, <1>0 DEF LocalMiss, LocalStep, PhaseInv, Blank, HasAnswered
<1>4. CASE LocalHit \/ LocalThrows
    <2>1. \A q \in Requests : place'[q] = place[q]
        BY <1>4, <1>0 DEF LocalHit, LocalThrows, Moved, ShardTypeOK
    <2>2. Blank' /\ phase' = "local"
        BY <1>4, <2>1 DEF LocalHit, LocalThrows, LocalStep, PhaseInv, Blank, HasAnswered
    <2>3. place'[Local] \in Marks
        BY <1>4, <1>0 DEF LocalHit, LocalThrows, Moved, ShardTypeOK, Marks
    <2> QED BY <2>2, <2>3 DEF PhaseInv
<1>5. CASE NetworkGet
    BY <1>5 DEF NetworkGet, PhaseInv
<1> QED BY <1>1, <1>2, <1>3, <1>4, <1>5 DEF Begin, LocalGet

(* Every other step is of an operation that asks the network, or a write    *)
(* of this node's own verdict.                                             *)
LocalMark ==
    MarkCache(Local, TRUE) \/ MarkOperation(Local) \/ MarkOperationId(Local) \/ LocalFault

LEMMA AskingStep ==
    ASSUME TypeOK, PhaseInv, Next, ~Begin
    PROVE  /\ UNCHANGED <<phase, others, inShard>>
           /\ \/ phase = "asking" /\ place'[Local] = place[Local]
              \/ phase = "local" /\ LocalMark
<1> USE DEF shard, responses, outcome, TypeOK
<1>0. Local \in Responders /\ Responders = Requests \cup {Local} /\ Local \notin Requests
    BY RequestBatch DEF Responders
<1>1. ASSUME \/ \E r \in Requests : place[r] # "none"
             \/ \E b \in Batches : sched[b] # "none"
      PROVE  phase = "asking" /\ place[Local] = "none"
    BY <1>0, <1>1 DEF PhaseInv, Blank
<1>2. place[Local] # "none" => phase = "local"
    BY DEF PhaseInv
<1>3. ASSUME NEW b \in Batches, ScheduleStep(b)
      PROVE  UNCHANGED <<phase, others, inShard, place>> /\ sched[b] # "none"
    BY <1>3 DEF ScheduleStep, StartSchedule, EndSchedule
<1>4. ASSUME NEW r \in Responders, AddRequest(r)
      PROVE  /\ UNCHANGED <<phase, others, inShard>> /\ place'[Local] = place[Local]
             /\ \E b \in Batches : sched[b] # "none"
    BY <1>4, <1>0, RequestBatch DEF AddRequest, ShardTypeOK
<1>5. ASSUME NEW r \in Responders,
             SendGet(r) \/ Busy(r) \/ Answered(r) \/ Process(r) \/ Fault(r)
      PROVE  /\ UNCHANGED <<phase, others, inShard>> /\ place[r] # "none"
             /\ \A q \in Responders : q # r => place'[q] = place[q]
    <2>1. UNCHANGED <<phase, others, inShard>> /\ place[r] # "none"
        BY <1>5 DEF SendGet, Send, Busy, Answered, Process, Record, JudgeEnough, JudgeNextBatch,
                    JudgeHopeless, JudgeNothing, MarkCache, MarkOperation, MarkOperationId,
                    Fault, Processing, Marks
    <2>2. \E p : Moved(r, p)
        BY <1>5 DEF SendGet, Send, Busy, Answered, Process, Record, JudgeEnough, JudgeNextBatch,
                    JudgeHopeless, JudgeNothing, MarkCache, MarkOperation, MarkOperationId,
                    Fault, Thrown
    <2>3. \A q \in Responders : q # r => place'[q] = place[q]
        BY <2>2 DEF Moved, ShardTypeOK
    <2> QED BY <2>1, <2>3
<1>6. LocalFault => UNCHANGED <<phase, others, inShard>> /\ place[Local] # "none"
    BY DEF LocalFault, Marks
<1>7. ASSUME SendGet(Local) \/ Busy(Local) \/ Answered(Local) \/ Process(Local) \/ Fault(Local)
      PROVE  LocalMark
    BY <1>0, <1>7 DEF SendGet, Send, Busy, Answered, Process, Record, JudgeEnough, JudgeNextBatch,
                      JudgeHopeless, JudgeNothing, Fault, LocalMark, PhaseInv, Marks
<1>8. CASE LocalFault
    BY <1>2, <1>6, <1>8 DEF LocalMark
<1>9. CASE \E r \in Responders : AddRequest(r)
    BY <1>1, <1>4, <1>9
<1>10. CASE \E b \in Batches : ScheduleStep(b)
    BY <1>1, <1>3, <1>10
<1>11. CASE \E r \in Responders : SendGet(r) \/ Busy(r) \/ Answered(r) \/ Process(r) \/ Fault(r)
    <2>1. PICK r \in Responders : SendGet(r) \/ Busy(r) \/ Answered(r) \/ Process(r) \/ Fault(r)
        BY <1>11
    <2>2. /\ UNCHANGED <<phase, others, inShard>> /\ place[r] # "none"
          /\ \A q \in Responders : q # r => place'[q] = place[q]
        BY <1>5, <2>1
    <2>3. CASE r = Local
        BY <1>2, <1>7, <2>1, <2>2, <2>3
    <2>4. CASE r # Local
        BY <1>0, <1>1, <2>2, <2>4
    <2> QED BY <2>3, <2>4
<1> QED BY <1>8, <1>9, <1>10, <1>11 DEF Next, RequestStep

LEMMA PhaseKeeps == ASSUME TypeOK, PhaseInv, [Next]_vars PROVE PhaseInv'
<1>0. Local \in Responders /\ Requests \subseteq Responders /\ Local \notin Requests
    BY RequestBatch DEF Responders
<1>1. CASE Begin
    BY <1>1, BeginPhase
<1>2. CASE Next /\ ~Begin
    <2>1. CASE phase = "asking" /\ place'[Local] = place[Local]
        BY <1>2, <2>1, AskingStep DEF PhaseInv
    <2>2. CASE phase = "local" /\ LocalMark
        <3>1. PICK p \in {"completing", "completeOp", "completeId", "failing", "failOp", "failId",
                          "done", "lost"} : Moved(Local, p)
            BY <2>2 DEF LocalMark, MarkCache, MarkOperation, MarkOperationId, LocalFault
        <3>2. \A q \in Responders : place'[q] = IF q = Local THEN p ELSE place[q]
            BY <3>1 DEF Moved, TypeOK, ShardTypeOK
        <3>3. UNCHANGED <<phase, completed, failed, sched, seen>>
            BY <2>2 DEF LocalMark, MarkCache, MarkOperation, MarkOperationId, LocalFault,
                        shard, responses
        <3>4. Blank'
            BY <1>0, <2>2, <3>2, <3>3 DEF PhaseInv, Blank, HasAnswered
        <3> QED BY <1>0, <2>2, <3>1, <3>2, <3>3, <3>4 DEF PhaseInv, Marks
    <2> QED BY <1>2, <2>1, <2>2, AskingStep
<1>3. CASE UNCHANGED vars
    BY <1>3 DEF vars, PhaseInv, Blank, HasAnswered
<1> QED BY <1>1, <1>2, <1>3

-----------------------------------------------------------------------------
(* While nothing throws                                                    *)

LEMMA FinalIsQuiet ==
    ASSUME ShardTypeOK, Batched(0), NEW r \in Responders, Final(r), place[r] # "done"
    PROVE  Quiet /\ completed + failed = Total(r)
<1>1. CASE IsLast(0, r)
    BY <1>1, LastIsQuiet
<1>2. CASE Total(r) = others
    <2>1. Total(r) = others + 0
        BY <1>2, OperationAssumption DEF ShardTypeOK
    <2> QED BY <2>1, AllIsQuiet DEF Final
<1> QED BY <1>1, <1>2 DEF Final

LEMMA OneFinal ==
    ASSUME ShardTypeOK, Batched(0), NEW r \in Responders, Final(r), place[r] # "done",
           NEW q \in Responders, Final(q), place[q] # "done"
    PROVE  q = r
<1>1. Total(r) = Total(q) /\ HasAnswered(r) /\ HasAnswered(q)
    BY FinalIsQuiet DEF Final
<1> QED BY <1>1 DEF Batched, ReadInOrder, ReadAt

(* Counts that were read are not above those of the table; a final         *)
(* responder has read all there is.                                        *)
LEMMA ReadCounts ==
    ASSUME ShardTypeOK, Batched(0), NEW r \in Responders, HasAnswered(r)
    PROVE  /\ seen[r].completed <= completed /\ seen[r].failed <= failed
           /\ Total(r) = seen[r].completed + seen[r].failed
           /\ seen[r].completed \in Nat /\ seen[r].failed \in Nat
           /\ completed \in Nat /\ failed \in Nat /\ others \in Nat /\ MinAck \in Nat
           /\ LeftFrom(r) \in Nat
<1>1. seen[r].completed <= completed /\ seen[r].failed <= failed
    BY DEF Batched, ReadInOrder, ReadAt
<1>2. LeftFrom(r) \in Nat
    BY OperationAssumption, RequestBatch DEF Responders, LeftFrom
<1> QED BY <1>1, <1>2, OperationAssumption DEF Total, ShardTypeOK

LEMMA FinalReadsAll ==
    ASSUME ShardTypeOK, Batched(0), NEW r \in Responders, Final(r), place[r] # "done"
    PROVE  seen[r].completed = completed /\ seen[r].failed = failed
<1>1. HasAnswered(r) /\ completed + failed = Total(r)
    BY FinalIsQuiet DEF Final
<1> DEFINE c == seen[r].completed
           f == seen[r].failed
<1>2. /\ c <= completed /\ f <= failed /\ Total(r) = c + f /\ c \in Nat /\ f \in Nat
      /\ completed \in Nat /\ failed \in Nat
    BY <1>1, ReadCounts
<1> HIDE DEF c, f
<1>3. c = completed /\ f = failed
    BY <1>1, <1>2
<1> QED BY <1>3 DEF c, f

(* When all is quiet no answer is awaited.                                 *)
LEMMA QuietIsOver ==
    ASSUME Batched(0), Quiet, NEW r \in Requests
    PROVE  place[r] \notin {"ready", "sent", "acked", "nacked"}
<1>1. r \in Responders
    BY DEF Responders
<1>2. place[r] # "none" => HasAnswered(r)
    BY DEF Batched, AskedInOrder, Quiet, MayBeAsked
<1> QED BY <1>1, <1>2 DEF Batched, AskedInOrder, Unanswered

(* At most one responder writes a verdict: two that reached the minimum    *)
(* are the same, and the end of a batch with too few answers comes after   *)
(* every answer.                                                           *)
LEMMA OneWriter ==
    ASSUME TypeOK, Batched(0), CompletedApart, Verdicts, Hopeless,
           NEW r \in Responders, NEW q \in Responders, place[r] \in Marks, place[q] \in Marks
    PROVE  r = q
<1>1. Marks = Completing \cup Failing
    BY DEF Marks, Completing, Failing
<1>2. HasAnswered(r) /\ HasAnswered(q)
    BY DEF Verdicts
<1>3. ASSUME NEW a \in Responders, NEW b \in Responders, HasAnswered(a),
             place[a] \in Completing, place[b] \in Failing
      PROVE  FALSE
    <2>1. seen[a].completed = MinAck /\ completed < MinAck
        BY <1>3 DEF Verdicts, Enough, Hopeless, Doomed
    <2> QED BY <1>3, <2>1, ReadCounts DEF TypeOK
<1>4. CASE place[r] \in Completing /\ place[q] \in Completing
    BY <1>4 DEF Verdicts, Enough, CompletedApart
<1>5. CASE place[r] \in Failing /\ place[q] \in Failing
    <2>1. Final(r) /\ Final(q) /\ place[r] # "done" /\ place[q] # "done"
        BY <1>5 DEF Verdicts, Failing
    <2> QED BY <2>1, OneFinal DEF TypeOK
<1> QED BY <1>1, <1>2, <1>3, <1>4, <1>5

(* Requests on their way to an answer, and schedules, disturb no verdict.   *)
LEMMA UnderwayCalm ==
    ASSUME TypeOK, CompletedApart, Verdicts, Hopeless,
           UNCHANGED <<others, seen, completed, failed, opStatus, cached>>,
           idStatus' \in {idStatus, "running"},
           \A b \in Batches : sched'[b] # "none" => sched[b] # "none",
           \A q \in Responders :
              \/ place'[q] = place[q]
              \/ place[q] \in Unanswered /\ place'[q] \in Unanswered \cup {"done"}
    PROVE  CompletedApart' /\ Verdicts' /\ Hopeless'
<1>1. \A q \in Responders : /\ Final(q)' <=> Final(q)
                            /\ HasAnswered(q)' <=> HasAnswered(q)
                            /\ Enough(q)' <=> Enough(q)
    BY DEF Final, IsLast, HasAnswered, Total, Enough
<1>2. \A q \in Responders :
          /\ place'[q] \in {"recorded"} \cup Marks => place'[q] = place[q]
          /\ place[q] \in {"completeId", "done"} => place'[q] = place[q]
    BY DEF Unanswered, Marks
<1>3. Quiet => Quiet'
    BY RequestBatch, OperationAssumption DEF Quiet, MayBeAsked, HasAnswered, Copies
<1>4. CompletedApart'
    BY DEF CompletedApart
<1>5. Verdicts'
    <2>1. \A r \in Responders :
              /\ place'[r] \in {"recorded"} \cup Marks => HasAnswered(r)'
              /\ place'[r] \in Completing => Enough(r)'
              /\ place'[r] \in Failing => Final(r)'
              /\ place'[r] \in {"completing", "completeOp", "failing", "failOp"} => ~Decided'
              /\ place'[r] \in {"completeOp", "completeId"} => cached'
              /\ place'[r] = "completeId" => opStatus' = "COMPLETED"
              /\ place'[r] = "failId" => opStatus' = "FAILED"
        BY <1>1, <1>2 DEF Verdicts, Completing, Failing, Marks, Decided
    <2>2. opStatus' = "COMPLETED" =>
              cached' /\ \E r \in Responders : Enough(r)' /\ place'[r] \in {"completeId", "done"}
        BY <1>1, <1>2 DEF Verdicts
    <2>3. idStatus' = "COMPLETED" => opStatus' = "COMPLETED"
        BY DEF Verdicts
    <2> QED BY <2>1, <2>2, <2>3 DEF Verdicts
<1>6. Hopeless'
    <2>1. Doomed' => Doomed
        BY <1>2 DEF Doomed, Failing, Marks
    <2>2. \A r \in Responders : Final(r)' /\ Doomed => place'[r] # "recorded"
        BY <1>1, <1>2 DEF Hopeless
    <2> QED BY <1>3, <2>1, <2>2 DEF Hopeless
<1> QED BY <1>4, <1>5, <1>6

(* A response is recorded: nothing is doomed, and its count of positive    *)
(* answers is a new one.                                                   *)
LEMMA RecordCalm ==
    ASSUME TypeOK, Batched(0), CompletedApart, Verdicts, Hopeless,
           NEW r \in Requests, Record(r)
    PROVE  CompletedApart' /\ Verdicts' /\ Hopeless'
<1> USE DEF shard, outcome, TypeOK
<1>1. /\ r \in Responders /\ ~HasAnswered(r) /\ place[r] \in {"acked", "nacked"}
      /\ UNCHANGED <<others, sched, minAcks, opStatus, idStatus, cached>>
    BY DEF Responders, Batched, AskedInOrder, Unanswered, Record
<1>2. /\ HasAnswered(r)' /\ seen'[r].completed = completed'
      /\ seen'[r].status = IF place[r] = "acked" THEN "COMPLETED" ELSE "FAILED"
      /\ \A q \in Responders : q # r => seen'[q] = seen[q]
    BY <1>1, RecordCounts DEF Batched, HasAnswered
<1>3. \A q \in Responders : place'[q] = IF q = r THEN "recorded" ELSE place[q]
    BY <1>1 DEF Record, Moved, ShardTypeOK
<1>4. ~Doomed
    BY <1>1, QuietIsOver DEF Hopeless
<1>5. Hopeless'
    <2>1. ~Doomed'
        BY <1>1, <1>3, <1>4 DEF Doomed, Failing
    <2> QED BY <2>1 DEF Hopeless
<1>6. \A q \in Responders : q # r => /\ HasAnswered(q) => HasAnswered(q)'
                                     /\ Enough(q) => Enough(q)'
                                     /\ Final(q) => Final(q)'
    BY <1>1, <1>2 DEF Final, IsLast, HasAnswered, Total, Enough
<1>7. CompletedApart'
    <2>1. place[r] = "acked" => completed' = completed + 1
        BY DEF Record
    <2>2. ASSUME NEW q \in Responders, q # r, seen[q].status = "COMPLETED", place[r] = "acked"
          PROVE  seen[q].completed # completed'
        <3>1. HasAnswered(q)
            BY <2>2 DEF HasAnswered
        <3>2. seen[q].completed <= completed /\ seen[q].completed \in Nat /\ completed \in Nat
            BY <3>1, ReadCounts
        <3>3. seen[q].completed # completed + 1
            BY <3>2
        <3> QED BY <2>1, <2>2, <3>3
    <2>3. ASSUME NEW q \in Responders, NEW o \in Responders,
                 seen'[q].status = "COMPLETED", seen'[o].status = "COMPLETED",
                 seen'[q].completed = seen'[o].completed
          PROVE  q = o
        <3>1. CASE q # r /\ o # r
            BY <1>2, <2>3, <3>1 DEF CompletedApart
        <3>2. CASE q = r /\ o # r
            BY <1>2, <2>2, <2>3, <3>2
        <3>3. CASE q # r /\ o = r
            BY <1>2, <2>2, <2>3, <3>3
        <3> QED BY <3>1, <3>2, <3>3
    <2> QED BY <2>3 DEF CompletedApart
<1>8. Verdicts'
    <2>1. ASSUME NEW q \in Responders
          PROVE  /\ place'[q] \in {"recorded"} \cup Marks => HasAnswered(q)'
                 /\ place'[q] \in Completing => Enough(q)'
                 /\ place'[q] \in Failing => Final(q)'
                 /\ place'[q] \in {"completing", "completeOp", "failing", "failOp"} => ~Decided'
                 /\ place'[q] \in {"completeOp", "completeId"} => cached'
                 /\ place'[q] = "completeId" => opStatus' = "COMPLETED"
                 /\ place'[q] = "failId" => opStatus' = "FAILED"
        <3>1. CASE q = r
            BY <1>2, <1>3, <3>1 DEF Completing, Failing
        <3>2. CASE q # r
            BY <1>1, <1>3, <1>6, <3>2 DEF Verdicts, Decided
        <3> QED BY <3>1, <3>2
    <2>2. idStatus' = "COMPLETED" => opStatus' = "COMPLETED"
        BY <1>1 DEF Verdicts
    <2>3. opStatus' = "COMPLETED" =>
              cached' /\ \E q \in Responders : Enough(q)' /\ place'[q] \in {"completeId", "done"}
        BY <1>1, <1>3, <1>6 DEF Verdicts
    <2> QED BY <2>1, <2>2, <2>3 DEF Verdicts
<1> QED BY <1>5, <1>7, <1>8

(* Who reached the minimum is the first to give a verdict.                  *)
LEMMA EnoughIsFirst ==
    ASSUME TypeOK, Batched(0), CompletedApart, Verdicts, Hopeless,
           NEW r \in Responders, place[r] = "recorded", Enough(r)
    PROVE  ~Doomed /\ ~Decided
<1>1. HasAnswered(r) /\ seen[r].completed = MinAck
    BY DEF HasAnswered, Enough
<1>2. ~(completed < MinAck)
    BY <1>1, ReadCounts DEF TypeOK
<1>3. ~Doomed
    BY <1>2 DEF Hopeless
<1>4. opStatus # "COMPLETED"
    <2> SUFFICES ASSUME opStatus = "COMPLETED" PROVE FALSE
        OBVIOUS
    <2>1. PICK q \in Responders : Enough(q) /\ place[q] \in {"completeId", "done"}
        BY DEF Verdicts
    <2> QED BY <2>1 DEF CompletedApart, Enough
<1> QED BY <1>3, <1>4 DEF Doomed, Decided, TypeOK, ShardTypeOK

(* The end of a batch that is short of answers: its responder is final and  *)
(* the first to give a verdict, if it does.                                *)
LEMMA ShortIsFirst ==
    ASSUME TypeOK, Batched(0), Verdicts, Hopeless, NEW r \in Responders,
           place[r] = "recorded", IsShort(r), EndOfBatch(r)
    PROVE  /\ Final(r) /\ ~Doomed /\ ~Decided /\ completed < MinAck
           /\ Left(r) > 0 => IsLast(0, r)
           /\ ~MayGoOn(r) => others - failed < MinAck
<1>1. HasAnswered(r)
    BY DEF Verdicts
<1> DEFINE c == seen[r].completed
           f == seen[r].failed
           k == LeftFrom(r)
<1>2. /\ c <= completed /\ f <= failed /\ Total(r) = c + f /\ c \in Nat /\ f \in Nat
      /\ completed \in Nat /\ failed \in Nat /\ others \in Nat /\ MinAck \in Nat /\ k \in Nat
      /\ c < MinAck
    BY <1>1, ReadCounts DEF TypeOK, IsShort
<1>3. Total(r) <= k /\ Total(r) <= others
    <2>1. Total(r) <= k + 0 /\ Total(r) <= others + 0
        BY <1>1 DEF Batched, ReadInOrder, ReadAt
    <2> QED BY <1>2, <2>1
<1>4. IsLast(0, r) \/ Total(r) = others
    <2>1. CASE Total(r) % BatchSize = 0
        <3>1. Total(r) - 0 = Total(r)
            BY <1>2
        <3> QED BY <1>1, <2>1, <3>1, EndIsLast DEF Batched, TypeOK
    <2>2. CASE Total(r) = Found
        <3>1. Found = others \/ Found = others + 1
            BY <1>2 DEF Found
        <3>2. Found = others
            BY <1>2, <1>3, <2>2, <3>1
        <3> QED BY <2>2, <3>2
    <2> QED BY <2>1, <2>2 DEF EndOfBatch
<1>5. Final(r)
    BY <1>1, <1>4 DEF Final
<1>6. completed < MinAck /\ f = failed /\ c = completed
    BY <1>2, <1>5, FinalReadsAll DEF TypeOK
<1>7. ~Doomed
    BY <1>5 DEF Hopeless
<1>8. opStatus # "COMPLETED"
    <2> SUFFICES ASSUME opStatus = "COMPLETED" PROVE FALSE
        OBVIOUS
    <2>1. PICK q \in Responders : Enough(q)
        BY DEF Verdicts
    <2>2. HasAnswered(q) /\ seen[q].completed = MinAck
        BY <2>1 DEF Enough, HasAnswered
    <2>3. MinAck <= completed
        BY <2>2, ReadCounts DEF TypeOK
    <2> QED BY <1>2, <1>6, <2>3
<1>9. ~Decided
    BY <1>7, <1>8 DEF Doomed, Decided, TypeOK, ShardTypeOK
<1>10. IsLast(0, r) => Total(r) = k
    BY <1>2 DEF IsLast
<1>11. Left(r) = IF k < others THEN others - k ELSE 0
    BY DEF Left
<1>12. MayGoOn(r) <=> Left(r) > 0 /\ c + Left(r) >= MinAck
    BY DEF MayGoOn
<1> HIDE DEF c, f, k
<1>13. Left(r) > 0 => IsLast(0, r)
    BY <1>2, <1>3, <1>4, <1>11
<1>14. ~MayGoOn(r) => others - failed < MinAck
    <2>1. CASE Total(r) = others
        BY <1>2, <1>6, <2>1
    <2>2. CASE Total(r) = k
        BY <1>2, <1>3, <1>6, <1>11, <1>12, <2>2
    <2> QED BY <1>4, <1>10, <2>1, <2>2
<1> QED BY <1>5, <1>6, <1>7, <1>9, <1>13, <1>14

(* A recorded response is judged.                                          *)
LEMMA JudgeCalm ==
    ASSUME TypeOK, Batched(0), CompletedApart, Verdicts, Hopeless, NEW r \in Responders,
           JudgeEnough(r) \/ JudgeNextBatch(r) \/ JudgeHopeless(r) \/ JudgeNothing(r)
    PROVE  Batched(0)' /\ CompletedApart' /\ Verdicts' /\ Hopeless'
<1> USE DEF shard, responses, outcome, TypeOK
<1>1. /\ UNCHANGED <<others, seen, completed, failed, opStatus, idStatus, cached>>
      /\ place[r] = "recorded"
    BY DEF JudgeEnough, JudgeNextBatch, JudgeHopeless, JudgeNothing
<1>2. PICK p \in {"completing", "failing", "done"} :
          /\ Moved(r, p)
          /\ p = "completing" <=> JudgeEnough(r)
          /\ p = "failing" <=> JudgeHopeless(r)
    BY DEF JudgeEnough, JudgeNextBatch, JudgeHopeless, JudgeNothing
<1>3. \A q \in Responders : place'[q] = IF q = r THEN p ELSE place[q]
    BY <1>2 DEF Moved, ShardTypeOK
<1>4. \A q \in Responders : /\ Final(q)' <=> Final(q)
                            /\ HasAnswered(q)' <=> HasAnswered(q)
                            /\ Enough(q)' <=> Enough(q)
    BY <1>1 DEF Final, IsLast, HasAnswered, Total, Enough
<1>5. JudgeEnough(r) => Enough(r) /\ ~Doomed /\ ~Decided
    BY <1>1, EnoughIsFirst DEF JudgeEnough, IsEnough, Enough
<1>6. JudgeHopeless(r) => /\ Final(r) /\ ~Doomed /\ ~Decided /\ completed < MinAck
                          /\ others - failed < MinAck
    BY <1>1, ShortIsFirst DEF JudgeHopeless
<1>7. JudgeNextBatch(r) => IsLast(0, r) /\ Left(r) > 0 /\ ~Doomed
    BY <1>1, ShortIsFirst DEF JudgeNextBatch, MayGoOn
<1>8. CompletedApart'
    BY <1>1 DEF CompletedApart
<1>9. Verdicts'
    <2>1. ASSUME NEW q \in Responders
          PROVE  /\ place'[q] \in {"recorded"} \cup Marks => HasAnswered(q)'
                 /\ place'[q] \in Completing => Enough(q)'
                 /\ place'[q] \in Failing => Final(q)'
                 /\ place'[q] \in {"completing", "completeOp", "failing", "failOp"} => ~Decided'
                 /\ place'[q] \in {"completeOp", "completeId"} => cached'
                 /\ place'[q] = "completeId" => opStatus' = "COMPLETED"
                 /\ place'[q] = "failId" => opStatus' = "FAILED"
        <3>1. CASE q = r
            <4>1. HasAnswered(r)'
                BY <1>1, <1>4 DEF Verdicts
            <4> QED BY <1>1, <1>2, <1>3, <1>4, <1>5, <1>6, <3>1, <4>1
                    DEF Completing, Failing, Decided
        <3>2. CASE q # r
            BY <1>1, <1>3, <1>4, <3>2 DEF Verdicts, Decided
        <3> QED BY <3>1, <3>2
    <2>2. idStatus' = "COMPLETED" => opStatus' = "COMPLETED"
        BY <1>1 DEF Verdicts
    <2>3. opStatus' = "COMPLETED" =>
              cached' /\ \E q \in Responders : Enough(q)' /\ place'[q] \in {"completeId", "done"}
        BY <1>1, <1>3, <1>4 DEF Verdicts
    <2> QED BY <2>1, <2>2, <2>3 DEF Verdicts
<1>10. CASE JudgeNextBatch(r)
    <2>1. Batched(0)'
        BY <1>1, <1>7, <1>10, NextBatchKeeps DEF JudgeNextBatch
    <2>2. ~Doomed'
        BY <1>1, <1>2, <1>3, <1>7, <1>10 DEF Doomed, Failing, JudgeNextBatch, JudgeHopeless
    <2>3. Hopeless'
        BY <2>2 DEF Hopeless
    <2> QED BY <1>8, <1>9, <2>1, <2>3
<1>11. CASE ~JudgeNextBatch(r)
    <2>1. UNCHANGED sched
        BY <1>11 DEF JudgeEnough, JudgeHopeless, JudgeNothing
    <2>2. Batched(0)'
        <3>1. \A q \in Responders :
                 \/ place'[q] = place[q]
                 \/ /\ place[q] # "none" \/ q = Local
                    /\ HasAnswered(q) => place'[q] \notin Unanswered
                    /\ place[q] # "done"
            BY <1>1, <1>3 DEF Unanswered
        <3> QED BY <1>1, <2>1, <3>1, MovesKeep
    <2>3. Quiet => Quiet'
        BY <1>1, <2>1 DEF Quiet, MayBeAsked, HasAnswered
    <2>4. CASE JudgeHopeless(r)
        <3>1. Quiet
            BY <1>1, <1>6, <2>4, FinalIsQuiet
        <3>2. ASSUME NEW q \in Responders, Final(q)', place'[q] = "recorded" PROVE FALSE
            <4>1. q # r /\ Final(q) /\ place[q] = "recorded"
                BY <1>2, <1>3, <1>4, <3>2
            <4> QED BY <1>1, <1>6, <2>4, <4>1, OneFinal
        <3>3. others' - failed' < MinAck /\ completed' < MinAck
            BY <1>1, <1>6, <2>4
        <3> QED BY <1>8, <1>9, <2>2, <2>3, <3>1, <3>2, <3>3 DEF Hopeless
    <2>5. CASE ~JudgeHopeless(r)
        <3>1. Doomed' => Doomed
            BY <1>1, <1>2, <1>3, <2>5 DEF Doomed, Failing
        <3>2. ASSUME NEW q \in Responders, Final(q)', Doomed PROVE place'[q] # "recorded"
            BY <1>2, <1>3, <1>4, <3>2 DEF Hopeless
        <3>3. Hopeless'
            BY <1>1, <2>3, <3>1, <3>2 DEF Hopeless
        <3> QED BY <1>8, <1>9, <2>2, <3>3
    <2> QED BY <2>4, <2>5
<1> QED BY <1>10, <1>11

(* The three writes of a verdict: nobody else is writing one.               *)
LEMMA WriteCalm ==
    ASSUME TypeOK, Batched(0), CompletedApart, Verdicts, Hopeless, NEW r \in Responders,
           MarkCache(r, TRUE) \/ MarkOperation(r) \/ MarkOperationId(r)
    PROVE  CompletedApart' /\ Verdicts' /\ Hopeless'
<1> USE DEF shard, responses, outcome, TypeOK
<1>1. place[r] \in Marks /\ UNCHANGED <<others, sched, seen, completed, failed>>
    BY DEF MarkCache, MarkOperation, MarkOperationId, Marks
<1>2. PICK p \in {"completeOp", "completeId", "failOp", "failId", "done"} : Moved(r, p)
    BY DEF MarkCache, MarkOperation, MarkOperationId
<1>3. \A q \in Responders : place'[q] = IF q = r THEN p ELSE place[q]
    BY <1>2 DEF Moved, ShardTypeOK
<1>4. \A q \in Responders : /\ Final(q)' <=> Final(q)
                            /\ HasAnswered(q)' <=> HasAnswered(q)
                            /\ Enough(q)' <=> Enough(q)
    BY <1>1 DEF Final, IsLast, HasAnswered, Total, Enough
<1>5. \A q \in Responders : q # r => place[q] \notin Marks
    BY <1>1, OneWriter
<1>6. CompletedApart'
    BY <1>1 DEF CompletedApart
<1>7. Quiet => Quiet'
    BY <1>1 DEF Quiet, MayBeAsked, HasAnswered
<1>8. (Doomed' => Doomed) => Hopeless'
    <2>1. ASSUME NEW q \in Responders, Final(q)', Doomed PROVE place'[q] # "recorded"
        BY <1>2, <1>3, <1>4, <2>1 DEF Hopeless
    <2> QED BY <1>1, <1>7, <2>1 DEF Hopeless
<1>9. CASE MarkCache(r, TRUE)
    <2>1. /\ UNCHANGED <<opStatus, idStatus>> /\ opStatus = "IN_PROGRESS"
          /\ \/ place[r] = "completing" /\ place'[r] = "completeOp" /\ cached'
             \/ place[r] = "failing" /\ place'[r] = "failOp"
        BY <1>9 DEF MarkCache, Moved, ShardTypeOK, Verdicts, Decided
    <2>2. Doomed' => Doomed
        BY <1>3, <2>1 DEF Doomed, Failing
    <2>3. Verdicts'
        BY <1>1, <1>3, <1>4, <1>5, <2>1 DEF Verdicts, Decided, Marks, Completing, Failing
    <2> QED BY <1>6, <1>8, <2>2, <2>3
<1>10. CASE MarkOperation(r)
    <2>1. /\ UNCHANGED <<idStatus, cached>> /\ opStatus = "IN_PROGRESS" /\ idStatus # "COMPLETED"
          /\ \/ /\ place[r] = "completeOp" /\ place'[r] = "completeId"
                /\ opStatus' = "COMPLETED" /\ cached
             \/ /\ place[r] = "failOp" /\ place'[r] = "failId" /\ opStatus' = "FAILED"
        BY <1>10 DEF MarkOperation, Moved, ShardTypeOK, Verdicts, Decided
    <2>2. Doomed' => Doomed
        BY <1>3, <1>5, <2>1 DEF Doomed, Failing, Marks
    <2>3. Verdicts'
        BY <1>1, <1>3, <1>4, <1>5, <2>1 DEF Verdicts, Decided, Marks, Completing, Failing
    <2> QED BY <1>6, <1>8, <2>2, <2>3
<1>11. CASE MarkOperationId(r)
    <2>1. /\ UNCHANGED opStatus /\ place'[r] = "done"
          /\ \/ /\ place[r] = "completeId" /\ opStatus = "COMPLETED" /\ idStatus' = "COMPLETED"
                /\ cached'
             \/ /\ place[r] = "failId" /\ opStatus = "FAILED" /\ idStatus' = "FAILED"
        BY <1>11 DEF MarkOperationId, Moved, ShardTypeOK, Verdicts
    <2>2. Doomed' => Doomed
        BY <1>3, <1>5, <2>1 DEF Doomed, Failing, Marks
    <2>3. Verdicts'
        BY <1>1, <1>3, <1>4, <1>5, <2>1 DEF Verdicts, Decided, Marks, Completing, Failing
    <2> QED BY <1>6, <1>8, <2>2, <2>3
<1> QED BY <1>9, <1>10, <1>11

-----------------------------------------------------------------------------
(* Every step                                                              *)

LEMMA BeginCalm == ASSUME TypeOK, PhaseInv, CalmInv, Begin PROVE CalmInv'
<1> USE DEF shard, responses, outcome, TypeOK
<1>0. Local \in Responders /\ Responders = Requests \cup {Local} /\ Local \notin Requests
    BY RequestBatch DEF Responders
<1>1. UNCHANGED seen
    BY DEF Begin, TooFewNodes, FindShard, Invalid, Refuse, LocalGet, LocalHit, LocalMiss,
           LocalThrows, LocalStep, NetworkGet
<1>2. CompletedApart'
    BY <1>1 DEF CalmInv, CompletedApart
<1>3. CASE Begin /\ ~NetworkGet /\ ~LocalHit /\ ~LocalThrows
    <2>1. /\ Blank /\ UNCHANGED <<sched, place, seen, completed, failed>>
          /\ phase' \notin {"asking", "local"}
        BY <1>3 DEF Begin, TooFewNodes, FindShard, Invalid, Refuse, LocalGet, LocalMiss,
                    LocalStep, PhaseInv
    <2>2. Batched(0)'
        BY <2>1, BlankKeeps
    <2> QED BY <1>2, <2>1, <2>2 DEF CalmInv
<1>4. CASE LocalHit \/ LocalThrows
    <2>1. /\ Batched(0) /\ opStatus = "IN_PROGRESS" /\ idStatus = "running" /\ phase' = "local"
          /\ UNCHANGED <<others, sched, seen, completed, failed, opStatus, idStatus, cached>>
          /\ place[Local] = "none"
        BY <1>4 DEF LocalHit, LocalThrows, LocalStep, PhaseInv, CalmInv
    <2>2. PICK p \in {"completing", "failing"} : Moved(Local, p)
        BY <1>4 DEF LocalHit, LocalThrows
    <2>3. \A q \in Responders : place'[q] = IF q = Local THEN p ELSE place[q]
        BY <2>2 DEF Moved, ShardTypeOK
    <2>4. Batched(0)'
        <3>1. \A q \in Responders :
                 \/ place'[q] = place[q]
                 \/ /\ place[q] # "none" \/ q = Local
                    /\ HasAnswered(q) => place'[q] \notin Unanswered
                    /\ place[q] # "done"
            BY <2>1, <2>3 DEF Unanswered
        <3> QED BY <2>1, <3>1, MovesKeep
    <2>5. LocalVerdict'
        BY <1>0, <2>1, <2>3 DEF LocalVerdict, Marks, Decided
    <2> QED BY <1>2, <2>1, <2>4, <2>5 DEF CalmInv
<1>5. CASE NetworkGet
    <2>1. /\ Blank /\ opStatus = "IN_PROGRESS" /\ idStatus = "running" /\ phase' = "asking"
          /\ Scheduled(0) /\ place[Local] = "none"
          /\ UNCHANGED <<others, place, seen, completed, failed, opStatus, idStatus, cached>>
        BY <1>5 DEF NetworkGet, PhaseInv
    <2>2. Batched(0)'
        BY <2>1, FirstBatchKeeps
    <2>3. \A q \in Responders : place'[q] = "none"
        BY <1>0, <2>1 DEF Blank
    <2>4. Verdicts' /\ Hopeless'
        BY <2>1, <2>3 DEF Verdicts, Hopeless, Doomed, Marks, Completing, Failing
    <2> QED BY <1>2, <2>1, <2>2, <2>4 DEF CalmInv
<1> QED BY <1>3, <1>4, <1>5

(* A request that is not judged yet, or skipped.                            *)
LEMMA RequestCalm ==
    ASSUME TypeOK, CalmInv, phase = "asking", NEW r \in Responders,
           AddRequest(r) \/ SendGet(r) \/ Busy(r) \/ Answered(r)
    PROVE  CalmInv'
<1> USE DEF shard, responses, outcome, TypeOK
<1>1. UNCHANGED <<phase, others, sched, seen, completed, failed, opStatus, idStatus, cached>>
    BY DEF AddRequest, SendGet, Send, Busy, Answered
<1>2. PICK p \in {"ready", "sent", "acked", "nacked", "done"} :
         \A q \in Responders : place'[q] = IF q = r THEN p ELSE place[q]
    BY DEF AddRequest, SendGet, Send, Busy, Answered, Moved, ShardTypeOK
<1>3. place[r] \in Unanswered /\ (place[r] = "none" => AddRequest(r))
    BY DEF AddRequest, SendGet, Send, Busy, Answered, Unanswered
<1>4. Batched(0)'
    <2>1. CASE AddRequest(r)
        BY <2>1, AddRequestKeeps DEF CalmInv
    <2>2. CASE ~AddRequest(r)
        <3>1. ~HasAnswered(r)
            BY <1>3 DEF CalmInv, Batched, AskedInOrder
        <3>2. \A q \in Responders :
                 \/ place'[q] = place[q]
                 \/ /\ place[q] # "none" \/ q = Local
                    /\ HasAnswered(q) => place'[q] \notin Unanswered
                    /\ place[q] # "done"
            BY <1>2, <1>3, <2>2, <3>1 DEF Unanswered
        <3> QED BY <1>1, <3>2, MovesKeep DEF CalmInv
    <2> QED BY <2>1, <2>2
<1>5. CompletedApart' /\ Verdicts' /\ Hopeless'
    <2>1. \A q \in Responders :
              \/ place'[q] = place[q]
              \/ place[q] \in Unanswered /\ place'[q] \in Unanswered \cup {"done"}
        BY <1>2, <1>3 DEF Unanswered
    <2> QED BY <1>1, <2>1, UnderwayCalm DEF CalmInv
<1> QED BY <1>1, <1>4, <1>5 DEF CalmInv

LEMMA ScheduleCalm ==
    ASSUME TypeOK, CalmInv, phase = "asking", NEW b \in Batches, ScheduleStep(b)
    PROVE  CalmInv'
<1> USE DEF shard, responses, TypeOK
<1>1. /\ UNCHANGED <<phase, others, place, seen, completed, failed, opStatus, cached>>
      /\ idStatus' = "running" /\ sched[b] # "none"
    BY DEF ScheduleStep, StartSchedule, EndSchedule
<1>2. PICK s \in {"adding", "done"} : sched' = [sched EXCEPT ![b] = s]
    BY DEF ScheduleStep, StartSchedule, EndSchedule
<1>3. \A a \in Batches : sched'[a] # "none" <=> sched[a] # "none"
    BY <1>1, <1>2 DEF ShardTypeOK
<1>4. Batched(0)'
    BY <1>1, <1>3, MovesKeep DEF CalmInv
<1>5. CompletedApart' /\ Verdicts' /\ Hopeless'
    BY <1>1, <1>3, UnderwayCalm DEF CalmInv
<1> QED BY <1>1, <1>4, <1>5 DEF CalmInv

LEMMA ProcessCalm ==
    ASSUME TypeOK, CalmInv, phase = "asking", NEW r \in Requests, Process(r)
    PROVE  CalmInv'
<1> USE DEF shard, responses, outcome, TypeOK
<1>1. Batched(0) /\ CompletedApart /\ Verdicts /\ Hopeless /\ r \in Responders
    BY DEF CalmInv, Responders
<1>2. phase' = "asking"
    BY DEF Process, Record, JudgeEnough, JudgeNextBatch, JudgeHopeless, JudgeNothing,
           MarkCache, MarkOperation, MarkOperationId
<1>3. CASE Record(r)
    <2>1. Batched(0)'
        BY <1>1, <1>3, RecordKeeps, RequestBatch
    <2>2. CompletedApart' /\ Verdicts' /\ Hopeless'
        BY <1>1, <1>3, RecordCalm
    <2> QED BY <1>2, <2>1, <2>2 DEF CalmInv
<1>4. CASE JudgeEnough(r) \/ JudgeNextBatch(r) \/ JudgeHopeless(r) \/ JudgeNothing(r)
    <2>1. Batched(0)' /\ CompletedApart' /\ Verdicts' /\ Hopeless'
        BY <1>1, <1>4, JudgeCalm
    <2> QED BY <1>2, <2>1 DEF CalmInv
<1>5. CASE MarkCache(r, TRUE) \/ MarkOperation(r) \/ MarkOperationId(r)
    <2>1. PICK p \in Marks \cup {"done"} : Moved(r, p)
        BY <1>5 DEF MarkCache, MarkOperation, MarkOperationId, Marks
    <2>2. /\ UNCHANGED <<others, sched, seen, completed, failed>> /\ place[r] \in Marks
        BY <1>5 DEF MarkCache, MarkOperation, MarkOperationId, Marks
    <2>3. Batched(0)'
        <3>1. \A q \in Responders :
                 \/ place'[q] = place[q]
                 \/ /\ place[q] # "none" \/ q = Local
                    /\ HasAnswered(q) => place'[q] \notin Unanswered
                    /\ place[q] # "done"
            BY <2>1, <2>2 DEF Moved, ShardTypeOK, Marks, Unanswered
        <3> QED BY <1>1, <2>2, <3>1, MovesKeep
    <2>4. CompletedApart' /\ Verdicts' /\ Hopeless'
        BY <1>1, <1>5, WriteCalm
    <2> QED BY <1>2, <2>3, <2>4 DEF CalmInv
<1> QED BY <1>3, <1>4, <1>5 DEF Process

(* This node writes the verdict of a get that it serves itself.             *)
LEMMA LocalCalm ==
    ASSUME TypeOK, PhaseInv, CalmInv, phase = "local", LocalMark, ~LocalFault
    PROVE  CalmInv'
<1> USE DEF shard, responses, outcome, TypeOK
<1>0. Local \in Responders
    BY DEF Responders
<1>1. /\ Batched(0) /\ CompletedApart /\ LocalVerdict /\ phase' = "local"
      /\ UNCHANGED <<others, sched, seen, completed, failed>> /\ place[Local] \in Marks
    BY DEF LocalMark, MarkCache, MarkOperation, MarkOperationId, CalmInv, Marks
<1>2. PICK p \in Marks \cup {"done"} : Moved(Local, p)
    BY DEF LocalMark, MarkCache, MarkOperation, MarkOperationId, Marks
<1>3. \A q \in Responders : place'[q] = IF q = Local THEN p ELSE place[q]
    BY <1>2 DEF Moved, ShardTypeOK
<1>4. Batched(0)'
    <2>1. \A q \in Responders :
             \/ place'[q] = place[q]
             \/ /\ place[q] # "none" \/ q = Local
                /\ HasAnswered(q) => place'[q] \notin Unanswered
                /\ place[q] # "done"
        BY <1>1, <1>2, <1>3 DEF Marks, Unanswered
    <2> QED BY <1>1, <2>1, MovesKeep
<1>5. CompletedApart'
    BY <1>1 DEF CompletedApart
<1>6. LocalVerdict'
    <2>1. CASE MarkCache(Local, TRUE)
        BY <1>0, <1>1, <2>1 DEF MarkCache, Moved, ShardTypeOK, LocalVerdict, Decided, Marks
    <2>2. CASE MarkOperation(Local)
        BY <1>0, <1>1, <2>2 DEF MarkOperation, Moved, ShardTypeOK, LocalVerdict, Decided, Marks
    <2>3. CASE MarkOperationId(Local)
        BY <1>0, <1>1, <2>3 DEF MarkOperationId, Moved, ShardTypeOK, LocalVerdict, Decided, Marks
    <2> QED BY <2>1, <2>2, <2>3 DEF LocalMark
<1> QED BY <1>1, <1>4, <1>5, <1>6 DEF CalmInv

LEMMA CalmKeeps ==
    ASSUME TypeOK, PhaseInv, Undisturbed => CalmInv, [Next]_vars
    PROVE  Undisturbed' => CalmInv'
<1> SUFFICES ASSUME Undisturbed' PROVE CalmInv'
    OBVIOUS
<1> USE DEF shard, responses, outcome
<1>1. CASE Begin
    <2>1. Undisturbed
        BY <1>1 DEF Undisturbed, Begin, TooFewNodes, FindShard, Invalid, Refuse, LocalGet,
                    LocalHit, LocalMiss, LocalThrows, LocalStep, NetworkGet
    <2> QED BY <1>1, <2>1, BeginCalm
<1>2. CASE Next /\ ~Begin
    <2>1. ~LocalFault /\ ~(\E r \in Responders : Fault(r))
        <3> SUFFICES ASSUME LocalFault \/ (\E r \in Responders : Fault(r)) PROVE FALSE
            OBVIOUS
        <3>1. faults' = faults + 1 /\ faults \in Nat /\ faults' = 0
            BY OperationAssumption DEF Undisturbed, Fault, LocalFault, TypeOK, ShardTypeOK
        <3> QED BY <3>1
    <2>2. CalmInv
        <3>1. faults' = faults
            BY <1>2, <2>1
               DEF Next, RequestStep, AddRequest, SendGet, Send, Busy, Answered, Process, Record,
                   JudgeEnough, JudgeNextBatch, JudgeHopeless, JudgeNothing, MarkCache,
                   MarkOperation, MarkOperationId, ScheduleStep, StartSchedule, EndSchedule
        <3> QED BY <3>1 DEF Undisturbed
    <2>3. CASE phase = "local" /\ LocalMark
        BY <2>1, <2>2, <2>3, LocalCalm
    <2>4. CASE phase = "asking" /\ place'[Local] = place[Local]
        <3>1. place[Local] = "none"
            BY <2>4 DEF PhaseInv
        <3>2. ~Process(Local)
            BY <3>1 DEF Process, Record, JudgeEnough, JudgeNextBatch, JudgeHopeless, JudgeNothing,
                        MarkCache, MarkOperation, MarkOperationId
        <3>3. \A r \in Responders : Process(r) => r \in Requests
            BY <3>2 DEF Responders
        <3> QED BY <1>2, <2>1, <2>2, <2>4, <3>3, RequestCalm, ScheduleCalm, ProcessCalm
                DEF Next, RequestStep
    <2> QED BY <1>2, <2>3, <2>4, AskingStep
<1>3. CASE UNCHANGED vars
    <2>1. Undisturbed /\ CalmInv
        BY <1>3 DEF Undisturbed, vars
    <2>2. Batched(0)'
        BY <1>3, <2>1, MovesKeep DEF vars, CalmInv
    <2>3. phase = "asking" => Verdicts' /\ Hopeless'
        BY <1>3, <2>1, UnderwayCalm DEF vars, CalmInv, TypeOK
    <2>4. phase = "local" => LocalVerdict'
        BY <1>3, <2>1 DEF vars, CalmInv, LocalVerdict, Decided
    <2>5. CompletedApart'
        BY <1>3, <2>1 DEF vars, CalmInv, CompletedApart
    <2> QED BY <1>3, <2>2, <2>3, <2>4, <2>5 DEF CalmInv, vars
<1> QED BY <1>1, <1>2, <1>3

LEMMA Inductive == Spec => []IInv
<1>1. Init => IInv
    BY InitType, InitKeeps DEF IInv
<1>2. IInv /\ [Next]_vars => IInv'
    <2> SUFFICES ASSUME IInv, [Next]_vars PROVE IInv'
        OBVIOUS
    <2>1. TypeOK /\ PhaseInv /\ (Undisturbed => CalmInv)
        BY DEF IInv
    <2>2. TypeOK'
        BY <2>1, TypeKeeps
    <2>3. PhaseInv'
        BY <2>1, PhaseKeeps
    <2>4. Undisturbed' => CalmInv'
        BY <2>1, CalmKeeps
    <2> QED BY <2>2, <2>3, <2>4 DEF IInv
<1> QED BY <1>1, <1>2, PTL DEF Spec

LEMMA GetIsRight == IInv => GetInv
<1> SUFFICES ASSUME IInv, Undisturbed PROVE GetInv
    BY DEF GetInv, AskedOnce, OneVerdictWriter, ResultThere
<1>1. TypeOK /\ PhaseInv /\ CalmInv
    BY DEF IInv
<1>2. Responders = Requests \cup {Local}
    BY DEF Responders
<1>3. AskedOnce
    BY <1>1 DEF AskedOnce, CalmInv, Batched, AskedInOrder
<1>4. OneVerdictWriter
    <2> SUFFICES ASSUME NEW r \in Responders, NEW q \in Responders,
                        place[r] \in Marks, place[q] \in Marks
                 PROVE  r = q
        BY DEF OneVerdictWriter
    <2>1. CASE phase = "asking"
        BY <1>1, <2>1, OneWriter DEF CalmInv
    <2>2. CASE phase # "asking"
        BY <1>1, <1>2, <2>2 DEF PhaseInv, Blank, Marks
    <2> QED BY <2>1, <2>2
<1>5. ResultThere
    BY <1>1 DEF ResultThere, PhaseInv, CalmInv, Verdicts, LocalVerdict, TypeOK
<1> QED BY <1>3, <1>4, <1>5 DEF GetInv

(* While nothing throws, no node is asked twice, at most one response       *)
(* writes the verdict, and a completed get has its result in the cache.    *)
THEOREM GetCorrect == Spec => []GetInv
BY Inductive, GetIsRight, PTL

-----------------------------------------------------------------------------
(* The operation implements OperationVerdict                               *)

Shard ==
    CASE phase = "asking" -> Asked
      [] LocalFound -> {0}
      [] OTHER -> {}
Acked == IF LocalAnswered THEN {0} ELSE Ackers
Refused == Heard \ Ackers

(* Outside the phases in which somebody is asked, nobody answered.          *)
LEMMA NotAsking ==
    ASSUME PhaseInv, phase # "asking"
    PROVE  Ackers = {} /\ Heard = {} /\ Refused = {} /\ (~LocalFound => Shard = {})
<1>1. Heard = {} /\ Ackers = {}
    BY DEF PhaseInv, Blank, HasAnswered, Heard, Ackers
<1> QED BY <1>1 DEF Refused, Shard

LEMMA VerdictInit == Init => Verdict!Init
<1> SUFFICES ASSUME Init PROVE Verdict!Init
    OBVIOUS
<1>1. Ackers = {} /\ Heard = {}
    BY DEF Init, InitWith, Unseen, Ackers, Heard
<1>2. ~LocalFound /\ ~LocalAnswered /\ phase # "asking" /\ opStatus = "IN_PROGRESS"
    BY DEF Init, InitWith, LocalFound, LocalAnswered
<1> QED BY <1>1, <1>2 DEF Verdict!Init

(* The cardinality of the instance is that of this module.                  *)
LEMMA SameCardinality == ASSUME NEW S PROVE Verdict!Cardinality(S) = Cardinality(S)
BY DEF Verdict!Cardinality, Cardinality

(* The steps before the shard is asked: it is asked, or this node takes     *)
(* the request itself, or the operation is refused.                         *)
LEMMA BeginVerdict ==
    ASSUME TypeOK, PhaseInv, Begin
    PROVE  Verdict!Next \/ UNCHANGED <<Shard, Acked, Refused, opStatus>>
<1> USE DEF shard, responses, outcome
<1>0. /\ MinAck \in Nat \ {0} /\ MaxOthers \in Nat /\ Local \in Responders
      /\ others \in Nat /\ others <= MaxOthers
    BY OperationAssumption DEF Responders, TypeOK, ShardTypeOK
<1>1. phase \notin {"asking", "local"} /\ opStatus = "IN_PROGRESS" /\ UNCHANGED seen
    BY DEF Begin, TooFewNodes, FindShard, Invalid, Refuse, LocalGet, LocalHit, LocalMiss,
           LocalThrows, LocalStep, NetworkGet, PhaseInv
<1>2. UNCHANGED <<Ackers, Heard>>
    BY <1>1 DEF Ackers, Heard
<1>3. Ackers = {} /\ Heard = {} /\ Refused = {} /\ ~LocalFound /\ ~LocalAnswered /\ Shard = {}
    BY <1>1, NotAsking DEF LocalFound, LocalAnswered
<1>4. Acked = {} /\ Refused' = {} /\ Ackers' = {}
    BY <1>2, <1>3 DEF Acked, Refused
<1>5. CASE Begin /\ ~Invalid /\ ~LocalHit /\ ~NetworkGet
    <2>1. ~LocalFound' /\ phase' # "asking" /\ UNCHANGED opStatus
        BY <1>0, <1>5 DEF Begin, TooFewNodes, FindShard, LocalGet, LocalMiss, LocalThrows, LocalStep,
                    Moved, LocalFound, TypeOK, ShardTypeOK
    <2> QED BY <1>3, <1>4, <2>1 DEF Shard, Acked, LocalAnswered
<1>6. CASE Invalid
    <2>1. ~LocalFound' /\ phase' # "asking" /\ opStatus' = "FAILED"
        BY <1>6 DEF Invalid, Refuse, LocalFound
    <2>2. Shard' = {} /\ Acked' = {}
        BY <1>4, <2>1 DEF Shard, Acked, LocalAnswered
    <2>3. Cardinality(Shard \ Refused) < MinAck
        BY <1>0, <1>3, FS_EmptySet
    <2>4. Verdict!Fail
        BY <1>1, <1>3, <1>4, <2>1, <2>2, <2>3, SameCardinality
           DEF Verdict!Fail, Shard, Acked, Refused
    <2> QED BY <2>4 DEF Verdict!Next
<1>7. CASE LocalHit
    <2>1. phase' = "local" /\ place'[Local] = "completing" /\ UNCHANGED opStatus
        BY <1>0, <1>7 DEF LocalHit, LocalStep, Moved, TypeOK, ShardTypeOK
    <2>2. LocalFound' /\ ~LocalAnswered'
        BY <1>1, <2>1 DEF LocalFound, LocalAnswered
    <2>3. Shard' = {0} /\ Acked' = {}
        BY <1>4, <2>1, <2>2 DEF Shard, Acked
    <2>4. {0} \in SUBSET (0 .. MaxOthers) /\ {0} # {}
        BY <1>0
    <2>5. Verdict!Ask
        BY <1>1, <1>3, <1>4, <2>1, <2>3, <2>4 DEF Verdict!Ask, Shard, Acked, Refused
    <2> QED BY <2>5 DEF Verdict!Next
<1>8. CASE NetworkGet
    <2>1. phase' = "asking" /\ UNCHANGED <<others, opStatus>>
        BY <1>8 DEF NetworkGet
    <2>2. ~LocalAnswered' /\ ~LocalFound'
        BY <2>1 DEF LocalAnswered, LocalFound
    <2>3. Shard' = 1 .. others /\ Acked' = {}
        <3>1. Asked' = 1 .. others
            BY <2>1 DEF Asked
        <3>2. Shard' = Asked'
            BY <2>1, <2>2 DEF Shard
        <3>3. Acked' = {}
            BY <1>4, <2>2 DEF Acked
        <3> QED BY <3>1, <3>2, <3>3
    <2>4. CASE others = 0
        <3>1. Shard' = {}
            BY <2>3, <2>4
        <3> QED BY <1>3, <1>4, <2>1, <2>3, <3>1
    <2>5. CASE others # 0
        <3>1. 1 .. others \in SUBSET (0 .. MaxOthers) /\ 1 .. others # {}
            <4>1. 1 \in 1 .. others
                BY <1>0, <2>5
            <4> QED BY <1>0, <4>1
        <3>2. Verdict!Ask
            BY <1>1, <1>3, <1>4, <2>1, <2>3, <3>1 DEF Verdict!Ask, Shard, Acked, Refused
        <3> QED BY <3>2 DEF Verdict!Next
    <2> QED BY <2>4, <2>5
<1> QED BY <1>5, <1>6, <1>7, <1>8

(* This node answers itself and marks the operation: with the minimum of    *)
(* one, its own copy is enough.                                            *)
LEMMA LocalVerdictStep ==
    ASSUME MinAck = 1, TypeOK, PhaseInv, CalmInv, phase = "local", LocalMark, ~LocalFault
    PROVE  Verdict!Next \/ UNCHANGED <<Shard, Acked, Refused, opStatus>>
<1> USE DEF shard, responses, outcome
<1>0. Local \in Responders /\ MaxOthers \in Nat
    BY OperationAssumption DEF Responders
<1>1. LocalVerdict /\ Blank /\ phase' = "local" /\ UNCHANGED seen
    BY DEF CalmInv, PhaseInv, LocalMark, MarkCache, MarkOperation, MarkOperationId
<1>2. UNCHANGED <<Ackers, Heard>>
    BY <1>1 DEF Ackers, Heard
<1>3. Ackers = {} /\ Heard = {} /\ Refused = {} /\ (~LocalFound => Shard = {})
    BY NotAsking
<1>4. Ackers' = {} /\ Refused' = {}
    BY <1>2, <1>3 DEF Refused
<1>5. CASE MarkCache(Local, TRUE)
    <2>1. /\ opStatus = "IN_PROGRESS" /\ UNCHANGED opStatus
          /\ \/ place[Local] = "completing" /\ place'[Local] = "completeOp"
             \/ place[Local] = "failing" /\ place'[Local] = "failOp"
        BY <1>0, <1>1, <1>5 DEF MarkCache, Moved, LocalVerdict, Decided, TypeOK, ShardTypeOK
    <2>2. CASE place[Local] = "completing"
        <3>1. LocalFound /\ ~LocalAnswered /\ LocalFound' /\ LocalAnswered'
            BY <1>1, <2>1, <2>2 DEF LocalFound, LocalAnswered
        <3>2. Shard = {0} /\ Shard' = {0} /\ Acked = {} /\ Acked' = {0}
            BY <1>1, <1>3, <3>1 DEF Shard, Acked
        <3>3. Verdict!Answer(0)
            BY <1>3, <1>4, <2>1, <3>2 DEF Verdict!Answer, Shard, Acked, Refused
        <3>4. 0 \in 0 .. MaxOthers
            BY <1>0
        <3> QED BY <3>3, <3>4 DEF Verdict!Next
    <2>3. CASE place[Local] = "failing"
        <3>1. ~LocalFound /\ ~LocalAnswered /\ ~LocalFound' /\ ~LocalAnswered'
            BY <2>1, <2>3 DEF LocalFound, LocalAnswered
        <3> QED BY <1>1, <1>3, <1>4, <2>1, <3>1 DEF Shard, Acked
    <2> QED BY <2>1, <2>2, <2>3
<1>6. CASE MarkOperation(Local)
    <2>1. /\ opStatus = "IN_PROGRESS"
          /\ \/ /\ place[Local] = "completeOp" /\ place'[Local] = "completeId"
                /\ opStatus' = "COMPLETED"
             \/ place[Local] = "failOp" /\ place'[Local] = "failId" /\ opStatus' = "FAILED"
        BY <1>0, <1>1, <1>6 DEF MarkOperation, Moved, LocalVerdict, Decided, TypeOK, ShardTypeOK
    <2>2. CASE place[Local] = "completeOp"
        <3>1. LocalFound /\ LocalAnswered /\ LocalFound' /\ LocalAnswered'
            BY <1>1, <2>1, <2>2 DEF LocalFound, LocalAnswered
        <3>2. Shard = {0} /\ Shard' = {0} /\ Acked = {0} /\ Acked' = {0}
            BY <1>1, <3>1 DEF Shard, Acked
        <3>3. Cardinality(Acked) >= MinAck
            <4>1. Cardinality({0}) = 1
                BY FS_Singleton
            <4> QED BY <3>2, <4>1
        <3>4. Verdict!Succeed
            BY <1>3, <1>4, <2>1, <2>2, <3>2, <3>3, SameCardinality
               DEF Verdict!Succeed, Shard, Acked, Refused
        <3> QED BY <3>4 DEF Verdict!Next
    <2>3. CASE place[Local] = "failOp"
        <3>1. ~LocalFound /\ ~LocalAnswered /\ ~LocalFound' /\ ~LocalAnswered'
            BY <2>1, <2>3 DEF LocalFound, LocalAnswered
        <3>2. Shard = {} /\ Shard' = {} /\ Acked = {} /\ Acked' = {}
            BY <1>1, <1>3, <1>4, <3>1 DEF Shard, Acked
        <3>3. Cardinality(Shard \ Refused) < MinAck
            BY <3>2, FS_EmptySet
        <3>4. Verdict!Fail
            BY <1>3, <1>4, <2>1, <2>3, <3>2, <3>3, SameCardinality
               DEF Verdict!Fail, Shard, Acked, Refused
        <3> QED BY <3>4 DEF Verdict!Next
    <2> QED BY <2>1, <2>2, <2>3
<1>7. CASE MarkOperationId(Local)
    <2>1. /\ UNCHANGED opStatus /\ place'[Local] = "done"
          /\ \/ place[Local] = "completeId" /\ opStatus = "COMPLETED"
             \/ place[Local] = "failId" /\ opStatus = "FAILED"
        BY <1>0, <1>1, <1>7 DEF MarkOperationId, Moved, LocalVerdict, TypeOK, ShardTypeOK
    <2>2. (LocalFound' <=> LocalFound) /\ (LocalAnswered' <=> LocalAnswered)
        BY <1>1, <2>1 DEF LocalFound, LocalAnswered
    <2> QED BY <1>1, <1>3, <1>4, <2>1, <2>2 DEF Shard, Acked
<1> QED BY <1>5, <1>6, <1>7 DEF LocalMark

(* A response is recorded, or the operation is marked; the rest stutters.   *)
LEMMA AskingVerdictStep ==
    ASSUME TypeOK, PhaseInv, CalmInv, phase = "asking", Next, ~Begin, faults' = 0
    PROVE  Verdict!Next \/ UNCHANGED <<Shard, Acked, Refused, opStatus>>
<1> USE DEF shard, responses, outcome
<1>0. /\ MinAck \in Nat \ {0} /\ others \in Nat /\ others <= MaxOthers /\ MaxOthers \in Nat
      /\ failed \in Nat
    BY OperationAssumption DEF TypeOK, ShardTypeOK
<1>1. UNCHANGED <<phase, others, inShard>>
    BY AskingStep
<1>2. /\ Shard = 1 .. others /\ Shard' = 1 .. others
      /\ Acked = Ackers /\ Acked' = Ackers'
    BY <1>1 DEF Shard, Acked, Asked, LocalAnswered, LocalFound
<1>3. Batched(0) /\ Verdicts /\ Hopeless /\ place[Local] = "none" /\ ShardTypeOK
    BY DEF CalmInv, PhaseInv, TypeOK
<1>4. Heard \subseteq (1 - 0) .. others /\ Cardinality(Ackers) = completed /\ IsFiniteSet(Refused)
      /\ Cardinality(Refused) = failed /\ Ackers \subseteq Heard
    BY <1>3, NodesCounted DEF Refused
<1>5. CASE \E r \in Responders : Record(r)
    <2>1. PICK r \in Responders : Record(r)
        BY <1>5
    <2>2. r # Local /\ UNCHANGED opStatus
        BY <1>3, <2>1 DEF Record
    <2>3. /\ r[1] \in ((1 - 0) .. others) \ Heard
          /\ \/ Ackers' = Ackers \cup {r[1]} /\ Refused' = Refused
             \/ Ackers' = Ackers /\ Refused' = Refused \cup {r[1]}
        BY <1>3, <2>1, <2>2, AnswerCounts DEF Refused
    <2>4. r[1] \in 0 .. MaxOthers /\ r[1] \in 1 .. others
        BY <1>0, <2>3
    <2>5. Verdict!Answer(r[1])
        BY <1>2, <1>4, <2>2, <2>3, <2>4 DEF Verdict!Answer, Shard, Acked, Refused
    <2> QED BY <2>4, <2>5 DEF Verdict!Next
<1>6. CASE \E r \in Responders : MarkOperation(r)
    <2>1. PICK r \in Responders : MarkOperation(r)
        BY <1>6
    <2>2. /\ UNCHANGED seen /\ opStatus = "IN_PROGRESS"
          /\ \/ opStatus' = "COMPLETED" /\ completed >= MinAck
             \/ opStatus' = "FAILED" /\ others - failed < MinAck
        <3>1. CASE place[r] = "completeOp"
            <4>1. Enough(r) /\ HasAnswered(r) /\ ~Decided
                BY <1>3, <3>1 DEF Verdicts, Completing, Marks
            <4>2. MinAck <= completed
                BY <1>3, <4>1 DEF Enough, Batched, ReadInOrder, ReadAt
            <4> QED BY <1>0, <1>3, <2>1, <3>1, <4>1, <4>2
                    DEF MarkOperation, Decided, ShardTypeOK
        <3>2. CASE place[r] = "failOp"
            <4>1. Doomed /\ ~Decided
                BY <1>3, <3>2 DEF Verdicts, Doomed, Failing
            <4> QED BY <1>3, <2>1, <3>2, <4>1 DEF MarkOperation, Decided, Hopeless
        <3> QED BY <2>1, <3>1, <3>2 DEF MarkOperation
    <2>3. Ackers' = Ackers /\ Refused' = Refused
        BY <2>2 DEF Ackers, Heard, Refused
    <2>4. CASE opStatus' = "COMPLETED" /\ completed >= MinAck
        <3>1. Verdict!Succeed
            BY <1>2, <1>4, <2>2, <2>3, <2>4, SameCardinality
               DEF Verdict!Succeed, Shard, Acked, Refused
        <3> QED BY <3>1 DEF Verdict!Next
    <2>5. CASE opStatus' = "FAILED" /\ others - failed < MinAck
        <3>1. IsFiniteSet(1 .. others) /\ Cardinality(1 .. others) = others
            BY <1>0, FS_Interval
        <3>2. (1 .. others) \cap Refused = Refused
            <4>1. (1 - 0) .. others = 1 .. others
                BY <1>0
            <4> QED BY <1>4, <4>1 DEF Refused
        <3>3. Cardinality((1 .. others) \ Refused)
                  = Cardinality(1 .. others) - Cardinality((1 .. others) \cap Refused)
            BY <3>1, FS_Difference
        <3>4. Cardinality((1 .. others) \ Refused) = others - failed
            BY <1>4, <3>1, <3>2, <3>3
        <3>5. Cardinality(Shard \ Refused) < MinAck
            BY <1>2, <2>5, <3>4
        <3>6. Verdict!Fail
            BY <1>2, <2>2, <2>3, <2>5, <3>5, SameCardinality
               DEF Verdict!Fail, Shard, Acked, Refused
        <3> QED BY <3>6 DEF Verdict!Next
    <2> QED BY <2>2, <2>4, <2>5
<1>7. CASE ~(\E r \in Responders : Record(r) \/ MarkOperation(r))
    <2>1. ~LocalFault
        BY <1>3 DEF LocalFault, Marks
    <2>2. UNCHANGED <<seen, opStatus>>
        BY <1>7, <2>1
           DEF Next, RequestStep, AddRequest, SendGet, Send, Busy, Answered, Process,
               JudgeEnough, JudgeNextBatch, JudgeHopeless, JudgeNothing, MarkCache,
               MarkOperationId, ScheduleStep, StartSchedule, EndSchedule, Fault
    <2>3. Ackers' = Ackers /\ Refused' = Refused
        BY <2>2 DEF Ackers, Heard, Refused
    <2> QED BY <1>2, <2>2, <2>3
<1> QED BY <1>5, <1>6, <1>7

LEMMA VerdictStep ==
    ASSUME MinAck = 1, IInv, [Next]_vars, Undisturbed'
    PROVE  [Verdict!Next]_Verdict!vars
<1> USE DEF Undisturbed
<1>1. TypeOK /\ PhaseInv /\ (Undisturbed => CalmInv)
    BY DEF IInv
<1>2. CASE Begin
    BY <1>1, <1>2, BeginVerdict DEF Verdict!vars, Shard, Acked, Refused
<1>3. CASE Next /\ ~Begin
    <2>1. ~LocalFault /\ Undisturbed
        <3>1. faults' = 0 /\ faults \in Nat
            BY <1>1, OperationAssumption DEF TypeOK, ShardTypeOK
        <3>2. ASSUME LocalFault \/ (\E r \in Responders : Fault(r)) PROVE faults' = faults + 1
            BY <3>2 DEF LocalFault, Fault
        <3>3. ~LocalFault /\ ~(\E r \in Responders : Fault(r))
            BY <3>1, <3>2
        <3>4. faults' = faults
            BY <1>3, <3>3
               DEF Next, RequestStep, AddRequest, SendGet, Send, Busy, Answered, Process, Record,
                   JudgeEnough, JudgeNextBatch, JudgeHopeless, JudgeNothing, MarkCache,
                   MarkOperation, MarkOperationId, ScheduleStep, StartSchedule, EndSchedule
        <3> QED BY <3>1, <3>3, <3>4
    <2>2. CASE phase = "local" /\ LocalMark
        BY <1>1, <2>1, <2>2, LocalVerdictStep DEF Verdict!vars, Shard, Acked, Refused
    <2>3. CASE phase = "asking"
        BY <1>1, <1>3, <2>1, <2>3, AskingVerdictStep DEF Verdict!vars, Shard, Acked, Refused
    <2> QED BY <1>1, <1>3, <2>2, <2>3, AskingStep
<1>4. CASE UNCHANGED vars
    BY <1>4 DEF vars, Verdict!vars, Asked, LocalFound, LocalAnswered, Ackers, Heard
<1> QED BY <1>2, <1>3, <1>4

(* With the minimum of one response that the code sets for a get, a get     *)
(* implements OperationVerdict while nothing throws, whether this node      *)
(* finds the assertion itself or asks the shard.                           *)
THEOREM GetImplementsVerdict == ASSUME MinAck = 1 PROVE Spec => ImplementsVerdict
<1>1. IInv /\ [Next]_vars => [Undisturbed' => Verdict!Next]_<<Verdict!vars>>
    <2> SUFFICES ASSUME IInv, [Next]_vars, Undisturbed'
                 PROVE  [Verdict!Next]_<<Verdict!vars>>
        OBVIOUS
    <2>1. [Verdict!Next]_Verdict!vars
        BY VerdictStep
    <2> QED BY <2>1
<1> QED BY <1>1, VerdictInit, Inductive, PTL DEF Spec, ImplementsVerdict
=============================================================================
