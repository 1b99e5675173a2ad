------------------------ MODULE PublishOperationProofs ------------------------
(***************************************************************************)
(* Proofs about PublishOperation, for every shard, batch size, minimum and *)
(* number of retries and exceptions: its types, what is true whatever      *)
(* throws, and what is true of the publish of a node of the shard while    *)
(* nothing throws, which includes that it implements OperationVerdict.     *)
(***************************************************************************)
EXTENDS PublishOperation, NetworkOperationProofs

-----------------------------------------------------------------------------
(* The inductive invariant                                                 *)

Preparing == {"finding", "found", "storing", "signing", "signed"}

(* Before the shard is asked nothing is there to be judged; this node only *)
(* goes through the local steps if it is in the shard, and signs twice.    *)
PhaseInv ==
    /\ phase # "asking" => Blank /\ place[Local] = "none" /\ ~minAcks
    /\ phase \in Preparing => opStatus = "IN_PROGRESS" /\ idStatus = "running" /\ cached
    /\ phase \in {"storing", "signing", "signed"} => inShard /\ ~IsOperationV0
    /\ phase \in {"signing", "signed"} => 0 \in signers
    /\ phase = "signed" => publisherSigned
    /\ phase = "asking" /\ inShard /\ ~IsOperationV0 => publisherSigned /\ 0 \in signers
    /\ place[Local] # "none" => inShard /\ ~IsOperationV0

(* An answer that counts, or is about to, has left its signature; a        *)
(* response whose processing has begun is in the table.                    *)
AnswerLeft ==
    /\ \A r \in Responders :
          seen[r].status = "COMPLETED" \/ place[r] = "acked" => r[1] \in signers
    /\ \A r \in Requests :
          place[r] \in {"recorded", "judging", "done"} \cup Marks => HasAnswered(r)

(* A responder whose counts are those of the end of its batch, or of the   *)
(* whole shard: it alone may give the verdict or go on.                    *)
Final(r) == HasAnswered(r) /\ (IsLast(1, r) \/ Total(r) = others + 1)

(* A write of a verdict is there: whoever may be asked has answered, and   *)
(* nobody will give another one.                                           *)
Finished == opStatus # "IN_PROGRESS" \/ ~cached \/ idStatus # "running"
Settled ==
    Finished =>
        /\ Quiet /\ HasAnswered(Local)
        /\ \A r \in Responders :
              Final(r) => place[r] \notin {"recorded", "judging", "completing", "failing"}

Verdicts ==
    /\ \A r \in Responders :
          /\ place[r] \in Marks => Final(r)
          /\ place[r] \in {"completing", "completeOp", "failing", "failOp"} => ~Decided
          /\ place[r] = "completeId" => opStatus = "COMPLETED"
          /\ place[r] = "failId" => opStatus = "FAILED"
          /\ place[r] \in {"completing", "completeOp"} => completed >= MinAck
          /\ place[r] \in {"failing", "failOp"} => others + 1 - failed < MinAck
          /\ place[r] \in {"recorded", "judging"} \cup Marks => HasAnswered(r)
    /\ opStatus = "FAILED" => others + 1 - failed < MinAck
    /\ idStatus # "running" => idStatus = opStatus
    /\ minAcks => completed >= MinAck

CalmInv == Batched(1) /\ (phase = "asking" => Settled /\ Verdicts)

IInv == TypeOK /\ PhaseInv /\ AnswerLeft /\ (Undisturbed => CalmInv)

-----------------------------------------------------------------------------
(* Types                                                                   *)

LEMMA InitType == Init => TypeOK
BY InitTypes DEF Init, InitWith, TypeOK

(* The steps that are not of the other modules' lemmas, by what they move.  *)
LEMMA BeginTypes ==
    ASSUME TypeOK, Begin
    PROVE  TypeOK'
<1> USE DEF shard, responses, outcome, signatures
<1>1. ASSUME NEW m \in 0 .. MaxOthers, NEW member \in Membership,
             TooFewNodes(m, member) \/ FindShard(m, member), UNCHANGED signatures
      PROVE  TypeOK'
    <2>1. ShardTypeOK'
        BY <1>1, FindTypes DEF TypeOK
    <2> QED BY <1>1, <2>1 DEF TypeOK, TooFewNodes, FindShard
<1>2. CASE Invalid /\ UNCHANGED signatures
    <2>1. ShardTypeOK'
        BY <1>2, RefuseTypes DEF TypeOK, Invalid
    <2> QED BY <1>2, <2>1 DEF TypeOK, Invalid, Refuse
<1>3. CASE LocalStoreFails /\ UNCHANGED signatures
    BY <1>3 DEF LocalStoreFails, TypeOK, ShardTypeOK
<1>4. CASE NetworkPublish /\ UNCHANGED signatures
    <2>1. sched' \in [Batches -> {"none", "waiting", "adding", "done"}]
        BY <1>4, ScheduledTypes DEF TypeOK, NetworkPublish
    <2> QED BY <1>4, <2>1 DEF NetworkPublish, TypeOK, ShardTypeOK
<1>5. CASE StoreLocally
    BY <1>5 DEF StoreLocally, LocalStep, TypeOK, ShardTypeOK
<1>6. CASE SignForNetwork
    <2>1. signers' \subseteq 0 .. MaxOthers
        BY <1>6, OperationAssumption DEF SignForNetwork, Local, TypeOK
    <2> QED BY <1>6, <2>1 DEF SignForNetwork, LocalStep, TypeOK, ShardTypeOK
<1>7. CASE SignAsPublisher
    BY <1>7 DEF SignAsPublisher, LocalStep, TypeOK, ShardTypeOK
<1>8. CASE AnswerLocally
    <2>1. place' \in [Responders -> Places]
        BY <1>8, MovedTypes DEF AnswerLocally, TypeOK, Responders, Places, Processing
    <2> QED BY <1>8, <2>1 DEF AnswerLocally, LocalStep, TypeOK, ShardTypeOK
<1> QED BY <1>1, <1>2, <1>3, <1>4, <1>5, <1>6, <1>7, <1>8 DEF Begin, LocalStore

(* What a judgement moves to is a place.                                   *)
LEMMA JudgeTypes ==
    ASSUME TypeOK, NEW r \in Responders, UNCHANGED signatures,
           CheckMinAcks(r) \/ JudgeAll(r) \/ JudgeNextBatch(r) \/ JudgeHopeless(r) \/ JudgeNothing(r)
    PROVE  TypeOK'
<1> USE DEF shard, responses, outcome, signatures, TypeOK
<1>1. place' \in [Responders -> Places]
    <2>1. PICK p \in Places : Moved(r, p)
        BY DEF CheckMinAcks, JudgeAll, JudgeNextBatch, JudgeHopeless, JudgeNothing,
               Places, Processing, Marks
    <2> QED BY <2>1, MovedTypes
<1>2. sched' \in [Batches -> {"none", "waiting", "adding", "done"}]
    <2>1. Scheduled(LeftFrom(r)) \/ UNCHANGED sched
        BY DEF CheckMinAcks, JudgeAll, JudgeNextBatch, JudgeHopeless, JudgeNothing
    <2> QED BY <2>1, ScheduledTypes DEF ShardTypeOK
<1>3. minAcks' \in BOOLEAN
    BY DEF CheckMinAcks, JudgeAll, JudgeNextBatch, JudgeHopeless, JudgeNothing, ShardTypeOK
<1>4. UNCHANGED <<phase, others, inShard, tries, seen, completed, failed, opStatus, idStatus,
                  cached, faults>>
    BY DEF CheckMinAcks, JudgeAll, JudgeNextBatch, JudgeHopeless, JudgeNothing
<1> QED BY <1>1, <1>2, <1>3, <1>4 DEF ShardTypeOK

LEMMA TypeKeeps == ASSUME TypeOK, [Next]_publishVars PROVE TypeOK'
<1> USE DEF shard, responses, outcome, signatures
<1>1. CASE Begin
    BY <1>1, BeginTypes
<1>2. ASSUME NEW r \in Responders, UNCHANGED signatures,
             AddRequest(r) \/ Busy(r) \/ Record(r) \/ MarkCache(r, FALSE)
                \/ MarkOperation(r) \/ MarkOperationId(r) \/ Fault(r)
      PROVE  TypeOK'
    <2>1. ShardTypeOK'
        BY <1>2, RequestTypes, ProcessTypes DEF TypeOK
    <2> QED BY <1>2, <2>1
            DEF TypeOK, AddRequest, Busy, Record, MarkCache, MarkOperation, MarkOperationId, Fault
<1>3. ASSUME NEW r \in Responders, UNCHANGED signatures, SendStore(r)
      PROVE  TypeOK'
    <2>1. ShardTypeOK'
        <3>1. CASE Send(r)
            BY <3>1, RequestTypes DEF TypeOK
        <3>2. CASE ~Send(r)
            <4>1. place' \in [Responders -> Places] /\ tries' \in [Responders -> -1 .. Retries]
                BY <1>3, <3>2, ThrownTypes DEF SendStore, TypeOK
            <4> QED BY <1>3, <3>2, <4>1 DEF SendStore, TypeOK, ShardTypeOK
        <3> QED BY <3>1, <3>2
    <2> QED BY <1>3, <2>1 DEF TypeOK, SendStore, Send
<1>4. ASSUME NEW r \in Responders, AnsweredSigned(r)
      PROVE  TypeOK'
    <2>1. ShardTypeOK'
        BY <1>4, RequestTypes DEF TypeOK, AnsweredSigned
    <2>2. r[1] \in 0 .. MaxOthers
        BY OperationAssumption DEF Responders, Requests, Local, Nodes
    <2> QED BY <1>4, <2>1, <2>2 DEF TypeOK, AnsweredSigned, Answered
<1>5. ASSUME NEW r \in Responders, UNCHANGED signatures,
             CheckMinAcks(r) \/ JudgeAll(r) \/ JudgeNextBatch(r) \/ JudgeHopeless(r) \/ JudgeNothing(r)
      PROVE  TypeOK'
    BY <1>5, JudgeTypes
<1>6. ASSUME NEW b \in Batches, ScheduleStep(b), UNCHANGED signatures
      PROVE  TypeOK'
    <2>1. ShardTypeOK'
        BY <1>6, ScheduleTypes DEF TypeOK
    <2> QED BY <1>6, <2>1 DEF TypeOK, ScheduleStep, StartSchedule, EndSchedule
<1>7. ASSUME NEW r \in Responders, SigningFails(r), UNCHANGED signatures
      PROVE  TypeOK'
    <2>1. place' \in [Responders -> Places] /\ tries' \in [Responders -> -1 .. Retries]
        BY <1>7, ThrownTypes DEF SigningFails, TypeOK
    <2>2. faults' \in 0 .. MaxFaults
        BY <1>7, OperationAssumption DEF SigningFails, TypeOK, ShardTypeOK
    <2> QED BY <1>7, <2>1, <2>2 DEF SigningFails, TypeOK, ShardTypeOK
<1>8. CASE LocalFault /\ UNCHANGED signatures
    <2>1. place' \in [Responders -> Places]
        BY <1>8, MovedTypes DEF LocalFault, TypeOK, Responders, Places
    <2>2. faults' \in 0 .. MaxFaults
        BY <1>8, OperationAssumption DEF LocalFault, TypeOK, ShardTypeOK
    <2> QED BY <1>8, <2>1, <2>2 DEF LocalFault, TypeOK, ShardTypeOK
<1>9. CASE UNCHANGED publishVars
    BY <1>9 DEF publishVars, vars, TypeOK, ShardTypeOK
<1> QED BY <1>1, <1>2, <1>3, <1>4, <1>5, <1>6, <1>7, <1>8, <1>9
        DEF Next, RequestStep, Process, Disturb

(* The operation keeps its types, whatever throws.                          *)
THEOREM PublishTypeCorrect == Spec => []TypeOK
<1>1. TypeOK /\ [Next]_publishVars => TypeOK'
    BY TypeKeeps
<1> QED BY InitType, <1>1, PTL DEF Spec

-----------------------------------------------------------------------------
(* Whatever throws                                                         *)

LEMMA InitKeeps == Init => PhaseInv /\ AnswerLeft /\ CalmInv
<1> SUFFICES ASSUME Init PROVE PhaseInv /\ AnswerLeft /\ CalmInv
    OBVIOUS
<1>1. /\ \A r \in Responders : place[r] = "none" /\ seen[r].status = "none"
      /\ Local \in Responders /\ Requests \subseteq Responders
    BY DEF Init, InitWith, Unseen, Responders
<1>2. Blank
    BY <1>1 DEF Init, InitWith, Blank, HasAnswered
<1>3. PhaseInv
    BY <1>1, <1>2 DEF Init, InitWith, PhaseInv, Preparing
<1>4. AnswerLeft
    BY <1>1 DEF AnswerLeft, Marks
<1>5. CalmInv
    BY <1>2, BlankIsBatched DEF CalmInv, Init, InitWith
<1> QED BY <1>3, <1>4, <1>5

LEMMA BeginPhase == ASSUME TypeOK, PhaseInv, Begin PROVE PhaseInv'
<1> USE DEF shard, responses, outcome, signatures, TypeOK
<1>0. /\ Local \in Responders /\ Requests \subseteq Responders /\ Local \notin Requests
      /\ Local[1] = 0
    BY RequestBatch DEF Responders, Local
<1>1. ASSUME NEW m, NEW member, TooFewNodes(m, member) \/ FindShard(m, member),
             UNCHANGED signatures
      PROVE  PhaseInv'
    BY <1>1, <1>0 DEF TooFewNodes, FindShard, PhaseInv, Preparing, Blank, HasAnswered
<1>2. CASE (Invalid \/ LocalStoreFails) /\ UNCHANGED signatures
    BY <1>2, <1>0 DEF Invalid, Refuse, LocalStoreFails, PhaseInv, Preparing, Blank, HasAnswered
<1>3. CASE NetworkPublish /\ UNCHANGED signatures
    BY <1>3, <1>0 DEF NetworkPublish, PhaseInv, Preparing
<1>4. CASE StoreLocally
    BY <1>4, <1>0 DEF StoreLocally, LocalStep, PhaseInv, Preparing, Blank, HasAnswered
<1>5. CASE SignForNetwork
    BY <1>5, <1>0 DEF SignForNetwork, LocalStep, PhaseInv, Preparing, Blank, HasAnswered
<1>6. CASE SignAsPublisher
    BY <1>6, <1>0 DEF SignAsPublisher, LocalStep, PhaseInv, Preparing, Blank, HasAnswered
<1>7. CASE AnswerLocally
    BY <1>7, <1>0 DEF AnswerLocally, LocalStep, PhaseInv, Preparing
<1> QED BY <1>1, <1>2, <1>3, <1>4, <1>5, <1>6, <1>7 DEF Begin, LocalStore

(* Every other step is one of an operation that asks the network.          *)
LEMMA AskingStep ==
    ASSUME TypeOK, PhaseInv, Next, ~Begin
    PROVE  /\ phase = "asking" /\ UNCHANGED <<phase, others, inShard, publisherSigned>>
           /\ signers \subseteq signers'
           /\ place[Local] = "none" => place'[Local] = "none"
<1> USE DEF shard, responses, outcome, signatures, TypeOK
<1>0. Local \in Responders /\ Responders = Requests \cup {Local} /\ Local \notin Requests
    BY RequestBatch DEF Responders
<1>1. ASSUME NEW r \in Responders, UNCHANGED signatures,
             SendStore(r) \/ Busy(r) \/ Process(r) \/ Fault(r) \/ SigningFails(r)
      PROVE  /\ UNCHANGED <<phase, others, inShard>> /\ place[r] # "none"
             /\ \A q \in Responders : q # r => place'[q] = place[q]
    <2>1. UNCHANGED <<phase, others, inShard>> /\ place[r] # "none"
        BY <1>1 DEF SendStore, Send, Busy, Process, Record, CheckMinAcks, JudgeAll, JudgeNextBatch,
                    JudgeHopeless, JudgeNothing, MarkCache, MarkOperation, MarkOperationId,
                    Fault, SigningFails, Processing, Marks
    <2>2. \E p : Moved(r, p)
        BY <1>1 DEF SendStore, Send, Busy, Process, Record, CheckMinAcks, JudgeAll, JudgeNextBatch,
                    JudgeHopeless, JudgeNothing, MarkCache, MarkOperation, MarkOperationId,
                    Fault, SigningFails, Thrown
    <2>3. \A q \in Responders : q # r => place'[q] = place[q]
        BY <2>2 DEF Moved, ShardTypeOK
    <2> QED BY <2>1, <2>3
<1>2. ASSUME NEW r \in Responders, AddRequest(r), UNCHANGED signatures
      PROVE  /\ UNCHANGED <<phase, others, inShard>> /\ r # Local /\ place'[Local] = place[Local]
             /\ \E b \in Batches : sched[b] # "none"
    BY <1>2, <1>0, RequestBatch DEF AddRequest, ShardTypeOK
<1>3. ASSUME NEW r \in Responders, AnsweredSigned(r)
      PROVE  /\ UNCHANGED <<phase, others, inShard, publisherSigned>> /\ place[r] # "none"
             /\ signers \subseteq signers' /\ \A q \in Responders : q # r => place'[q] = place[q]
    BY <1>3 DEF AnsweredSigned, Answered, Moved, ShardTypeOK
<1>4. ASSUME NEW b \in Batches, ScheduleStep(b), UNCHANGED signatures
      PROVE  UNCHANGED <<phase, others, inShard, place>> /\ sched[b] # "none"
    BY <1>4 DEF ScheduleStep, StartSchedule, EndSchedule
<1>5. CASE LocalFault /\ UNCHANGED signatures
    BY <1>5, <1>0 DEF LocalFault, Processing, Marks, PhaseInv
<1>6. ASSUME \/ \E r \in Responders : place[r] # "none"
             \/ \E b \in Batches : sched[b] # "none"
      PROVE  phase = "asking"
    BY <1>0, <1>6 DEF PhaseInv, Blank
<1>7. \/ Begin
      \/ LocalFault /\ UNCHANGED signatures
      \/ (\E r \in Responders : UNCHANGED signatures /\
             (SendStore(r) \/ Busy(r) \/ Process(r) \/ Fault(r) \/ SigningFails(r)))
      \/ (\E r \in Responders : AddRequest(r) /\ UNCHANGED signatures)
      \/ (\E r \in Responders : AnsweredSigned(r))
      \/ (\E b \in Batches : ScheduleStep(b) /\ UNCHANGED signatures)
    BY DEF Next, RequestStep, Disturb
<1>8. CASE LocalFault /\ UNCHANGED signatures
    BY <1>5, <1>8
<1>9. CASE \E r \in Responders : UNCHANGED signatures /\
             (SendStore(r) \/ Busy(r) \/ Process(r) \/ Fault(r) \/ SigningFails(r))
    <2>1. PICK r \in Responders : UNCHANGED signatures /\
             (SendStore(r) \/ Busy(r) \/ Process(r) \/ Fault(r) \/ SigningFails(r))
        BY <1>9
    <2>2. /\ UNCHANGED <<phase, others, inShard>> /\ place[r] # "none"
          /\ \A q \in Responders : q # r => place'[q] = place[q]
        BY <2>1, <1>1
    <2> QED BY <1>0, <2>1, <2>2, <1>6
<1>10. CASE \E r \in Responders : AddRequest(r) /\ UNCHANGED signatures
    BY <1>2, <1>6, <1>10
<1>11. CASE \E r \in Responders : AnsweredSigned(r)
    BY <1>0, <1>3, <1>6, <1>11
<1>12. CASE \E b \in Batches : ScheduleStep(b) /\ UNCHANGED signatures
    <2>1. PICK b \in Batches : ScheduleStep(b) /\ UNCHANGED signatures
        BY <1>12
    <2>2. UNCHANGED <<phase, others, inShard, place>> /\ sched[b] # "none"
        BY <2>1, <1>4
    <2> QED BY <2>1, <2>2, <1>6
<1> QED BY <1>7, <1>8, <1>9, <1>10, <1>11, <1>12

LEMMA PhaseKeeps == ASSUME TypeOK, PhaseInv, [Next]_publishVars PROVE PhaseInv'
<1>1. CASE Begin
    BY <1>1, BeginPhase
<1>2. CASE Next /\ ~Begin
    BY <1>2, AskingStep DEF PhaseInv, Preparing
<1>3. CASE UNCHANGED publishVars
    BY <1>3 DEF publishVars, vars, signatures, PhaseInv, Blank, HasAnswered
<1> QED BY <1>1, <1>2, <1>3

(* No answer becomes positive, none is taken back, and a request is over   *)
(* only after its response is there.                                       *)
Forward(q) ==
    \/ place'[q] = place[q]
    \/ q = Local /\ place'[q] = "done"
    \/ place'[q] \in {"none", "ready", "sent", "nacked", "lost"}
    \/ /\ place[q] \in {"recorded", "judging"} \cup Marks
       /\ place'[q] \in {"judging", "done"} \cup Marks
Forwards ==
    UNCHANGED seen /\ signers \subseteq signers' /\ \A q \in Responders : Forward(q)

LEMMA AnswerMoves == ASSUME AnswerLeft, Forwards PROVE AnswerLeft'
<1>1. Requests \subseteq Responders /\ Local \notin Requests
    BY RequestBatch DEF Responders
<1> QED BY <1>1 DEF AnswerLeft, Forwards, Forward, HasAnswered, Marks

LEMMA AnswerKeeps == ASSUME TypeOK, PhaseInv, AnswerLeft, [Next]_publishVars PROVE AnswerLeft'
<1> USE DEF shard, responses, outcome, signatures
<1>0. Local \in Responders /\ Responders = Requests \cup {Local} /\ Local \notin Requests
    BY RequestBatch DEF Responders
<1>1. CASE Begin /\ ~AnswerLocally
    <2>1. UNCHANGED <<seen, place>> /\ signers \subseteq signers'
        BY <1>1 DEF Begin, TooFewNodes, FindShard, Invalid, Refuse, LocalStoreFails, NetworkPublish,
                    LocalStore, StoreLocally, SignForNetwork, SignAsPublisher, LocalStep
    <2>2. Forwards
        BY <2>1 DEF Forwards, Forward
    <2> QED BY <2>2, AnswerMoves
<1>2. CASE AnswerLocally
    BY <1>0, <1>2 DEF AnswerLocally, LocalStep, Moved, PhaseInv, AnswerLeft, HasAnswered,
                      Local, Marks, TypeOK, ShardTypeOK
<1>3. ASSUME NEW r \in Responders, UNCHANGED signatures,
             AddRequest(r) \/ SendStore(r) \/ Busy(r) \/ Fault(r) \/ SigningFails(r)
      PROVE  AnswerLeft'
    <2>1. /\ UNCHANGED seen
          /\ \A q \in Responders :
                place'[q] = place[q] \/ place'[q] \in {"ready", "sent", "nacked", "lost"}
        BY <1>3 DEF AddRequest, SendStore, Send, Busy, Fault, SigningFails, Thrown, Moved,
                    TypeOK, ShardTypeOK
    <2>2. Forwards
        BY <1>3, <2>1 DEF Forwards, Forward
    <2> QED BY <2>2, AnswerMoves
<1>4. ASSUME NEW r \in Responders, UNCHANGED signatures, Record(r)
      PROVE  AnswerLeft'
    <2>1. \A q \in Responders : place'[q] = IF q = r THEN "recorded" ELSE place[q]
        BY <1>4 DEF Record, Moved, TypeOK, ShardTypeOK
    <2>2. seen'[r].status = IF place[r] = "acked" THEN "COMPLETED" ELSE "FAILED"
        BY <1>4 DEF Record, TypeOK, ShardTypeOK
    <2>3. \A q \in Responders : q # r => seen'[q] = seen[q]
        BY <1>4 DEF Record, TypeOK, ShardTypeOK
    <2> QED BY <1>0, <1>4, <2>1, <2>2, <2>3 DEF AnswerLeft, HasAnswered, Marks
<1>5. ASSUME NEW r \in Responders, UNCHANGED signatures, Process(r), ~Record(r)
      PROVE  AnswerLeft'
    <2>1. /\ UNCHANGED seen /\ place[r] \in {"recorded", "judging"} \cup Marks
          /\ \E p \in {"judging", "done"} \cup Marks : Moved(r, p)
        BY <1>5 DEF Process, CheckMinAcks, JudgeAll, JudgeNextBatch, JudgeHopeless, JudgeNothing,
                    MarkCache, MarkOperation, MarkOperationId, Marks
    <2>2. \A q \in Responders : q # r => place'[q] = place[q]
        BY <2>1 DEF Moved, TypeOK, ShardTypeOK
    <2>3. place'[r] \in {"judging", "done"} \cup Marks
        BY <2>1 DEF Moved, TypeOK, ShardTypeOK
    <2>4. Forwards
        BY <1>5, <2>1, <2>2, <2>3 DEF Forwards, Forward
    <2> QED BY <2>4, AnswerMoves
<1>6. ASSUME NEW r \in Responders, AnsweredSigned(r)
      PROVE  AnswerLeft'
    <2>1. /\ UNCHANGED seen /\ place'[r] \in {"acked", "nacked"} /\ signers \subseteq signers'
          /\ place'[r] = "acked" => r[1] \in signers'
          /\ \A q \in Responders : q # r => place'[q] = place[q]
        BY <1>6 DEF AnsweredSigned, Answered, Moved, TypeOK, ShardTypeOK
    <2> QED BY <1>0, <2>1 DEF AnswerLeft, HasAnswered, Marks
<1>7. ASSUME NEW b \in Batches, ScheduleStep(b), UNCHANGED signatures
      PROVE  AnswerLeft'
    <2>1. UNCHANGED <<seen, place>>
        BY <1>7 DEF ScheduleStep, StartSchedule, EndSchedule
    <2>2. Forwards
        BY <1>7, <2>1 DEF Forwards, Forward
    <2> QED BY <2>2, AnswerMoves
<1>8. CASE LocalFault /\ UNCHANGED signatures
    <2>1. UNCHANGED seen /\ \A q \in Responders : place'[q] = IF q = Local THEN "done" ELSE place[q]
        BY <1>0, <1>8 DEF LocalFault, Moved, TypeOK, ShardTypeOK
    <2>2. Forwards
        BY <1>8, <2>1 DEF Forwards, Forward
    <2> QED BY <2>2, AnswerMoves
<1>9. CASE UNCHANGED publishVars
    <2>1. Forwards
        BY <1>9 DEF publishVars, vars, Forwards, Forward
    <2> QED BY <2>1, AnswerMoves
<1> QED BY <1>1, <1>2, <1>3, <1>4, <1>5, <1>6, <1>7, <1>8, <1>9
        DEF Next, RequestStep, Disturb

-----------------------------------------------------------------------------
(* A node of the shard, while nothing throws                               *)

(* A responder that may give the verdict is alone, and all have answered.   *)
LEMMA FinalIsQuiet ==
    ASSUME ShardTypeOK, Batched(1), NEW r \in Responders, Final(r), place[r] # "done"
    PROVE  Quiet /\ HasAnswered(Local) /\ completed + failed = Total(r)
<1>1. Quiet /\ completed + failed = Total(r)
    BY LastIsQuiet, AllIsQuiet DEF Final
<1>2. CASE r = Local
    BY <1>1, <1>2 DEF Final
<1>3. CASE r # Local
    <2>1. r \in Requests /\ place[r] # "none"
        BY <1>3 DEF Responders, Final, Batched, AskedInOrder, Unanswered
    <2>2. <<BatchOf(r[1]), 1>> \in Batches /\ sched[<<BatchOf(r[1]), 1>>] # "none"
        BY <2>1, RequestBatch, OperationAssumption DEF Batched, AskedInOrder, Copies
    <2>3. PrefixAnswered(1, BatchOf(r[1])) /\ 0 \in (1 - 1) .. BatchOf(r[1])
        BY <2>1, <2>2, RequestBatch DEF Batched, AskedInOrder
    <2> QED BY <1>1, <2>3 DEF PrefixAnswered, Local
<1> QED BY <1>2, <1>3

LEMMA OneFinal ==
    ASSUME ShardTypeOK, Batched(1), NEW r \in Responders, Final(r), place[r] # "done",
           NEW q \in Responders, Final(q), place[q] # "done"
    PROVE  q = r
<1>1. Total(r) = Total(q) /\ HasAnswered(r) /\ HasAnswered(q)
    BY FinalIsQuiet DEF Final
<1> QED BY <1>1 DEF Batched, ReadInOrder, ReadAt

(* When all is quiet no answer is awaited any more.                         *)
LEMMA QuietIsOver ==
    ASSUME Batched(1), Quiet, HasAnswered(Local), NEW r \in Responders
    PROVE  place[r] \notin {"ready", "sent", "acked", "nacked"}
<1>1. CASE r = Local
    BY <1>1 DEF Batched, AskedInOrder, Unanswered
<1>2. CASE r # Local
    <2>1. r \in Requests
        BY <1>2 DEF Responders
    <2>2. place[r] # "none" => HasAnswered(r)
        BY <2>1 DEF Batched, AskedInOrder, Quiet, MayBeAsked
    <2> QED BY <2>2 DEF Batched, AskedInOrder, Unanswered
<1> QED BY <1>1, <1>2

(* Requests on their way to an answer, and schedules, disturb no verdict.   *)
LEMMA UnderwayCalm ==
    ASSUME TypeOK, Settled, Verdicts,
           UNCHANGED <<others, seen, completed, failed, minAcks, opStatus, cached>>,
           idStatus' \in {idStatus, "running"},
           \A b \in Batches : sched'[b] # "none" => sched[b] # "none",
           \A q \in Responders :
              place'[q] = place[q] \/ (place[q] \in Unanswered /\ place'[q] \in Unanswered)
    PROVE  Settled' /\ Verdicts'
<1>1. \A q \in Responders : /\ Final(q)' <=> Final(q)
                            /\ HasAnswered(q)' <=> HasAnswered(q)
    BY DEF Final, IsLast, HasAnswered, Total
<1>2. Quiet => Quiet'
    BY RequestBatch, OperationAssumption DEF Quiet, MayBeAsked, HasAnswered, Copies
<1>3. Settled'
    <2>1. ASSUME Finished' PROVE Finished
        BY <2>1 DEF Finished
    <2>2. HasAnswered(Local) => HasAnswered(Local)'
        BY DEF HasAnswered
    <2>3. ASSUME NEW q \in Responders, Finished, Final(q)'
          PROVE  place'[q] \notin {"recorded", "judging", "completing", "failing"}
        BY <1>1, <2>3 DEF Settled, Unanswered
    <2> QED BY <1>2, <2>1, <2>2, <2>3 DEF Settled
<1>4. Verdicts'
    <2>1. \A q \in Responders : place'[q] \in {"recorded", "judging"} \cup Marks => place'[q] = place[q]
        BY DEF Unanswered, Marks
    <2> QED BY <1>1, <2>1 DEF Verdicts, Marks, Decided
<1> QED BY <1>3, <1>4

LEMMA RecordCalm ==
    ASSUME TypeOK, Batched(1), Settled, Verdicts, NEW r \in Responders, Record(r)
    PROVE  Settled' /\ Verdicts'
<1> USE DEF shard, outcome, TypeOK
<1>1. ~HasAnswered(r) /\ UNCHANGED <<others, sched, minAcks, opStatus, idStatus, cached>>
    BY DEF Batched, AskedInOrder, Unanswered, Record
<1>2. /\ completed <= completed' /\ failed <= failed' /\ HasAnswered(r)'
      /\ \A q \in Responders : q # r => seen'[q] = seen[q]
    BY <1>1, RecordCounts DEF Batched, HasAnswered
<1>3. \A q \in Responders : place'[q] = IF q = r THEN "recorded" ELSE place[q]
    BY DEF Record, Moved, ShardTypeOK
<1>4. ~Finished
    BY QuietIsOver DEF Settled, Record
<1>5. Settled'
    BY <1>1, <1>4 DEF Settled, Finished
<1>6. \A q \in Responders : q # r => (Final(q) => Final(q)') /\ (HasAnswered(q) => HasAnswered(q)')
    BY <1>1, <1>2 DEF Final, IsLast, HasAnswered, Total
<1>7. /\ completed >= MinAck => completed' >= MinAck
      /\ others + 1 - failed < MinAck => others' + 1 - failed' < MinAck
    <2>1. /\ completed' \in Int /\ failed' \in Int /\ others' = others
          /\ completed \in Int /\ failed \in Int /\ others \in Int /\ MinAck \in Int
        BY <1>1, ProcessTypes, OperationAssumption DEF ShardTypeOK
    <2>2. PICK c \in Int, f \in Int : c = completed' /\ f = failed'
        BY <2>1
    <2>3. completed <= c /\ failed <= f
        BY <1>2, <2>2
    <2>4. /\ completed >= MinAck => c >= MinAck
          /\ others + 1 - failed < MinAck => others + 1 - f < MinAck
        BY <2>1, <2>3
    <2> QED BY <2>1, <2>2, <2>4
<1>8. Verdicts'
    <2>1. ASSUME NEW q \in Responders
          PROVE  /\ place'[q] \in Marks => Final(q)'
                 /\ place'[q] \in {"completing", "completeOp", "failing", "failOp"} => ~Decided'
                 /\ place'[q] = "completeId" => opStatus' = "COMPLETED"
                 /\ place'[q] = "failId" => opStatus' = "FAILED"
                 /\ place'[q] \in {"completing", "completeOp"} => completed' >= MinAck
                 /\ place'[q] \in {"failing", "failOp"} => others' + 1 - failed' < MinAck
                 /\ place'[q] \in {"recorded", "judging"} \cup Marks => HasAnswered(q)'
        <3>1. CASE q = r
            BY <1>2, <1>3, <3>1 DEF Marks
        <3>2. CASE q # r
            BY <1>1, <1>3, <1>6, <1>7, <3>2 DEF Verdicts, Decided
        <3> QED BY <3>1, <3>2
    <2> QED BY <1>1, <1>7, <2>1 DEF Verdicts
<1> QED BY <1>5, <1>8

(* A response is judged, or not, without a verdict.                        *)
LEMMA JudgedCalm ==
    ASSUME TypeOK, Batched(1), Settled, Verdicts, NEW r \in Responders,
           CheckMinAcks(r) \/ JudgeNothing(r)
    PROVE  Settled' /\ Verdicts'
<1> USE DEF shard, responses, outcome, TypeOK
<1>1. PICK p \in {"judging", "done"} : Moved(r, p) /\ (place[r] = "recorded" \/ p = "done")
    <2>1. CASE CheckMinAcks(r)
        BY <2>1 DEF CheckMinAcks
    <2>2. CASE JudgeNothing(r)
        BY <2>2 DEF JudgeNothing
    <2> QED BY <2>1, <2>2
<1>2. \A q \in Responders : place'[q] = IF q = r THEN p ELSE place[q]
    BY <1>1 DEF Moved, ShardTypeOK
<1>3. /\ UNCHANGED <<others, sched, seen, completed, failed, opStatus, idStatus, cached>>
      /\ place[r] \in {"recorded", "judging"}
      /\ minAcks' => minAcks \/ seen[r].completed = MinAck
    <2>1. CASE CheckMinAcks(r)
        <3>1. minAcks' = (minAcks \/ seen[r].completed = MinAck)
            BY <2>1 DEF CheckMinAcks
        <3> QED BY <2>1, <3>1 DEF CheckMinAcks
    <2>2. CASE JudgeNothing(r)
        BY <2>2 DEF JudgeNothing
    <2> QED BY <2>1, <2>2
<1>4. \A q \in Responders : /\ Final(q)' <=> Final(q)
                            /\ HasAnswered(q)' <=> HasAnswered(q)
    BY <1>3 DEF Final, IsLast, HasAnswered, Total
<1>5. Settled'
    <2>1. HasAnswered(Local) => HasAnswered(Local)'
        BY <1>3 DEF HasAnswered
    <2>2. (Finished' <=> Finished) /\ (Quiet => Quiet')
        BY <1>3 DEF Finished, Quiet, MayBeAsked, HasAnswered
    <2>3. ASSUME NEW q \in Responders, Finished, Final(q)'
          PROVE  place'[q] \notin {"recorded", "judging", "completing", "failing"}
        BY <1>2, <1>3, <1>4, <2>3 DEF Settled
    <2> QED BY <2>1, <2>2, <2>3 DEF Settled
<1>6. Verdicts'
    <2>1. HasAnswered(r) /\ seen[r].completed <= completed
        BY <1>3 DEF Verdicts, Batched, ReadInOrder, ReadAt
    <2>2. minAcks' => completed' >= MinAck
        BY <1>3, <2>1, OperationAssumption DEF Verdicts, ShardTypeOK
    <2> QED BY <1>1, <1>2, <1>3, <1>4, <2>1, <2>2 DEF Verdicts, Decided, Marks
<1> QED BY <1>5, <1>6

(* The end of a batch that goes on: nobody has given a verdict.             *)
LEMMA GoesOnCalm ==
    ASSUME TypeOK, Batched(1), Settled, Verdicts, NEW r \in Responders,
           HasAnswered(r), JudgeNextBatch(r)
    PROVE  Batched(1)' /\ Settled' /\ Verdicts'
<1> USE DEF shard, responses, outcome, TypeOK
<1>1. IsLast(1, r)
    BY EndIsLast DEF JudgeNextBatch, EndOfBatch, Batched
<1>2. Batched(1)'
    BY <1>1, NextBatchKeeps DEF JudgeNextBatch
<1>3. \A q \in Responders : place'[q] = IF q = r THEN "done" ELSE place[q]
    BY DEF JudgeNextBatch, Moved, ShardTypeOK
<1>4. UNCHANGED <<others, seen, completed, failed, minAcks, opStatus, idStatus, cached>>
    BY DEF JudgeNextBatch
<1>5. ~Finished
    BY <1>1 DEF Settled, Final, JudgeNextBatch
<1>6. Settled'
    BY <1>4, <1>5 DEF Settled, Finished
<1>7. \A q \in Responders : /\ Final(q)' <=> Final(q)
                            /\ HasAnswered(q)' <=> HasAnswered(q)
    BY <1>4 DEF Final, IsLast, HasAnswered, Total
<1>8. Verdicts'
    BY <1>3, <1>4, <1>7 DEF Verdicts, Decided, Marks
<1> QED BY <1>2, <1>6, <1>8

(* A verdict: its responder is final, and the counts it read justify it.    *)
LEMMA JudgeIsJust ==
    ASSUME TypeOK, inShard, Batched(1), NEW r \in Responders, HasAnswered(r),
           JudgeAll(r) \/ JudgeHopeless(r)
    PROVE  /\ Final(r)
           /\ \/ Moved(r, "completing") /\ completed >= MinAck
              \/ Moved(r, "failing") /\ others + 1 - failed < MinAck
<1> DEFINE c == seen[r].completed
           f == seen[r].failed
<1>1. /\ c \in Nat /\ f \in Nat /\ completed \in Nat /\ failed \in Nat /\ others \in Nat
      /\ MinAck \in Nat /\ LeftFrom(r) \in Nat
    BY OperationAssumption, RequestBatch DEF TypeOK, ShardTypeOK, LeftFrom, Responders
<1>2. c <= completed /\ f <= failed /\ Total(r) = c + f
    BY DEF Batched, ReadInOrder, ReadAt, Total
<1>3. CASE JudgeAll(r)
    <2>1. Total(r) = others + 1
        BY <1>3 DEF JudgeAll, AllResponded, Found
    <2>2. c >= MinAck => completed >= MinAck
        BY <1>1, <1>2
    <2>3. ~(c >= MinAck) => others + 1 - failed < MinAck
        BY <1>1, <1>2, <2>1
    <2>4. Moved(r, IF c >= MinAck THEN "completing" ELSE "failing")
        BY <1>3 DEF JudgeAll
    <2> HIDE DEF c, f
    <2> QED BY <2>1, <2>2, <2>3, <2>4 DEF Final
<1>4. CASE JudgeHopeless(r)
    <2>1. IsLast(1, r)
        BY <1>4, EndIsLast DEF JudgeHopeless, EndOfBatch, Batched, TypeOK
    <2>2. Total(r) = LeftFrom(r) + 1 /\ ~(c + Left(r) >= MinAck) /\ Moved(r, "failing")
        BY <1>4, <2>1 DEF IsLast, JudgeHopeless, CanStillReach
    <2>3. others - LeftFrom(r) <= Left(r) /\ Left(r) \in Nat
        BY <1>1 DEF Left
    <2>4. others + 1 - failed < MinAck
        <3> HIDE DEF c, f
        <3> QED BY <1>1, <1>2, <2>2, <2>3
    <2> QED BY <2>1, <2>2, <2>4 DEF Final
<1> QED BY <1>3, <1>4

LEMMA VerdictCalm ==
    ASSUME TypeOK, inShard, Batched(1), Settled, Verdicts, NEW r \in Responders,
           HasAnswered(r), JudgeAll(r) \/ JudgeHopeless(r)
    PROVE  Settled' /\ Verdicts'
<1> USE DEF shard, responses, outcome, TypeOK
<1>1. PICK p \in {"completing", "failing"} :
          /\ Moved(r, p)
          /\ p = "completing" => completed >= MinAck
          /\ p = "failing" => others + 1 - failed < MinAck
    BY JudgeIsJust
<1>2. \A q \in Responders : place'[q] = IF q = r THEN p ELSE place[q]
    BY <1>1 DEF Moved, ShardTypeOK
<1>3. /\ UNCHANGED <<others, sched, seen, completed, failed, minAcks, opStatus, idStatus, cached>>
      /\ place[r] = "judging"
    BY DEF JudgeAll, JudgeHopeless
<1>4. Final(r)
    BY JudgeIsJust
<1>5. ~Finished
    BY <1>3, <1>4 DEF Settled
<1>6. Settled'
    BY <1>3, <1>5 DEF Settled, Finished
<1>7. \A q \in Responders : /\ Final(q)' <=> Final(q)
                            /\ HasAnswered(q)' <=> HasAnswered(q)
    BY <1>3 DEF Final, IsLast, HasAnswered, Total
<1>8. Verdicts'
    <2>1. ~Decided
        BY <1>5 DEF Finished, Decided
    <2> QED BY <1>1, <1>2, <1>3, <1>4, <1>7, <2>1 DEF Verdicts, Decided, Marks
<1> QED BY <1>6, <1>8

(* The three writes of a verdict.  Its responder is final, so it is the    *)
(* only one to write, and all is settled.                                  *)
LEMMA WriteIsFinal ==
    ASSUME TypeOK, Batched(1), Verdicts, NEW r \in Responders, place[r] \in Marks
    PROVE  /\ Final(r) /\ HasAnswered(r) /\ Quiet /\ HasAnswered(Local)
           /\ \A q \in Responders : Final(q) /\ place[q] # "done" => q = r
<1>1. Final(r) /\ HasAnswered(r) /\ place[r] # "done"
    BY DEF Verdicts, Marks
<1> QED BY <1>1, FinalIsQuiet, OneFinal DEF TypeOK

LEMMA WriteCalm ==
    ASSUME TypeOK, Batched(1), Verdicts, NEW r \in Responders,
           MarkCache(r, FALSE) \/ MarkOperation(r) \/ MarkOperationId(r)
    PROVE  Settled' /\ Verdicts'
<1> USE DEF shard, responses, outcome, TypeOK
<1>0. /\ place[r] \in Marks
      /\ UNCHANGED <<others, sched, seen, completed, failed, minAcks>>
    BY DEF MarkCache, MarkOperation, MarkOperationId, Marks
<1>1. PICK p \in {"completeOp", "completeId", "failOp", "failId", "done"} : Moved(r, p)
    BY DEF MarkCache, MarkOperation, MarkOperationId
<1>2. \A q \in Responders : place'[q] = IF q = r THEN p ELSE place[q]
    BY <1>1 DEF Moved, ShardTypeOK
<1>3. /\ Final(r) /\ HasAnswered(r) /\ Quiet /\ HasAnswered(Local)
      /\ \A q \in Responders : Final(q) /\ place[q] # "done" => q = r
    BY <1>0, WriteIsFinal
<1>4. \A q \in Responders : /\ Final(q)' <=> Final(q)
                            /\ HasAnswered(q)' <=> HasAnswered(q)
    BY <1>0 DEF Final, IsLast, HasAnswered, Total
<1>5. Settled'
    <2>1. Quiet' /\ HasAnswered(Local)'
        BY <1>0, <1>3 DEF Quiet, MayBeAsked, HasAnswered
    <2>2. ASSUME NEW q \in Responders, Final(q)'
          PROVE  place'[q] \notin {"recorded", "judging", "completing", "failing"}
        BY <1>2, <1>3, <1>4, <2>2
    <2> QED BY <2>1, <2>2 DEF Settled
<1>6. \A q \in Responders : q # r => place[q] \notin Marks
    BY <1>3 DEF Verdicts, Marks
<1>7. CASE MarkCache(r, FALSE)
    <2>1. UNCHANGED <<opStatus, idStatus>>
        BY <1>7 DEF MarkCache
    <2>2. \/ place[r] = "completing" /\ place'[r] = "completeOp"
          \/ place[r] = "failing" /\ place'[r] = "failOp"
        BY <1>7 DEF MarkCache, Moved, ShardTypeOK
    <2>3. Verdicts'
        BY <1>0, <1>2, <1>3, <1>4, <1>6, <2>1, <2>2 DEF Verdicts, Decided, Marks
    <2> QED BY <1>5, <2>3
<1>8. CASE MarkOperation(r)
    <2>1. \/ place[r] = "completeOp" /\ place'[r] = "completeId" /\ opStatus' = "COMPLETED"
          \/ place[r] = "failOp" /\ place'[r] = "failId" /\ opStatus' = "FAILED"
        BY <1>8 DEF MarkOperation, Moved, ShardTypeOK
    <2>2. opStatus = "IN_PROGRESS"
        BY <2>1 DEF Verdicts, Decided
    <2>3. idStatus' = "running"
        BY <1>8, <2>2 DEF MarkOperation, Verdicts, ShardTypeOK
    <2>4. Verdicts'
        BY <1>0, <1>2, <1>3, <1>4, <1>6, <2>1, <2>3 DEF Verdicts, Decided, Marks
    <2> QED BY <1>5, <2>4
<1>9. CASE MarkOperationId(r)
    <2>1. UNCHANGED opStatus /\ place'[r] = "done"
        BY <1>9 DEF MarkOperationId, Moved, ShardTypeOK
    <2>2. \/ place[r] = "completeId" /\ idStatus' = "COMPLETED"
          \/ place[r] = "failId" /\ idStatus' = "FAILED"
        BY <1>9 DEF MarkOperationId
    <2>3. Verdicts'
        BY <1>0, <1>2, <1>3, <1>4, <1>6, <2>1, <2>2 DEF Verdicts, Decided, Marks
    <2> QED BY <1>5, <2>3
<1> QED BY <1>7, <1>8, <1>9

-----------------------------------------------------------------------------
(* Every step                                                              *)

LEMMA BeginCalm ==
    ASSUME TypeOK, PhaseInv, CalmInv, Begin, Undisturbed'
    PROVE  CalmInv'
<1> USE DEF shard, responses, outcome, TypeOK
<1>1. CASE Begin /\ ~AnswerLocally /\ ~NetworkPublish
    <2>1. Blank /\ UNCHANGED <<sched, place, seen, completed, failed>> /\ phase' # "asking"
        BY <1>1 DEF Begin, TooFewNodes, FindShard, Invalid, Refuse, LocalStoreFails, LocalStore,
                    StoreLocally, SignForNetwork, SignAsPublisher, LocalStep, PhaseInv
    <2>2. Batched(1)'
        BY <2>1, BlankKeeps
    <2> QED BY <2>1, <2>2 DEF CalmInv
<1>2. CASE NetworkPublish
    BY <1>2 DEF NetworkPublish, Undisturbed
<1>3. CASE AnswerLocally
    <2>1. /\ Blank /\ ~minAcks /\ opStatus = "IN_PROGRESS" /\ idStatus = "running" /\ cached
          /\ UNCHANGED <<others, sched, seen, completed, failed, minAcks, opStatus, idStatus, cached>>
          /\ place[Local] = "none"
        BY <1>3 DEF AnswerLocally, LocalStep, PhaseInv, Preparing
    <2>2. \A q \in Responders : place'[q] = IF q = Local THEN "acked" ELSE "none"
        BY <1>3, <2>1 DEF AnswerLocally, Moved, ShardTypeOK, Blank, Responders
    <2>3. Batched(1)'
        <3>1. \A q \in Responders :
                 \/ place'[q] = place[q]
                 \/ /\ place[q] # "none" \/ q = Local
                    /\ HasAnswered(q) => place'[q] \notin Unanswered
                    /\ place[q] # "done"
            BY <2>1, <2>2 DEF Blank, Responders
        <3> QED BY <2>1, <3>1, BlankIsBatched, MovesKeep
    <2>4. Settled'
        BY <2>1 DEF Settled, Finished
    <2>5. Verdicts'
        BY <2>1, <2>2 DEF Verdicts, Marks
    <2> QED BY <2>3, <2>4, <2>5 DEF CalmInv
<1> QED BY <1>1, <1>2, <1>3

(* A step of a request that moves it from unanswered to unanswered.         *)
LEMMA RequestCalm ==
    ASSUME TypeOK, CalmInv, phase = "asking", NEW r \in Responders,
           AddRequest(r) \/ SendStore(r) \/ Busy(r) \/ Answered(r)
    PROVE  CalmInv'
<1> USE DEF shard, responses, outcome, TypeOK
<1>1. UNCHANGED <<phase, others, sched, seen, completed, failed, minAcks, opStatus, idStatus, cached>>
    BY DEF AddRequest, SendStore, Send, Busy, Answered
<1>2. PICK p \in Unanswered \ {"none"} :
         /\ \A q \in Responders : place'[q] = IF q = r THEN p ELSE place[q]
         /\ place[r] \in Unanswered /\ (place[r] = "none" => AddRequest(r))
    BY DEF AddRequest, SendStore, Send, Busy, Answered, Thrown, Moved, ShardTypeOK, Unanswered
<1>3. Batched(1)'
    <2>1. CASE AddRequest(r)
        BY <2>1, AddRequestKeeps DEF CalmInv
    <2>2. CASE ~AddRequest(r)
        <3>1. ~HasAnswered(r)
            BY <1>2 DEF CalmInv, Batched, AskedInOrder
        <3>2. \A q \in Responders :
                 \/ place'[q] = place[q]
                 \/ /\ place[q] # "none" \/ q = Local
                    /\ HasAnswered(q) => place'[q] \notin Unanswered
                    /\ place[q] # "done"
            BY <1>2, <2>2, <3>1 DEF Unanswered
        <3> QED BY <1>1, <3>2, MovesKeep DEF CalmInv
    <2> QED BY <2>1, <2>2
<1>4. Settled' /\ Verdicts'
    <2>1. \A q \in Responders :
              place'[q] = place[q] \/ (place[q] \in Unanswered /\ place'[q] \in Unanswered)
        BY <1>2
    <2> QED BY <1>1, <2>1, UnderwayCalm DEF CalmInv
<1> QED BY <1>1, <1>3, <1>4 DEF CalmInv

LEMMA ScheduleCalm ==
    ASSUME TypeOK, CalmInv, phase = "asking", NEW b \in Batches, ScheduleStep(b)
    PROVE  CalmInv'
<1> USE DEF shard, responses, TypeOK
<1>1. /\ UNCHANGED <<phase, others, place, seen, completed, failed, minAcks, opStatus, cached>>
      /\ idStatus' = "running" /\ sched[b] # "none"
    BY DEF ScheduleStep, StartSchedule, EndSchedule
<1>2. PICK s \in {"adding", "done"} : sched' = [sched EXCEPT ![b] = s]
    BY DEF ScheduleStep, StartSchedule, EndSchedule
<1>3. \A a \in Batches : sched'[a] # "none" <=> sched[a] # "none"
    BY <1>1, <1>2 DEF ShardTypeOK
<1>4. Batched(1)'
    BY <1>1, <1>3, MovesKeep DEF CalmInv
<1>5. Settled' /\ Verdicts'
    BY <1>1, <1>3, UnderwayCalm DEF CalmInv
<1> QED BY <1>1, <1>4, <1>5 DEF CalmInv

LEMMA ProcessCalm ==
    ASSUME TypeOK, CalmInv, phase = "asking", inShard, NEW r \in Responders, Process(r)
    PROVE  CalmInv'
<1> USE DEF shard, responses, outcome, TypeOK
<1>1. Batched(1) /\ Settled /\ Verdicts
    BY DEF CalmInv
<1>2. phase' = "asking"
    BY DEF Process, Record, CheckMinAcks, JudgeAll, JudgeNextBatch, JudgeHopeless, JudgeNothing,
           MarkCache, MarkOperation, MarkOperationId
<1>3. CASE Record(r)
    <2>1. Batched(1)'
        BY <1>1, <1>3, RecordKeeps
    <2>2. Settled' /\ Verdicts'
        BY <1>1, <1>3, RecordCalm
    <2> QED BY <2>1, <2>2 DEF CalmInv
<1>4. ~Record(r) => HasAnswered(r)
    BY <1>1 DEF Process, CheckMinAcks, JudgeAll, JudgeNextBatch, JudgeHopeless, JudgeNothing,
                MarkCache, MarkOperation, MarkOperationId, Verdicts, Marks
<1>5. CASE JudgeNextBatch(r)
    <2>1. Batched(1)' /\ Settled' /\ Verdicts'
        BY <1>1, <1>4, <1>5, GoesOnCalm DEF Record, JudgeNextBatch
    <2> QED BY <2>1 DEF CalmInv
<1>6. CASE ~Record(r) /\ ~JudgeNextBatch(r)
    <2>1. /\ UNCHANGED <<others, sched, seen, completed, failed>>
          /\ place[r] \in {"recorded", "judging"} \cup Marks
        BY <1>6 DEF Process, CheckMinAcks, JudgeAll, JudgeHopeless, JudgeNothing,
                    MarkCache, MarkOperation, MarkOperationId, Marks
    <2>2. PICK p \in {"judging", "done"} \cup Marks : Moved(r, p)
        BY <1>6 DEF Process, CheckMinAcks, JudgeAll, JudgeHopeless, JudgeNothing,
                    MarkCache, MarkOperation, MarkOperationId, Marks
    <2>3. Batched(1)'
        <3>1. \A q \in Responders :
                 \/ place'[q] = place[q]
                 \/ /\ place[q] # "none" \/ q = Local
                    /\ HasAnswered(q) => place'[q] \notin Unanswered
                    /\ place[q] # "done"
            BY <2>1, <2>2 DEF Moved, ShardTypeOK, Marks, Unanswered
        <3> QED BY <1>1, <2>1, <3>1, MovesKeep
    <2>4. Settled' /\ Verdicts'
        BY <1>1, <1>4, <1>6, JudgedCalm, VerdictCalm, WriteCalm DEF Process
    <2> QED BY <2>3, <2>4 DEF CalmInv
<1> QED BY <1>3, <1>5, <1>6

LEMMA CalmKeeps ==
    ASSUME TypeOK, PhaseInv, Undisturbed => CalmInv, [Next]_publishVars
    PROVE  Undisturbed' => CalmInv'
<1> SUFFICES ASSUME Undisturbed' PROVE CalmInv'
    OBVIOUS
<1> USE DEF shard, responses, outcome, signatures
<1>1. CASE Begin
    <2>1. Undisturbed
        BY <1>1 DEF Undisturbed, Begin, TooFewNodes, FindShard, Invalid, Refuse, LocalStoreFails,
                    NetworkPublish, LocalStore, StoreLocally, SignForNetwork, SignAsPublisher,
                    AnswerLocally, LocalStep
    <2> QED BY <1>1, <2>1, BeginCalm
<1>2. CASE Next /\ ~Begin
    <2>1. phase = "asking" /\ inShard /\ ~IsOperationV0 /\ faults' = 0
        BY <1>2, AskingStep DEF Undisturbed
    <2>2. ~Disturb
        <3> SUFFICES ASSUME Disturb PROVE FALSE
            OBVIOUS
        <3>1. faults' = faults + 1 /\ faults \in Nat
            BY OperationAssumption
               DEF Disturb, Fault, SigningFails, LocalFault, TypeOK, ShardTypeOK
        <3> QED BY <2>1, <3>1
    <2>3. faults = 0
        BY <1>2, <2>1, <2>2
           DEF Next, RequestStep, AddRequest, SendStore, Send, Busy, AnsweredSigned, Answered,
               Process, Record, CheckMinAcks, JudgeAll, JudgeNextBatch, JudgeHopeless, JudgeNothing,
               MarkCache, MarkOperation, MarkOperationId, ScheduleStep, StartSchedule, EndSchedule
    <2>4. CalmInv
        BY <2>1, <2>3 DEF Undisturbed
    <2> QED BY <1>2, <2>1, <2>2, <2>4, RequestCalm, ScheduleCalm, ProcessCalm
            DEF Next, RequestStep, AnsweredSigned
<1>3. CASE UNCHANGED publishVars
    <2>1. Undisturbed /\ CalmInv
        BY <1>3 DEF Undisturbed, publishVars, vars
    <2>2. Batched(1)'
        BY <1>3, <2>1, MovesKeep DEF publishVars, vars, CalmInv
    <2>3. phase = "asking" => Settled' /\ Verdicts'
        BY <1>3, <2>1, UnderwayCalm DEF publishVars, vars, CalmInv, TypeOK
    <2> QED BY <1>3, <2>2, <2>3 DEF CalmInv, publishVars, vars
<1> QED BY <1>1, <1>2, <1>3

LEMMA Inductive == Spec => []IInv
<1>1. Init => IInv
    BY InitType, InitKeeps DEF IInv
<1>2. IInv /\ [Next]_publishVars => IInv'
    <2> SUFFICES ASSUME IInv, [Next]_publishVars PROVE IInv'
        OBVIOUS
    <2>1. TypeOK /\ PhaseInv /\ AnswerLeft /\ (Undisturbed => CalmInv)
        BY DEF IInv
    <2>2. TypeOK'
        BY <2>1, TypeKeeps
    <2>3. PhaseInv'
        BY <2>1, PhaseKeeps
    <2>4. AnswerLeft'
        BY <2>1, AnswerKeeps
    <2>5. Undisturbed' => CalmInv'
        BY <2>1, CalmKeeps
    <2> QED BY <2>2, <2>3, <2>4, <2>5 DEF IInv
<1> QED BY <1>1, <1>2, PTL DEF Spec

-----------------------------------------------------------------------------
(* What the invariant says of the nodes                                    *)

LEMMA ToldIsStored == IInv => MinAcksTold
<1> SUFFICES ASSUME IInv, Undisturbed, minAcks PROVE Cardinality(Ackers) >= MinAck
    BY DEF MinAcksTold, MinAcksDistinct
<1>1. TypeOK /\ Batched(1) /\ phase = "asking" /\ Verdicts
    BY DEF IInv, CalmInv, PhaseInv
<1>2. completed >= MinAck
    BY <1>1 DEF Verdicts
<1> QED BY <1>1, <1>2, NodesCounted DEF TypeOK

LEMMA FailedIsHopeless == IInv => MemberFailedIsHopeless
<1> SUFFICES ASSUME IInv, Undisturbed, phase = "asking", opStatus = "FAILED"
             PROVE  Cardinality(Ackers) + Found - Cardinality(Heard) < MinAck
    BY DEF MemberFailedIsHopeless
<1>1. TypeOK /\ Batched(1) /\ Verdicts /\ Found = others + 1
    BY DEF IInv, CalmInv, Undisturbed, Found
<1>2. others + 1 - failed < MinAck
    BY <1>1 DEF Verdicts
<1>3. completed \in Int /\ failed \in Int /\ others \in Int /\ MinAck \in Int
    BY <1>1, OperationAssumption DEF TypeOK, ShardTypeOK
<1>4. completed + (others + 1) - (completed + failed) < MinAck
    BY <1>2, <1>3
<1>5. Cardinality(Ackers) = completed /\ Cardinality(Heard) = completed + failed
    BY <1>1, NodesCounted DEF TypeOK
<1> QED BY <1>1, <1>4, <1>5

LEMMA PublishIsRight == IInv => PublishInv
<1> SUFFICES ASSUME IInv PROVE PublishInv
    OBVIOUS
<1>1. TypeOK /\ PhaseInv /\ AnswerLeft /\ (Undisturbed => CalmInv)
    BY DEF IInv
<1>2. Requests \subseteq Responders /\ Responders = Requests \cup {Local}
    BY DEF Responders
<1>3. AskedOnce
    BY <1>1 DEF AskedOnce, CalmInv, Batched, AskedInOrder
<1>4. DatasetThere
    <2> SUFFICES ASSUME Undisturbed, NEW r \in Requests, place[r] = "ready", ~cached PROVE FALSE
        BY <1>1 DEF DatasetThere
    <2>1. phase = "asking" /\ CalmInv
        BY <1>1 DEF PhaseInv, Blank
    <2>2. Quiet /\ HasAnswered(Local) /\ Batched(1)
        BY <2>1 DEF CalmInv, Settled, Finished
    <2> QED BY <1>2, <2>2, QuietIsOver
<1>5. NoLostResponse
    BY <1>1 DEF AnswerLeft, NoLostResponse, HasAnswered
<1>6. ReportAgrees
    BY <1>1 DEF ReportAgrees, CalmInv, Verdicts
<1>7. SignaturesThere
    <2>1. Ackers \subseteq signers
        BY <1>1 DEF Ackers, AnswerLeft
    <2>2. minAcks /\ inShard /\ ~IsOperationV0 => publisherSigned
        BY <1>1 DEF PhaseInv
    <2> QED BY <2>1, <2>2 DEF SignaturesThere
<1> QED BY <1>3, <1>4, <1>5, <1>6, <1>7 DEF PublishInv

(* The client is told that the minimum replication is reached only when    *)
(* MinAck different nodes have stored the dataset (of a node of the shard, *)
(* while nothing throws).                                                  *)
THEOREM ClientToldIsReplicated == Spec => []MinAcksTold
BY Inductive, ToldIsStored, PTL

(* A publish of a node of the shard fails only when the nodes that have not *)
(* answered could not make up the minimum.                                 *)
THEOREM FailsOnlyWhenHopeless == Spec => []MemberFailedIsHopeless
BY Inductive, FailedIsHopeless, PTL

(* Every node is asked once, from a cache that holds the dataset; a request *)
(* that is over left a response and an answer that counts its signature;   *)
(* and the client is shown the verdict of the operation.                   *)
THEOREM PublishCorrect == Spec => []PublishInv
BY Inductive, PublishIsRight, PTL

-----------------------------------------------------------------------------
(* The operation implements OperationVerdict                               *)

Shard == IF phase = "asking" THEN Asked \cup (IF inShard THEN {0} ELSE {}) ELSE {}
Refused == Heard \ Ackers

LEMMA VerdictInit == Init => Verdict!Init
<1> SUFFICES ASSUME Init PROVE Verdict!Init
    OBVIOUS
<1>1. Ackers = {} /\ Heard = {}
    BY DEF Init, InitWith, Unseen, Ackers, Heard
<1> QED BY <1>1 DEF Verdict!Init, Init, InitWith

(* The nodes that answered, and those that refused, are of the shard.       *)
LEMMA HeardOfShard ==
    ASSUME TypeOK, Batched(1), phase = "asking", inShard
    PROVE  /\ Heard \subseteq Shard /\ IsFiniteSet(Shard) /\ Cardinality(Shard) = others + 1
           /\ IsFiniteSet(Refused) /\ Cardinality(Refused) = failed
<1>1. others \in Nat
    BY OperationAssumption DEF TypeOK, ShardTypeOK
<1>2. Shard = (1 - 1) .. others
    BY <1>1 DEF Shard, Asked
<1>3. IsFiniteSet(Shard) /\ Cardinality(Shard) = others + 1
    BY <1>1, <1>2, FS_Interval
<1> QED BY <1>2, <1>3, NodesCounted DEF Refused, TypeOK

(* A response is an answer of its node, which had not answered.             *)
LEMMA RecordAnswers ==
    ASSUME TypeOK, Batched(1), phase = "asking", inShard, NEW r \in Responders, Record(r)
    PROVE  /\ r[1] \in Shard \ Heard
           /\ \/ Ackers' = Ackers \cup {r[1]} /\ Refused' = Refused
              \/ Ackers' = Ackers /\ Refused' = Refused \cup {r[1]}
<1>1. Shard = (1 - 1) .. others
    BY OperationAssumption DEF Shard, Asked, TypeOK, ShardTypeOK
<1> QED BY <1>1, AnswerCounts DEF Refused, TypeOK

(* The cardinality of the instance is that of this module.                  *)
LEMMA SameCardinality == ASSUME NEW S PROVE Verdict!Cardinality(S) = Cardinality(S)
BY DEF Verdict!Cardinality, Cardinality

(* An answer is recorded, or the operation is marked; the rest stutters.    *)
LEMMA VerdictStep ==
    ASSUME IInv, [Next]_publishVars, Undisturbed'
    PROVE  [Verdict!Next]_Verdict!vars
<1> USE DEF shard, responses, outcome, signatures, Verdict!vars
<1>0. /\ TypeOK /\ PhaseInv /\ (Undisturbed => CalmInv)
      /\ MinAck \in Nat \ {0} /\ others \in Nat /\ others <= MaxOthers /\ MaxOthers \in Nat
    BY OperationAssumption DEF IInv, TypeOK, ShardTypeOK
(* Steps that leave the mapped variables alone.                            *)
<1>1. CASE UNCHANGED <<Shard, seen, opStatus>>
    <2>1. UNCHANGED <<Ackers, Heard>>
        BY <1>1 DEF Ackers, Heard
    <2> QED BY <1>1, <2>1 DEF Shard
<1>2. CASE Begin
    <2>1. CASE AnswerLocally
        <3>1. /\ phase # "asking" /\ phase' = "asking" /\ inShard /\ opStatus = "IN_PROGRESS"
              /\ UNCHANGED <<others, inShard, seen, opStatus>>
            BY <2>1, <1>0 DEF AnswerLocally, LocalStep, PhaseInv, Preparing
        <3>2. UNCHANGED <<Ackers, Heard>>
            BY <3>1 DEF Ackers, Heard
        <3>3. Shard = {} /\ Shard' = 0 .. others
            BY <1>0, <3>1 DEF Shard, Asked
        <3>4. 0 .. others \in SUBSET (0 .. MaxOthers) /\ 0 .. others # {}
            BY <1>0
        <3>5. Verdict!Ask
            BY <3>1, <3>2, <3>3, <3>4 DEF Verdict!Ask, Shard
        <3> QED BY <3>5 DEF Verdict!Next
    <2>2. CASE NetworkPublish
        BY <2>2 DEF NetworkPublish, Undisturbed
    <2>3. CASE Invalid
        <3>1. /\ phase # "asking" /\ phase' # "asking" /\ UNCHANGED seen
              /\ opStatus = "IN_PROGRESS" /\ opStatus' = "FAILED"
            BY <2>3, <1>0 DEF Invalid, Refuse, PhaseInv, Preparing
        <3>2. UNCHANGED <<Ackers, Heard>>
            BY <3>1 DEF Ackers, Heard
        <3>3. Shard = {} /\ Shard' = {}
            BY <3>1 DEF Shard
        <3>4. Cardinality(Shard \ Refused) < MinAck
            BY <1>0, <3>3, FS_EmptySet
        <3>5. Verdict!Fail
            BY <3>1, <3>2, <3>3, <3>4, SameCardinality DEF Verdict!Fail, Shard, Refused
        <3> QED BY <3>5 DEF Verdict!Next
    <2>4. CASE Begin /\ ~AnswerLocally /\ ~NetworkPublish /\ ~Invalid
        <3>1. phase # "asking" /\ phase' # "asking" /\ UNCHANGED <<seen, opStatus>>
            BY <2>4 DEF Begin, TooFewNodes, FindShard, LocalStoreFails, LocalStore, StoreLocally,
                        SignForNetwork, SignAsPublisher, LocalStep
        <3> QED BY <1>1, <3>1 DEF Shard
    <2> QED BY <1>2, <2>1, <2>2, <2>3, <2>4
<1>3. CASE Next /\ ~Begin
    <2>1. /\ phase = "asking" /\ inShard /\ ~IsOperationV0
          /\ UNCHANGED <<phase, others, inShard>>
        BY <1>0, <1>3, AskingStep DEF Undisturbed
    <2>2. UNCHANGED Shard
        BY <2>1 DEF Shard, Asked
    <2>3. CASE \E r \in Responders : Record(r)
        <3>1. PICK r \in Responders : Record(r)
            BY <2>3
        <3>2. CalmInv
            BY <1>0, <2>1, <3>1 DEF Undisturbed, Record
        <3>3. /\ r[1] \in Shard \ Heard /\ UNCHANGED opStatus
              /\ \/ Ackers' = Ackers \cup {r[1]} /\ Refused' = Refused
                 \/ Ackers' = Ackers /\ Refused' = Refused \cup {r[1]}
            BY <1>0, <2>1, <3>1, <3>2, RecordAnswers DEF Record, CalmInv
        <3>4. r[1] \in 0 .. MaxOthers
            BY <1>0 DEF Responders, Requests, Local, Nodes
        <3>5. Ackers \subseteq Heard
            BY <1>0, <3>2, NodesCounted DEF CalmInv, TypeOK
        <3>6. Verdict!Answer(r[1])
            BY <2>2, <3>3, <3>5 DEF Verdict!Answer, Shard, Refused
        <3> QED BY <3>4, <3>6 DEF Verdict!Next
    <2>4. CASE \E r \in Responders : MarkOperation(r)
        <3>1. PICK r \in Responders : MarkOperation(r)
            BY <2>4
        <3>2. Batched(1) /\ Verdicts
            BY <1>0, <2>1, <3>1 DEF Undisturbed, MarkOperation, CalmInv
        <3>3. /\ UNCHANGED seen /\ opStatus = "IN_PROGRESS"
              /\ \/ opStatus' = "COMPLETED" /\ completed >= MinAck
                 \/ opStatus' = "FAILED" /\ others + 1 - failed < MinAck
            <4>1. \/ place[r] = "completeOp" /\ opStatus' = "COMPLETED"
                  \/ place[r] = "failOp" /\ opStatus' = "FAILED"
                BY <3>1 DEF MarkOperation
            <4> QED BY <3>1, <3>2, <4>1 DEF MarkOperation, Verdicts, Decided
        <3>4. UNCHANGED <<Ackers, Heard>>
            BY <3>3 DEF Ackers, Heard
        <3>5. CASE opStatus' = "COMPLETED" /\ completed >= MinAck
            <4>1. Cardinality(Ackers) >= MinAck
                BY <1>0, <3>2, <3>5, NodesCounted DEF TypeOK
            <4>2. Verdict!Succeed
                BY <2>2, <3>3, <3>4, <3>5, <4>1, SameCardinality DEF Verdict!Succeed, Shard, Refused
            <4> QED BY <4>2 DEF Verdict!Next
        <3>6. CASE opStatus' = "FAILED" /\ others + 1 - failed < MinAck
            <4>1. /\ IsFiniteSet(Shard) /\ Cardinality(Shard) = others + 1
                  /\ Refused \subseteq Shard /\ Cardinality(Refused) = failed
                BY <1>0, <2>1, <3>2, HeardOfShard DEF Refused
            <4>2. Cardinality(Shard \ Refused) = Cardinality(Shard) - Cardinality(Shard \cap Refused)
                BY <4>1, FS_Difference
            <4>3. Shard \cap Refused = Refused
                BY <4>1
            <4>4. Cardinality(Shard \ Refused) < MinAck
                <5>1. failed \in Int /\ others \in Int /\ MinAck \in Int
                    BY <1>0 DEF TypeOK, ShardTypeOK
                <5>2. Cardinality(Shard \cap Refused) = failed
                    BY <4>1, <4>3
                <5>3. Cardinality(Shard \ Refused) = (others + 1) - failed
                    BY <4>1, <4>2, <5>2
                <5> QED BY <3>6, <5>1, <5>3
            <4>5. Verdict!Fail
                BY <2>2, <3>3, <3>4, <3>6, <4>4, SameCardinality DEF Verdict!Fail, Shard, Refused
            <4> QED BY <4>5 DEF Verdict!Next
        <3> QED BY <3>3, <3>5, <3>6
    <2>5. CASE ~(\E r \in Responders : Record(r) \/ MarkOperation(r))
        <3>1. UNCHANGED <<seen, opStatus>>
            BY <1>3, <2>5
               DEF Next, RequestStep, AddRequest, SendStore, Send, Busy, AnsweredSigned, Answered,
                   Process, CheckMinAcks, JudgeAll, JudgeNextBatch, JudgeHopeless, JudgeNothing,
                   MarkCache, MarkOperationId, ScheduleStep, StartSchedule, EndSchedule,
                   Disturb, Fault, SigningFails, LocalFault
        <3> QED BY <1>1, <2>2, <3>1
    <2> QED BY <2>3, <2>4, <2>5
<1>4. CASE UNCHANGED publishVars
    BY <1>1, <1>4 DEF publishVars, vars, Shard, Asked
<1> QED BY <1>2, <1>3, <1>4

(* The publish of a node of the shard implements OperationVerdict while     *)
(* nothing throws: it asks, each node answers at most once, and the verdict *)
(* is given once and is justified by the answers.                          *)
THEOREM PublishImplementsVerdict == Spec => ImplementsVerdict
<1>1. IInv /\ [Next]_publishVars => [Undisturbed' => Verdict!Next]_<<Verdict!vars>>
    <2> SUFFICES ASSUME IInv, [Next]_publishVars, Undisturbed'
                 PROVE  [Verdict!Next]_<<Verdict!vars>>
        OBVIOUS
    <2>1. [Verdict!Next]_Verdict!vars
        BY VerdictStep
    <2> QED BY <2>1
<1> QED BY <1>1, VerdictInit, Inductive, PTL DEF Spec, ImplementsVerdict
=============================================================================
