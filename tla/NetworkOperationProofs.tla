------------------------ MODULE NetworkOperationProofs ------------------------
(***************************************************************************)
(* Lemmas about NetworkOperation, for the proofs of PublishOperation and   *)
(* GetOperation: the types its steps preserve, the arithmetic of batches,  *)
(* how responses are counted, and the discipline by which a batch is       *)
(* scheduled once, after every response to the one before it.              *)
(***************************************************************************)
EXTENDS NetworkOperation, FiniteSetTheorems, TLAPS

-----------------------------------------------------------------------------
(* Batches                                                                 *)

(* A node is one of the BatchSize nodes after its batch's number.           *)
LEMMA BatchBounds ==
    ASSUME NEW n \in Nat \ {0}
    PROVE  /\ BatchOf(n) \in Nat /\ BatchOf(n) < n /\ n <= BatchOf(n) + BatchSize
           /\ BatchOf(n) % BatchSize = 0
<1> DEFINE q == (n - 1) \div BatchSize
<1>1. BatchSize \in Nat \ {0}
    BY OperationAssumption
<1>2. q \in Nat
    BY <1>1, Z3
<1>3. n - 1 = q * BatchSize + ((n - 1) % BatchSize) /\ (n - 1) % BatchSize \in 0 .. (BatchSize - 1)
    BY <1>1, Z3
<1>4. q * BatchSize \in Nat /\ (q * BatchSize) % BatchSize = 0
    BY <1>1, <1>2, Z3
<1> QED BY <1>1, <1>2, <1>3, <1>4 DEF BatchOf

(* The numbers of two batches are at least a batch apart.                   *)
LEMMA BatchesApart ==
    ASSUME NEW a \in Nat, NEW b \in Nat, a % BatchSize = 0, b % BatchSize = 0, a < b
    PROVE  a + BatchSize <= b
<1>1. BatchSize \in Nat \ {0}
    BY OperationAssumption
<1> DEFINE p == a \div BatchSize
           q == b \div BatchSize
<1>2. p \in Nat /\ a = p * BatchSize
    BY <1>1, Z3
<1>3. q \in Nat /\ b = q * BatchSize
    BY <1>1, Z3
<1> HIDE DEF p, q
<1>4. p < q
    BY <1>1, <1>2, <1>3, Z3
<1> DEFINE d == q - p - 1
<1>5. d \in Nat /\ q = p + 1 + d
    BY <1>2, <1>3, <1>4, Z3
<1> HIDE DEF d
<1>6. d * BatchSize \in Nat
    BY <1>1, <1>5, Z3
<1>7. (p + 1 + d) * BatchSize = p * BatchSize + BatchSize + d * BatchSize
    BY <1>1, <1>2, <1>5, Z3
<1> QED BY <1>1, <1>2, <1>3, <1>5, <1>6, <1>7, Z3

-----------------------------------------------------------------------------
(* Types                                                                   *)

LEMMA InitTypes == ASSUME NEW hasInput \in BOOLEAN, InitWith(hasInput) PROVE ShardTypeOK
<1>1. tries \in [Responders -> -1 .. Retries] /\ faults \in 0 .. MaxFaults /\ others \in 0 .. MaxOthers
    BY OperationAssumption DEF InitWith
<1>2. seen \in [Responders -> [status : {"none", "COMPLETED", "FAILED"},
                               completed : Nat, failed : Nat]]
    BY DEF InitWith, Unseen
<1> QED BY <1>1, <1>2 DEF InitWith, ShardTypeOK, Places

(* A command moves: its place, and what is left of its retries.            *)
LEMMA MovedTypes ==
    ASSUME ShardTypeOK, NEW r \in Responders, NEW p \in Places, Moved(r, p)
    PROVE  place' \in [Responders -> Places]
BY DEF ShardTypeOK, Moved

LEMMA ThrownTypes ==
    ASSUME ShardTypeOK, NEW r \in Responders, Thrown(r)
    PROVE  place' \in [Responders -> Places] /\ tries' \in [Responders -> -1 .. Retries]
BY OperationAssumption DEF ShardTypeOK, Thrown, Moved, Places, Processing

LEMMA ScheduledTypes ==
    ASSUME ShardTypeOK, NEW k, Scheduled(k)
    PROVE  sched' \in [Batches -> {"none", "waiting", "adding", "done"}]
BY DEF ShardTypeOK, Scheduled

LEMMA FindTypes ==
    ASSUME ShardTypeOK, NEW m \in 0 .. MaxOthers, NEW member \in Membership,
           TooFewNodes(m, member) \/ FindShard(m, member)
    PROVE  ShardTypeOK'
BY OperationAssumption
   DEF ShardTypeOK, TooFewNodes, FindShard, shard, responses, outcome

LEMMA RefuseTypes == ASSUME ShardTypeOK, NEW p, Refuse(p) PROVE ShardTypeOK'
BY DEF ShardTypeOK, Refuse, responses

LEMMA ScheduleTypes ==
    ASSUME ShardTypeOK, NEW b \in Batches, ScheduleStep(b)
    PROVE  ShardTypeOK'
BY DEF ShardTypeOK, ScheduleStep, StartSchedule, EndSchedule, shard, responses

(* The steps of a request command.                                         *)
LEMMA RequestTypes ==
    ASSUME ShardTypeOK, NEW r \in Responders,
           AddRequest(r) \/ Send(r) \/ Busy(r) \/ Answered(r) \/ Fault(r)
    PROVE  ShardTypeOK'
<1> USE DEF shard, responses, outcome
<1>1. CASE AddRequest(r)
    BY <1>1 DEF AddRequest, ShardTypeOK, Places
<1>2. CASE Send(r)
    BY <1>2 DEF Send, Moved, ShardTypeOK, Places
<1>3. CASE Busy(r)
    <2>1. place' \in [Responders -> Places]
        BY <1>3 DEF Busy, Moved, ShardTypeOK, Places, Processing
    <2>2. tries' \in [Responders -> -1 .. Retries]
        BY <1>3, OperationAssumption DEF Busy, ShardTypeOK
    <2> QED BY <1>3, <2>1, <2>2 DEF Busy, ShardTypeOK
<1>4. CASE Answered(r)
    BY <1>4 DEF Answered, Moved, ShardTypeOK, Places, Processing
<1>5. CASE Fault(r)
    <2>1. place' \in [Responders -> Places] /\ tries' \in [Responders -> -1 .. Retries]
        <3>1. CASE tries[r] = -1
            BY <1>5, <3>1 DEF Fault, Moved, ShardTypeOK, Places
        <3>2. CASE Thrown(r)
            BY <3>2, ThrownTypes DEF ShardTypeOK
        <3> QED BY <1>5, <3>1, <3>2 DEF Fault
    <2>2. faults' \in 0 .. MaxFaults
        BY <1>5, OperationAssumption DEF Fault, ShardTypeOK
    <2> QED BY <1>5, <2>1, <2>2 DEF Fault, ShardTypeOK
<1> QED BY <1>1, <1>2, <1>3, <1>4, <1>5

(* The steps of processResponse that publish and get share.                 *)
LEMMA ProcessTypes ==
    ASSUME ShardTypeOK, NEW r \in Responders, NEW keeps \in BOOLEAN,
           Record(r) \/ MarkCache(r, keeps) \/ MarkOperation(r) \/ MarkOperationId(r)
    PROVE  ShardTypeOK'
<1> USE DEF shard, responses, outcome
<1>1. CASE Record(r)
    <2>1. completed' \in Nat /\ failed' \in Nat
        BY <1>1 DEF Record, ShardTypeOK
    <2>2. seen' \in [Responders -> [status : {"none", "COMPLETED", "FAILED"},
                                    completed : Nat, failed : Nat]]
        <3>1. seen'= [seen EXCEPT ![r] =
                         [status |-> IF place[r] = "acked" THEN "COMPLETED" ELSE "FAILED",
                          completed |-> completed', failed |-> failed']]
            BY <1>1 DEF Record
        <3> QED BY <2>1, <3>1 DEF ShardTypeOK
    <2>3. place' \in [Responders -> Places]
        BY <1>1 DEF Record, Moved, ShardTypeOK, Places, Processing
    <2> QED BY <1>1, <2>1, <2>2, <2>3 DEF Record, ShardTypeOK
<1>2. CASE MarkCache(r, keeps)
    BY <1>2 DEF MarkCache, Moved, ShardTypeOK, Places, Processing, Marks
<1>3. CASE MarkOperation(r)
    BY <1>3 DEF MarkOperation, Moved, ShardTypeOK, Places, Processing, Marks
<1>4. CASE MarkOperationId(r)
    BY <1>4 DEF MarkOperationId, Moved, ShardTypeOK, Places
<1> QED BY <1>1, <1>2, <1>3, <1>4

-----------------------------------------------------------------------------
(* Counting responses                                                      *)

HasAnswered(r) == seen[r].status # "none"
Responded == {r \in Responders : HasAnswered(r)}
Positive == {r \in Responders : seen[r].status = "COMPLETED"}

(* The counts of the table are those of the responders that answered: true *)
(* as long as no response is recorded twice.                               *)
Counted ==
    completed = Cardinality(Positive) /\ completed + failed = Cardinality(Responded)

LEMMA RespondersFinite == IsFiniteSet(Responders)
<1>1. IsFiniteSet(Nodes) /\ IsFiniteSet(Copies)
    BY OperationAssumption, FS_Interval DEF Nodes, Copies
<1>2. IsFiniteSet(Requests)
    BY <1>1, FS_Product DEF Requests
<1> QED BY <1>2, FS_AddElement DEF Responders

(* The nodes of responders that were asked once are as many as these.      *)
LEMMA NodesOf ==
    ASSUME NEW S \in SUBSET Responders, \A r \in S : r[2] = 1
    PROVE  /\ IsFiniteSet({r[1] : r \in S})
           /\ Cardinality({r[1] : r \in S}) = Cardinality(S)
<1> DEFINE T == {r[1] : r \in S}
           f == [r \in S |-> r[1]]
<1>1. IsFiniteSet(S)
    BY RespondersFinite, FS_Subset
<1>2. \A r, q \in S : r[1] = q[1] => r = q
    BY DEF Responders, Requests, Local
<1>3. f \in Bijection(S, T)
    <2>1. f \in [S -> T]
        OBVIOUS
    <2>2. \A r, q \in S : f[r] = f[q] => r = q
        BY <1>2
    <2>3. \A t \in T : \E r \in S : f[r] = t
        OBVIOUS
    <2> HIDE DEF f, T
    <2> QED BY <2>1, <2>2, <2>3 DEF Bijection, Injection, Surjection, IsInjective
<1>4. ExistsBijection(S, T)
    BY <1>3 DEF ExistsBijection
<1> HIDE DEF T
<1>5. IsFiniteSet(T) /\ Cardinality(T) = Cardinality(S)
    BY <1>1, <1>4, FS_Bijection
<1> QED BY <1>5 DEF T

(* A first response adds one to the counts, and the recording reads them.   *)
LEMMA RecordCounts ==
    ASSUME ShardTypeOK, Counted, NEW r \in Responders, Record(r), ~HasAnswered(r)
    PROVE  /\ Counted'
           /\ Responded' = Responded \cup {r}
           /\ Positive' = IF place[r] = "acked" THEN Positive \cup {r} ELSE Positive
           /\ seen'[r].completed = completed' /\ seen'[r].failed = failed'
           /\ seen'[r].status = IF place[r] = "acked" THEN "COMPLETED" ELSE "FAILED"
           /\ completed <= completed' /\ failed <= failed'
           /\ \A q \in Responders : q # r => seen'[q] = seen[q]
<1> DEFINE answer == [status |-> IF place[r] = "acked" THEN "COMPLETED" ELSE "FAILED",
                      completed |-> completed', failed |-> failed']
<1>1. seen' = [seen EXCEPT ![r] = answer]
    BY DEF Record
<1>2. seen'[r] = answer /\ \A q \in Responders : q # r => seen'[q] = seen[q]
    BY <1>1 DEF ShardTypeOK
<1>3. Responded' = Responded \cup {r}
    BY <1>2 DEF Responded, HasAnswered
<1>4. Positive' = IF place[r] = "acked" THEN Positive \cup {r} ELSE Positive
    BY <1>2 DEF Positive, HasAnswered
<1>5. IsFiniteSet(Responded) /\ IsFiniteSet(Positive) /\ r \notin Responded /\ r \notin Positive
    BY RespondersFinite, FS_Subset DEF Responded, Positive, HasAnswered
<1>6. /\ completed' = completed + (IF place[r] = "acked" THEN 1 ELSE 0)
      /\ failed' = failed + (IF place[r] = "acked" THEN 0 ELSE 1)
    BY DEF Record, ShardTypeOK
<1>7. Cardinality(Responded') = Cardinality(Responded) + 1
    BY <1>3, <1>5, FS_AddElement
<1>8. Cardinality(Positive') = Cardinality(Positive) + (IF place[r] = "acked" THEN 1 ELSE 0)
    BY <1>4, <1>5, FS_AddElement, FS_CardinalityType
<1>9. completed \in Nat /\ failed \in Nat
    BY DEF ShardTypeOK
<1>10. Counted'
    BY <1>6, <1>7, <1>8, <1>9 DEF Counted
<1> QED BY <1>2, <1>3, <1>4, <1>6, <1>9, <1>10

-----------------------------------------------------------------------------
(* The discipline of the batches.  lead is 1 when this node answers before *)
(* any other does (publish), 0 when it records no response (get).          *)

Unanswered == {"none", "ready", "sent", "acked", "nacked"}

(* The responders up to node k, this node included if it leads.            *)
Prefix(lead, k) == {<<n, 1>> : n \in (1 - lead) .. k}
PrefixAnswered(lead, k) == \A n \in (1 - lead) .. k : HasAnswered(<<n, 1>>)

(* A batch is scheduled once, when all before it have answered; a request  *)
(* belongs to a scheduled batch and is asked once; a response is recorded  *)
(* once.                                                                   *)
AskedInOrder(lead) ==
    /\ \A b \in Batches : sched[b] # "none" =>
          b[2] = 1 /\ b[1] <= others /\ PrefixAnswered(lead, b[1])
    /\ \A r \in Requests : place[r] # "none" =>
          r[2] = 1 /\ r[1] <= others /\ sched[<<BatchOf(r[1]), 1>>] # "none"
    /\ \A r \in Responders : HasAnswered(r) => place[r] \notin Unanswered

(* The counts a responder read are those of a moment when all batches      *)
(* before its own had answered, and none after it was asked; no other one  *)
(* read the same.                                                          *)
ReadAt(lead, r) ==
    /\ seen[r].completed <= completed /\ seen[r].failed <= failed
    /\ r = Local => lead = 1 /\ Total(r) = 1
    /\ r # Local => BatchOf(r[1]) + lead < Total(r)
    /\ Total(r) <= LeftFrom(r) + lead /\ Total(r) <= others + lead
    /\ Total(r) = LeftFrom(r) + lead => PrefixAnswered(lead, LeftFrom(r))
    /\ \A q \in Responders : HasAnswered(q) /\ Total(q) = Total(r) => q = r
ReadInOrder(lead) == \A r \in Responders : HasAnswered(r) => ReadAt(lead, r)

(* As long as the last responder of a batch is processed, no later batch   *)
(* is scheduled.                                                           *)
IsLast(lead, r) == HasAnswered(r) /\ Total(r) = LeftFrom(r) + lead
EndsPending(lead) ==
    \A r \in Responders : IsLast(lead, r) /\ place[r] # "done" =>
        \A b \in Batches : sched[b] # "none" => b[1] < LeftFrom(r)

Batched(lead) ==
    Counted /\ AskedInOrder(lead) /\ ReadInOrder(lead) /\ EndsPending(lead)

LEMMA PrefixResponders ==
    ASSUME NEW lead \in {0, 1}, NEW k \in 0 .. MaxOthers, NEW n \in (1 - lead) .. k
    PROVE  <<n, 1>> \in Responders
<1>1. MaxOthers \in Nat /\ 1 \in Copies
    BY OperationAssumption DEF Copies
<1>2. CASE n = 0
    BY <1>2 DEF Responders, Local
<1>3. CASE n # 0
    <2>1. n \in Nodes
        BY <1>1, <1>3 DEF Nodes
    <2> QED BY <1>1, <2>1 DEF Responders, Requests
<1> QED BY <1>2, <1>3

LEMMA PrefixCounted ==
    ASSUME NEW lead \in {0, 1}, NEW k \in Nat
    PROVE  IsFiniteSet(Prefix(lead, k)) /\ Cardinality(Prefix(lead, k)) = k + lead
<1> DEFINE S == (1 - lead) .. k
           T == Prefix(lead, k)
           f == [n \in S |-> <<n, 1>>]
<1>1. IsFiniteSet(S) /\ Cardinality(S) = k + lead
    BY FS_Interval
<1>2. f \in Bijection(S, T)
    <2>1. f \in [S -> T]
        BY DEF Prefix
    <2>2. \A m, n \in S : f[m] = f[n] => m = n
        OBVIOUS
    <2>3. \A t \in T : \E n \in S : f[n] = t
        BY DEF Prefix
    <2> HIDE DEF f, S, T
    <2> QED BY <2>1, <2>2, <2>3 DEF Bijection, Injection, Surjection, IsInjective
<1>3. ExistsBijection(S, T)
    BY <1>2 DEF ExistsBijection
<1> HIDE DEF S, T
<1> QED BY <1>1, <1>3, FS_Bijection DEF T

(* The nodes of a request and its batch.                                   *)
LEMMA RequestBatch ==
    ASSUME NEW r \in Requests
    PROVE  /\ r[1] \in Nat \ {0} /\ r[2] \in Copies /\ r = <<r[1], r[2]>> /\ r # Local
           /\ BatchOf(r[1]) \in Nat /\ BatchOf(r[1]) < r[1]
           /\ LeftFrom(r) = BatchOf(r[1]) + BatchSize /\ r[1] <= LeftFrom(r)
           /\ BatchOf(r[1]) % BatchSize = 0
           /\ \A c \in Copies : <<BatchOf(r[1]), c>> \in Batches
<1>1. r[1] \in Nat \ {0} /\ r[1] <= MaxOthers /\ r[2] \in Copies /\ r = <<r[1], r[2]>> /\ r # Local
    BY OperationAssumption DEF Requests, Nodes, Local
<1>2. /\ BatchOf(r[1]) \in Nat /\ BatchOf(r[1]) < r[1] /\ r[1] <= BatchOf(r[1]) + BatchSize
      /\ BatchOf(r[1]) % BatchSize = 0
    BY <1>1, BatchBounds
<1>3. LeftFrom(r) = BatchOf(r[1]) + BatchSize
    BY <1>1 DEF LeftFrom
<1>4. BatchOf(r[1]) \in {k \in 0 .. MaxOthers : k % BatchSize = 0}
    BY <1>1, <1>2, OperationAssumption
<1> QED BY <1>1, <1>2, <1>3, <1>4 DEF Batches

(* A response at the end of a batch is the last of its own batch.          *)
LEMMA EndIsLast ==
    ASSUME ShardTypeOK, NEW lead \in {0, 1}, ReadInOrder(lead), NEW r \in Responders,
           HasAnswered(r), (Total(r) - lead) % BatchSize = 0
    PROVE  IsLast(lead, r)
<1>1. CASE r = Local
    BY <1>1 DEF ReadInOrder, ReadAt, IsLast, LeftFrom
<1>2. CASE r # Local
    <2>1. r \in Requests
        BY <1>2 DEF Responders
    <2>2. Total(r) \in Nat
        BY DEF ShardTypeOK, Total
    <2>3. BatchOf(r[1]) < Total(r) - lead /\ Total(r) - lead <= LeftFrom(r)
        BY <1>2, <2>1, <2>2, RequestBatch, OperationAssumption DEF ReadInOrder, ReadAt
    <2>4. BatchOf(r[1]) + BatchSize <= Total(r) - lead
        BY <2>1, <2>2, <2>3, RequestBatch, BatchesApart
    <2>5. LeftFrom(r) = BatchOf(r[1]) + BatchSize /\ LeftFrom(r) \in Nat
        BY <2>1, RequestBatch, OperationAssumption
    <2>6. Total(r) - lead = LeftFrom(r)
        BY <2>2, <2>3, <2>4, <2>5
    <2> QED BY <2>2, <2>5, <2>6 DEF IsLast
<1> QED BY <1>1, <1>2

(* Who answered is in the prefix that a batch at or after its own begins.   *)
LEMMA AnsweredInPrefix ==
    ASSUME ShardTypeOK, NEW lead \in {0, 1}, AskedInOrder(lead), ReadInOrder(lead),
           NEW k \in Nat,
           \A q \in Requests : HasAnswered(q) => q[1] <= k
    PROVE  Responded \subseteq Prefix(lead, k)
<1> SUFFICES ASSUME NEW q \in Responders, HasAnswered(q) PROVE q \in Prefix(lead, k)
    BY DEF Responded
<1>1. CASE q = Local
    <2>1. lead = 1
        BY <1>1 DEF ReadInOrder, ReadAt
    <2> QED BY <1>1, <2>1 DEF Prefix, Local
<1>2. CASE q # Local
    <2>1. q \in Requests
        BY <1>2 DEF Responders
    <2>2. q[2] = 1
        BY <2>1 DEF AskedInOrder, Unanswered
    <2>3. q[1] \in (1 - lead) .. k
        BY <2>1, RequestBatch, OperationAssumption
    <2> QED BY <2>1, <2>2, <2>3, RequestBatch DEF Prefix
<1> QED BY <1>1, <1>2

(* A request of a batch that is scheduled.                                  *)
MayBeAsked(q) ==
    q[2] = 1 /\ q[1] <= others /\ sched[<<BatchOf(q[1]), 1>>] # "none"

(* Whoever may be asked has answered.                                      *)
Quiet == \A q \in Requests : MayBeAsked(q) => HasAnswered(q)

(* As long as the last responder of a batch is processed all is quiet.      *)
LEMMA LastIsQuiet ==
    ASSUME ShardTypeOK, NEW lead \in {0, 1}, Batched(lead),
           NEW r \in Responders, IsLast(lead, r), place[r] # "done"
    PROVE  Quiet /\ completed + failed = Total(r)
<1>0. LeftFrom(r) \in Nat /\ Total(r) = LeftFrom(r) + lead /\ HasAnswered(r)
    BY RequestBatch, OperationAssumption DEF IsLast, Responders, LeftFrom
<1>1. PrefixAnswered(lead, LeftFrom(r))
    BY <1>0 DEF Batched, ReadInOrder, ReadAt
<1>2. ASSUME NEW q \in Requests, MayBeAsked(q)
      PROVE  HasAnswered(q) /\ q[1] <= LeftFrom(r)
    <2>1. q[2] = 1 /\ <<BatchOf(q[1]), 1>> \in Batches /\ sched[<<BatchOf(q[1]), 1>>] # "none"
        BY <1>2, RequestBatch DEF MayBeAsked
    <2>2. BatchOf(q[1]) < LeftFrom(r)
        BY <2>1 DEF Batched, EndsPending
    <2>3. r \in Requests
        BY <2>2, RequestBatch DEF Responders, LeftFrom
    <2>4. BatchOf(r[1]) < BatchOf(q[1]) => LeftFrom(r) <= BatchOf(q[1])
        BY <2>3, RequestBatch, BatchesApart
    <2>5. q[1] <= LeftFrom(r)
        BY <2>2, <2>3, <2>4, RequestBatch, OperationAssumption
    <2>6. q = <<q[1], 1>> /\ q[1] \in (1 - lead) .. LeftFrom(r)
        BY <1>0, <2>1, <2>5, RequestBatch
    <2> QED BY <1>1, <2>5, <2>6 DEF PrefixAnswered
<1>3. \A q \in Requests : HasAnswered(q) => q[1] <= LeftFrom(r)
    BY <1>2 DEF MayBeAsked, Batched, AskedInOrder, Unanswered, Responders
<1>4. Responded \subseteq Prefix(lead, LeftFrom(r))
    BY <1>0, <1>3, AnsweredInPrefix DEF Batched
<1>5. Cardinality(Responded) <= LeftFrom(r) + lead
    BY <1>0, <1>4, PrefixCounted, FS_Subset
<1>6. seen[r].completed <= completed /\ seen[r].failed <= failed
    BY <1>0 DEF Batched, ReadInOrder, ReadAt
<1>7. /\ completed \in Nat /\ failed \in Nat
      /\ seen[r].completed \in Nat /\ seen[r].failed \in Nat
    BY DEF ShardTypeOK
<1>8. completed + failed = Cardinality(Responded)
    BY DEF Batched, Counted
<1>9. completed + failed = Total(r)
    BY <1>0, <1>5, <1>6, <1>7, <1>8 DEF Total
<1> QED BY <1>2, <1>9 DEF Quiet

(* So it is when as many have answered as the shard has nodes.              *)
LEMMA AllIsQuiet ==
    ASSUME ShardTypeOK, NEW lead \in {0, 1}, Batched(lead),
           NEW r \in Responders, HasAnswered(r), Total(r) = others + lead
    PROVE  Quiet /\ completed + failed = Total(r)
<1>1. others \in Nat /\ completed \in Nat /\ failed \in Nat
      /\ seen[r].completed \in Nat /\ seen[r].failed \in Nat
    BY OperationAssumption DEF ShardTypeOK
<1>2. \A q \in Requests : HasAnswered(q) => q[1] <= others
    BY DEF Batched, AskedInOrder, Unanswered, Responders
<1>3. Responded \subseteq Prefix(lead, others)
    BY <1>1, <1>2, AnsweredInPrefix DEF Batched
<1>4. completed + failed = Cardinality(Responded)
    BY DEF Batched, Counted
<1>5. seen[r].completed <= completed /\ seen[r].failed <= failed
    BY DEF Batched, ReadInOrder, ReadAt
<1>6. Cardinality(Responded) <= others + lead
    BY <1>1, <1>3, PrefixCounted, FS_Subset
<1>7. completed + failed = others + lead
    BY <1>1, <1>4, <1>5, <1>6 DEF Total
<1>8. Responded = Prefix(lead, others)
    BY <1>1, <1>3, <1>4, <1>7, PrefixCounted, FS_Subset
<1>9. ASSUME NEW q \in Requests, MayBeAsked(q) PROVE HasAnswered(q)
    <2>1. q = <<q[1], 1>> /\ q[1] \in (1 - lead) .. others
        BY <1>1, <1>9, RequestBatch DEF MayBeAsked
    <2>2. q \in Prefix(lead, others)
        BY <2>1 DEF Prefix
    <2> QED BY <1>8, <2>2 DEF Responded
<1> QED BY <1>7, <1>9 DEF Quiet

(* Commands move on without an answer: nobody is asked who was not, no      *)
(* answer is taken back, and what is over stays over.                      *)
LEMMA MovesKeep ==
    ASSUME NEW lead \in {0, 1}, Batched(lead),
           UNCHANGED <<others, seen, completed, failed>>,
           \A b \in Batches : sched'[b] # "none" => sched[b] # "none",
           \A b \in Batches : sched[b] # "none" => sched'[b] # "none",
           \A q \in Responders :
              \/ place'[q] = place[q]
              \/ /\ place[q] # "none" \/ q = Local
                 /\ HasAnswered(q) => place'[q] \notin Unanswered
                 /\ place[q] # "done"
    PROVE  Batched(lead)'
<1> USE DEF Batched, HasAnswered, Total
<1>1. Counted' /\ ReadInOrder(lead)'
    BY DEF Counted, Responded, Positive, ReadInOrder, ReadAt, PrefixAnswered
<1>2. ASSUME NEW b \in Batches, sched'[b] # "none"
      PROVE  b[2] = 1 /\ b[1] <= others' /\ PrefixAnswered(lead, b[1])'
    BY <1>2 DEF AskedInOrder, PrefixAnswered
<1>3. ASSUME NEW r \in Requests, place'[r] # "none"
      PROVE  r[2] = 1 /\ r[1] <= others' /\ sched'[<<BatchOf(r[1]), 1>>] # "none"
    <2>1. place[r] # "none"
        BY <1>3, RequestBatch DEF Responders
    <2> QED BY <2>1, RequestBatch DEF AskedInOrder
<1>4. ASSUME NEW r \in Responders, HasAnswered(r)' PROVE place'[r] \notin Unanswered
    BY <1>4 DEF AskedInOrder
<1>5. AskedInOrder(lead)'
    BY <1>2, <1>3, <1>4 DEF AskedInOrder
<1>6. EndsPending(lead)'
    BY DEF EndsPending, IsLast
<1> QED BY <1>1, <1>5, <1>6

(* A request of a scheduled batch is added.                                *)
LEMMA AddRequestKeeps ==
    ASSUME ShardTypeOK, NEW lead \in {0, 1}, Batched(lead),
           NEW r \in Responders, AddRequest(r)
    PROVE  Batched(lead)'
<1> USE DEF Batched, AddRequest, shard, responses, HasAnswered, Total
<1>1. r \in Requests /\ <<BatchOf(r[1]), r[2]>> \in Batches
    BY RequestBatch
<1>2. r[2] = 1
    BY <1>1 DEF AskedInOrder
<1>3. \A q \in Responders : place'[q] = IF q = r THEN "ready" ELSE place[q]
    BY DEF ShardTypeOK
<1>4. Counted' /\ ReadInOrder(lead)'
    BY DEF Counted, Responded, Positive, ReadInOrder, ReadAt, PrefixAnswered
<1>5. ~HasAnswered(r)
    BY DEF AskedInOrder, Unanswered
<1>6. AskedInOrder(lead)'
    <2>1. ASSUME NEW q \in Requests, place'[q] # "none"
          PROVE  q[2] = 1 /\ q[1] <= others' /\ sched'[<<BatchOf(q[1]), 1>>] # "none"
        BY <1>1, <1>2, <1>3, <2>1 DEF AskedInOrder, Responders
    <2>2. ASSUME NEW q \in Responders, HasAnswered(q)' PROVE place'[q] \notin Unanswered
        BY <1>3, <1>5, <2>2 DEF AskedInOrder
    <2> QED BY <2>1, <2>2 DEF AskedInOrder, PrefixAnswered
<1>7. EndsPending(lead)'
    BY <1>3, <1>5 DEF EndsPending, IsLast
<1> QED BY <1>4, <1>6, <1>7

(* A response is recorded: it reads counts that nobody read, which cover    *)
(* the batches before its own and no later one.                            *)
LEMMA RecordKeeps ==
    ASSUME ShardTypeOK, NEW lead \in {0, 1}, Batched(lead),
           NEW r \in Responders, Record(r), r = Local => lead = 1
    PROVE  Batched(lead)'
<1> USE DEF shard
<1>1. ~HasAnswered(r) /\ UNCHANGED <<others, sched>>
    BY DEF Batched, AskedInOrder, Unanswered, Record
<1>2. /\ Counted' /\ Responded' = Responded \cup {r}
      /\ seen'[r].completed = completed' /\ seen'[r].failed = failed'
      /\ completed <= completed' /\ failed <= failed' /\ seen'[r].status # "none"
      /\ \A q \in Responders : q # r => seen'[q] = seen[q]
    BY <1>1, RecordCounts DEF Batched, ShardTypeOK
<1>3. /\ \A q \in Responders : q # r => (HasAnswered(q)' <=> HasAnswered(q)) /\ Total(q)' = Total(q)
      /\ HasAnswered(r)'
    BY <1>2 DEF HasAnswered, Total
<1>4. \A q \in Responders : place'[q] = IF q = r THEN "recorded" ELSE place[q]
    BY DEF Record, Moved, ShardTypeOK
<1>5. \A k \in Nat : PrefixAnswered(lead, k) /\ k <= MaxOthers => PrefixAnswered(lead, k)'
    <2> SUFFICES ASSUME NEW k \in Nat, PrefixAnswered(lead, k), k <= MaxOthers,
                        NEW n \in (1 - lead) .. k
                 PROVE  HasAnswered(<<n, 1>>)'
        BY DEF PrefixAnswered
    <2>1. <<n, 1>> \in Responders
        BY PrefixResponders, OperationAssumption
    <2>2. HasAnswered(<<n, 1>>)
        BY DEF PrefixAnswered
    <2> QED BY <1>2, <2>1, <2>2 DEF HasAnswered
<1>6. \A b \in Batches : b[1] \in Nat /\ b[1] <= MaxOthers
    BY OperationAssumption DEF Batches
<1>7. AskedInOrder(lead)'
    <2>1. ASSUME NEW b \in Batches, sched'[b] # "none"
          PROVE  b[2] = 1 /\ b[1] <= others' /\ PrefixAnswered(lead, b[1])'
        BY <1>1, <1>5, <1>6, <2>1 DEF Batched, AskedInOrder
    <2>2. ASSUME NEW q \in Requests, place'[q] # "none"
          PROVE  q[2] = 1 /\ q[1] <= others' /\ sched'[<<BatchOf(q[1]), 1>>] # "none"
        <3>1. place[q] # "none"
            BY <1>4, <2>2 DEF Record, Responders
        <3> QED BY <1>1, <3>1 DEF Batched, AskedInOrder
    <2>3. ASSUME NEW q \in Responders, HasAnswered(q)' PROVE place'[q] \notin Unanswered
        BY <1>3, <1>4, <2>3 DEF Batched, AskedInOrder, Unanswered
    <2> QED BY <2>1, <2>2, <2>3 DEF AskedInOrder
<1>8. /\ completed' + failed' = completed + failed + 1
      /\ completed \in Nat /\ failed \in Nat /\ completed' \in Nat /\ failed' \in Nat
    BY DEF Record, ShardTypeOK
<1>9. Total(r)' = completed' + failed'
    BY <1>2 DEF Total
<1>10. \A q \in Responders : HasAnswered(q) =>
          seen[q].completed <= completed /\ seen[q].failed <= failed /\ Total(q) < Total(r)'
    BY <1>8, <1>9 DEF Batched, ReadInOrder, ReadAt, Total, ShardTypeOK
<1>11. IsFiniteSet(Responded') /\ Cardinality(Responded') = Total(r)'
    BY <1>2, <1>9, RespondersFinite, FS_Subset DEF Counted, Responded
<1>12. \A q \in Responders : HasAnswered(q)' /\ Total(q)' = Total(r)' => q = r
    BY <1>3, <1>10 DEF Total, ShardTypeOK
<1>13. ~(r = Local) => /\ r \in Requests /\ r[2] = 1 /\ r[1] <= others
                      /\ <<BatchOf(r[1]), 1>> \in Batches /\ sched[<<BatchOf(r[1]), 1>>] # "none"
    BY RequestBatch, OperationAssumption DEF Batched, AskedInOrder, Record, Responders, Copies
<1>14. \A b \in Batches : sched[b] # "none" => b[1] < LeftFrom(r)
    <2> SUFFICES ASSUME NEW b \in Batches, sched[b] # "none", LeftFrom(r) <= b[1] PROVE FALSE
        BY <1>6, RequestBatch, OperationAssumption DEF Responders, LeftFrom
    <2>1. PrefixAnswered(lead, b[1])
        BY DEF Batched, AskedInOrder
    <2>2. CASE r = Local
        BY <1>1, <1>6, <2>1, <2>2 DEF PrefixAnswered, Local
    <2>3. CASE r # Local
        <3>1. r = <<r[1], 1>> /\ r[1] \in (1 - lead) .. b[1]
            BY <1>6, <1>13, <2>3, RequestBatch, OperationAssumption
        <3> QED BY <1>1, <2>1, <3>1 DEF PrefixAnswered
    <2> QED BY <2>2, <2>3
<1>15. ReadAt(lead, r)'
    <2>1. CASE r = Local
        <3>1. \A b \in Batches : sched[b] = "none"
            BY <1>6, <1>14, <2>1 DEF LeftFrom
        <3>2. \A q \in Requests : ~HasAnswered(q)
            BY <3>1, RequestBatch, OperationAssumption
               DEF Batched, AskedInOrder, Unanswered, Responders, Copies
        <3>3. Responded = {}
            BY <1>1, <2>1, <3>2 DEF Responded, Responders
        <3>4. completed + failed + 1 = 1
            BY <1>8, <3>3, FS_EmptySet DEF Batched, Counted
        <3>7. completed' + failed' = 1
            BY <1>8, <3>4
        <3>8. Total(r)' = 1
            BY <1>9, <3>7
        <3>9. LeftFrom(r) = 0
            BY <2>1 DEF LeftFrom
        <3>5. PrefixAnswered(lead, LeftFrom(r))'
            BY <1>3, <2>1, <3>9 DEF PrefixAnswered, Local
        <3>6. others' = others /\ others \in Nat
            BY <1>1, OperationAssumption DEF ShardTypeOK
        <3>10. seen'[r].completed <= completed' /\ seen'[r].failed <= failed'
            BY <1>2, <1>8
        <3>11. lead = 1 /\ 1 <= LeftFrom(r) + lead /\ 1 <= others + lead
            BY <2>1, <3>6, <3>9
        <3> QED BY <1>12, <2>1, <3>5, <3>6, <3>8, <3>10, <3>11 DEF ReadAt
    <2>2. CASE r # Local
        <3> DEFINE k == BatchOf(r[1])
        <3>1. /\ r \in Requests /\ r[2] = 1 /\ r[1] <= others /\ r = <<r[1], 1>>
              /\ k \in Nat /\ k < r[1] /\ r[1] \in Nat /\ r[1] <= LeftFrom(r)
              /\ LeftFrom(r) \in Nat /\ others \in Nat
            BY <1>13, <2>2, RequestBatch, OperationAssumption DEF ShardTypeOK
        <3>2. PrefixAnswered(lead, k)
            BY <1>13, <2>2 DEF Batched, AskedInOrder
        <3> HIDE DEF k
        <3>3. k + lead < Total(r)'
            <4>1. Prefix(lead, k) \subseteq Responded
                <5> SUFFICES ASSUME NEW n \in (1 - lead) .. k PROVE <<n, 1>> \in Responded
                    BY DEF Prefix
                <5>1. k \in 0 .. MaxOthers
                    BY <3>1, OperationAssumption DEF ShardTypeOK
                <5> QED BY <3>2, <5>1, PrefixResponders DEF Responded, PrefixAnswered
            <4>2. IsFiniteSet(Responded) /\ Cardinality(Responded) = completed + failed
                BY RespondersFinite, FS_Subset DEF Responded, Batched, Counted
            <4>3. k + lead <= completed + failed
                BY <3>1, <4>1, <4>2, PrefixCounted, FS_Subset
            <4> QED BY <1>8, <1>9, <3>1, <4>3 DEF ShardTypeOK
        <3> DEFINE m == IF LeftFrom(r) <= others THEN LeftFrom(r) ELSE others
        <3>4. m \in Nat /\ r[1] <= m /\ m <= others /\ m <= LeftFrom(r)
            BY <3>1
        <3>5. \A q \in Requests : HasAnswered(q) => q[1] <= m
            <4> SUFFICES ASSUME NEW q \in Requests, HasAnswered(q)
                         PROVE  q[1] <= others /\ q[1] <= LeftFrom(r)
                OBVIOUS
            <4>1. /\ q[1] <= others /\ q[2] = 1
                  /\ <<BatchOf(q[1]), 1>> \in Batches /\ sched[<<BatchOf(q[1]), 1>>] # "none"
                BY RequestBatch DEF Batched, AskedInOrder, Unanswered, Responders
            <4>2. BatchOf(q[1]) < LeftFrom(r)
                BY <1>14, <4>1
            <4>3. BatchOf(r[1]) < BatchOf(q[1]) => LeftFrom(r) <= BatchOf(q[1])
                BY <3>1, RequestBatch, BatchesApart
            <4> QED BY <3>1, <4>1, <4>2, <4>3, RequestBatch, OperationAssumption
        <3> HIDE DEF m
        <3>6. Responded' \subseteq Prefix(lead, m)
            <4>1. Responded \subseteq Prefix(lead, m)
                BY <3>4, <3>5, AnsweredInPrefix DEF Batched, ShardTypeOK
            <4>2. r \in Prefix(lead, m)
                BY <3>1, <3>4 DEF Prefix
            <4> QED BY <1>2, <4>1, <4>2
        <3>7. Total(r)' <= m + lead
            BY <1>11, <3>4, <3>6, PrefixCounted, FS_Subset
        <3>8. Total(r)' = LeftFrom(r) + lead => PrefixAnswered(lead, LeftFrom(r))'
            <4> SUFFICES ASSUME Total(r)' = LeftFrom(r) + lead PROVE PrefixAnswered(lead, LeftFrom(r))'
                OBVIOUS
            <4>1. m = LeftFrom(r)
                BY <3>1, <3>4, <3>7
            <4>2. Responded' = Prefix(lead, m)
                BY <1>11, <3>4, <3>6, <4>1, PrefixCounted, FS_Subset
            <4> QED BY <4>1, <4>2 DEF Prefix, PrefixAnswered, Responded
        <3>9. Total(r)' \in Nat
            BY <1>8, <1>9 DEF Total
        <3> QED BY <1>1, <1>2, <1>8, <1>12, <2>2, <3>1, <3>3, <3>4, <3>7, <3>8, <3>9
                DEF ReadAt, k, Total, HasAnswered
    <2> QED BY <2>1, <2>2
<1>16. ASSUME NEW q \in Responders, q # r, HasAnswered(q)' PROVE ReadAt(lead, q)'
    <2>1. HasAnswered(q) /\ seen'[q] = seen[q] /\ Total(q)' = Total(q)
        BY <1>2, <1>3, <1>16
    <2>2. ReadAt(lead, q)
        BY <2>1 DEF Batched, ReadInOrder
    <2>3. /\ seen'[q].completed <= completed' /\ seen'[q].failed <= failed'
          /\ \A o \in Responders : HasAnswered(o)' /\ Total(o)' = Total(q)' => o = q
        <3>1. seen'[q].completed <= completed' /\ seen'[q].failed <= failed'
            BY <1>2, <1>8, <1>10, <2>1 DEF ShardTypeOK
        <3> QED BY <1>3, <1>12, <2>1, <2>2, <3>1 DEF ReadAt
    <2>4. Total(q)' = LeftFrom(q) + lead => PrefixAnswered(lead, LeftFrom(q))'
        <3>1. LeftFrom(q) \in Nat /\ others \in Nat /\ others <= MaxOthers /\ MaxOthers \in Nat
            BY RequestBatch, OperationAssumption DEF Responders, LeftFrom, ShardTypeOK
        <3> QED BY <1>5, <2>1, <2>2, <3>1 DEF ReadAt
    <2> QED BY <1>1, <2>1, <2>2, <2>3, <2>4 DEF ReadAt
<1>17. EndsPending(lead)'
    <2> SUFFICES ASSUME NEW q \in Responders, IsLast(lead, q)', place'[q] # "done",
                        NEW b \in Batches, sched'[b] # "none"
                 PROVE  b[1] < LeftFrom(q)
        BY DEF EndsPending
    <2>1. CASE q = r
        BY <1>1, <1>14, <2>1
    <2>2. CASE q # r
        BY <1>1, <1>3, <1>4, <2>2 DEF Batched, EndsPending, IsLast
    <2> QED BY <2>1, <2>2
<1> QED BY <1>2, <1>7, <1>15, <1>16, <1>17 DEF Batched, ReadInOrder

LEMMA NextIsBatch ==
    ASSUME NEW k \in Nat, k % BatchSize = 0
    PROVE  (k + BatchSize) % BatchSize = 0
<1>1. BatchSize \in Nat \ {0}
    BY OperationAssumption
<1> DEFINE q == k \div BatchSize
<1>2. q \in Nat /\ k = q * BatchSize
    BY <1>1, Z3
<1> HIDE DEF q
<1>3. k + BatchSize = (q + 1) * BatchSize
    BY <1>1, <1>2, Z3
<1>4. ((q + 1) * BatchSize) % BatchSize = 0
    BY <1>1, <1>2, Z3
<1> QED BY <1>3, <1>4

(* Nodes are left after a batch only where a batch begins.                 *)
LEMMA LeftoverBatch ==
    ASSUME ShardTypeOK, NEW r \in Responders, Left(r) > 0
    PROVE  LeftFrom(r) < others /\ \A c \in Copies : <<LeftFrom(r), c>> \in Batches
<1>1. LeftFrom(r) \in Nat /\ others \in Nat /\ others <= MaxOthers /\ MaxOthers \in Nat
    BY RequestBatch, OperationAssumption DEF Responders, LeftFrom, ShardTypeOK
<1>2. LeftFrom(r) < others
    BY <1>1 DEF Left
<1>3. LeftFrom(r) % BatchSize = 0
    <2>1. CASE r = Local
        BY <2>1, OperationAssumption DEF LeftFrom
    <2>2. CASE r # Local
        BY <2>2, RequestBatch, NextIsBatch DEF Responders
    <2> QED BY <2>1, <2>2
<1> QED BY <1>1, <1>2, <1>3 DEF Batches

(* The last responder of a batch schedules the next one: it is the first   *)
(* and only one to do so.                                                  *)
LEMMA NextBatchKeeps ==
    ASSUME ShardTypeOK, NEW lead \in {0, 1}, Batched(lead), NEW r \in Responders,
           IsLast(lead, r), place[r] \notin {"none", "done"}, Left(r) > 0,
           Scheduled(LeftFrom(r)), Moved(r, "done"),
           UNCHANGED <<others, seen, completed, failed>>
    PROVE  Batched(lead)'
<1> USE DEF HasAnswered, Total
<1> DEFINE k == LeftFrom(r)
           next == <<k, 1>>
<1>1. k < others /\ 1 \in Copies /\ \A c \in Copies : <<k, c>> \in Batches
    BY LeftoverBatch, OperationAssumption DEF Copies, ShardTypeOK
<1>2. \A b \in Batches : sched[b] # "none" => b[1] < k
    BY DEF Batched, EndsPending
<1>3. \A c \in Copies : sched[<<k, c>>] = "none"
    <2>1. k \in Nat
        BY RequestBatch, OperationAssumption DEF Responders, LeftFrom
    <2> QED BY <1>1, <1>2, <2>1
<1>4. sched' = [sched EXCEPT ![next] = "waiting"]
    <2>1. PICK c \in Copies : /\ \A d \in 1 .. (c - 1) : sched[<<k, d>>] # "none"
                             /\ sched' = [sched EXCEPT ![<<k, c>>] = "waiting"]
        BY DEF Scheduled, ShardTypeOK
    <2>2. c = 1
        <3>1. c # 1 => 1 \in 1 .. (c - 1)
            BY OperationAssumption DEF Copies
        <3> QED BY <1>1, <1>3, <2>1, <3>1
    <2> QED BY <2>1, <2>2
<1>5. next \in Batches /\ next[1] = k /\ next[2] = 1
    BY <1>1
<1>6. PrefixAnswered(lead, k)
    BY DEF Batched, ReadInOrder, ReadAt, IsLast
<1> HIDE DEF k, next
<1>7. \A b \in Batches : sched'[b] = IF b = next THEN "waiting" ELSE sched[b]
    BY <1>4, <1>5 DEF ShardTypeOK
<1>8. \A q \in Responders : place'[q] = IF q = r THEN "done" ELSE place[q]
    BY DEF Moved, ShardTypeOK
<1>9. Counted' /\ ReadInOrder(lead)'
    BY DEF Batched, Counted, Responded, Positive, ReadInOrder, ReadAt, PrefixAnswered
<1>10. ASSUME NEW b \in Batches, sched'[b] # "none"
       PROVE  b[2] = 1 /\ b[1] <= others' /\ PrefixAnswered(lead, b[1])'
    <2>1. CASE b = next
        <3>1. others \in Int /\ k \in Int
            BY RequestBatch, OperationAssumption DEF ShardTypeOK, Responders, LeftFrom, k
        <3> QED BY <1>1, <1>5, <1>6, <2>1, <3>1 DEF PrefixAnswered
    <2>2. CASE b # next
        BY <1>7, <1>10, <2>2 DEF Batched, AskedInOrder, PrefixAnswered
    <2> QED BY <2>1, <2>2
<1>11. ASSUME NEW q \in Requests, place'[q] # "none"
       PROVE  q[2] = 1 /\ q[1] <= others' /\ sched'[<<BatchOf(q[1]), 1>>] # "none"
    <2>1. place[q] # "none" /\ <<BatchOf(q[1]), 1>> \in Batches
        BY <1>1, <1>8, <1>11, RequestBatch DEF Responders
    <2> QED BY <1>7, <2>1 DEF Batched, AskedInOrder
<1>12. ASSUME NEW q \in Responders, HasAnswered(q)' PROVE place'[q] \notin Unanswered
    BY <1>8, <1>12 DEF Batched, AskedInOrder, Unanswered
<1>13. AskedInOrder(lead)'
    BY <1>10, <1>11, <1>12 DEF AskedInOrder
<1>14. EndsPending(lead)'
    <2> SUFFICES ASSUME NEW q \in Responders, IsLast(lead, q)', place'[q] # "done" PROVE FALSE
        BY DEF EndsPending
    <2>1. q # r /\ place[q] # "done" /\ IsLast(lead, q)
        BY <1>8 DEF IsLast
    <2>2. Total(q) = completed + failed /\ Total(r) = completed + failed
        BY <2>1, LastIsQuiet DEF ShardTypeOK
    <2> QED BY <2>1, <2>2 DEF Batched, ReadInOrder, ReadAt, IsLast
<1> QED BY <1>9, <1>13, <1>14 DEF Batched

(* Nobody was asked, nobody answered.                                      *)
Blank ==
    /\ completed = 0 /\ failed = 0
    /\ \A b \in Batches : sched[b] = "none"
    /\ \A r \in Responders : ~HasAnswered(r)
    /\ \A r \in Requests : place[r] = "none"

LEMMA BlankIsBatched ==
    ASSUME NEW lead \in {0, 1}, Blank
    PROVE  Batched(lead)
<1>1. Positive = {} /\ Responded = {}
    BY DEF Blank, HasAnswered, Positive, Responded
<1>2. Counted
    BY <1>1, FS_EmptySet DEF Blank, Counted
<1> QED BY <1>2 DEF Blank, Batched, AskedInOrder, ReadInOrder, EndsPending, IsLast

(* As long as nobody was asked the shard may be found.                     *)
LEMMA BlankKeeps ==
    ASSUME NEW lead \in {0, 1}, Blank, UNCHANGED <<sched, place, seen, completed, failed>>
    PROVE  Batched(lead)' /\ Blank'
<1>1. Counted
    BY BlankIsBatched DEF Batched
<1>2. Counted'
    BY <1>1 DEF Counted, Positive, Responded, HasAnswered
<1>3. Blank'
    BY DEF Blank, HasAnswered
<1>4. AskedInOrder(lead)' /\ ReadInOrder(lead)' /\ EndsPending(lead)'
    BY <1>3 DEF Blank, AskedInOrder, ReadInOrder, EndsPending, IsLast
<1> QED BY <1>2, <1>3, <1>4 DEF Batched

(* A node that records no response of its own asks the first batch.         *)
LEMMA FirstBatchKeeps ==
    ASSUME ShardTypeOK, Blank, Scheduled(0),
           UNCHANGED <<others, place, seen, completed, failed>>
    PROVE  Batched(0)'
<1> USE DEF HasAnswered, Total
<1>1. PICK c \in Copies : /\ \A d \in 1 .. (c - 1) : sched[<<0, d>>] # "none"
                         /\ sched' = [sched EXCEPT ![<<0, c>>] = "waiting"]
    BY DEF Scheduled, ShardTypeOK
<1>2. \A d \in Copies : <<0, d>> \in Batches
    BY OperationAssumption DEF Batches
<1>3. c = 1
    <2>1. c # 1 => 1 \in 1 .. (c - 1)
        BY OperationAssumption DEF Copies
    <2>2. sched[<<0, 1>>] = "none"
        BY <1>2, OperationAssumption DEF Copies, Blank
    <2> QED BY <1>1, <2>1, <2>2
<1>4. \A b \in Batches : sched'[b] # "none" => b[1] = 0 /\ b[2] = 1
    BY <1>1, <1>2, <1>3 DEF Blank, ShardTypeOK
<1>5. Counted
    BY BlankIsBatched DEF Batched
<1>6. Counted'
    BY <1>5 DEF Counted, Positive, Responded
<1>7. AskedInOrder(0)'
    <2>1. others' = others /\ 0 <= others
        BY OperationAssumption DEF ShardTypeOK
    <2> QED BY <1>4, <2>1 DEF Blank, AskedInOrder, PrefixAnswered
<1>8. ReadInOrder(0)' /\ EndsPending(0)'
    BY DEF Blank, ReadInOrder, EndsPending, IsLast
<1> QED BY <1>6, <1>7, <1>8 DEF Batched
-----------------------------------------------------------------------------
(* Responses and nodes                                                     *)

(* Every responder that answered is the first copy for its node, so the    *)
(* table of responses counts nodes.                                        *)
LEMMA FirstCopies ==
    ASSUME NEW lead \in {0, 1}, Batched(lead), NEW r \in Responders, place[r] # "none"
    PROVE  r = <<r[1], 1>>
<1>1. CASE r = Local
    BY <1>1 DEF Local
<1>2. CASE r # Local
    <2>1. r \in Requests
        BY <1>2 DEF Responders
    <2>2. r[2] = 1
        BY <2>1 DEF Batched, AskedInOrder
    <2> QED BY <2>1, <2>2, RequestBatch
<1> QED BY <1>1, <1>2

LEMMA ResponderIsAsked ==
    ASSUME ShardTypeOK, NEW lead \in {0, 1}, Batched(lead),
           NEW r \in Responders, place[r] # "none", r = Local => lead = 1
    PROVE  r[1] \in (1 - lead) .. others
<1>0. others \in Nat
    BY OperationAssumption DEF ShardTypeOK
<1>1. CASE r = Local
    BY <1>0, <1>1 DEF Local
<1>2. CASE r # Local
    <2>1. r \in Requests
        BY <1>2 DEF Responders
    <2>2. r[1] <= others
        BY <2>1 DEF Batched, AskedInOrder
    <2>3. r[1] \in Nat \ {0}
        BY <2>1, RequestBatch
    <2> QED BY <1>0, <2>2, <2>3
<1> QED BY <1>1, <1>2

(* The nodes heard of are asked ones, and as many as the responses.         *)
LEMMA NodesCounted ==
    ASSUME ShardTypeOK, NEW lead \in {0, 1}, Batched(lead)
    PROVE  /\ IsFiniteSet(Ackers) /\ Cardinality(Ackers) = completed
           /\ IsFiniteSet(Heard) /\ Cardinality(Heard) = completed + failed
           /\ Ackers \subseteq Heard /\ Heard \subseteq (1 - lead) .. others
           /\ IsFiniteSet(Heard \ Ackers) /\ Cardinality(Heard \ Ackers) = failed
<1>1. ASSUME NEW r \in Responded
      PROVE  r \in Responders /\ place[r] # "none" /\ r[2] = 1 /\ (r = Local => lead = 1)
    <2>1. r \in Responders /\ place[r] # "none"
        BY DEF Batched, AskedInOrder, Responded, Unanswered
    <2>2. r = <<r[1], 1>>
        BY <2>1, FirstCopies
    <2>3. r = Local => lead = 1
        BY DEF Batched, ReadInOrder, ReadAt, Responded
    <2> QED BY <2>1, <2>2, <2>3
<1>2. Positive \subseteq Responded /\ Responded \subseteq Responders
    BY DEF Positive, Responded, HasAnswered
<1>3. Ackers = {r[1] : r \in Positive} /\ Heard = {r[1] : r \in Responded}
    BY DEF Ackers, Heard, Positive, Responded, HasAnswered
<1>4. IsFiniteSet(Ackers) /\ Cardinality(Ackers) = completed
    <2>1. IsFiniteSet(Ackers) /\ Cardinality(Ackers) = Cardinality(Positive)
        BY <1>1, <1>2, <1>3, NodesOf
    <2> QED BY <2>1 DEF Batched, Counted
<1>5. IsFiniteSet(Heard) /\ Cardinality(Heard) = completed + failed
    <2>1. IsFiniteSet(Heard) /\ Cardinality(Heard) = Cardinality(Responded)
        BY <1>1, <1>2, <1>3, NodesOf
    <2> QED BY <2>1 DEF Batched, Counted
<1>6. Ackers \subseteq Heard
    BY <1>2, <1>3
<1>7. Heard \subseteq (1 - lead) .. others
    BY <1>1, <1>3, ResponderIsAsked
<1>8. IsFiniteSet(Heard \ Ackers) /\ Cardinality(Heard \ Ackers) = failed
    <2>1. /\ IsFiniteSet(Heard \ Ackers)
          /\ Cardinality(Heard \ Ackers) = Cardinality(Heard) - Cardinality(Heard \cap Ackers)
        BY <1>5, FS_Difference
    <2>2. Heard \cap Ackers = Ackers
        BY <1>6
    <2>3. Cardinality(Heard \ Ackers) = (completed + failed) - completed
        BY <1>4, <1>5, <2>1, <2>2
    <2>4. (completed + failed) - completed = failed
        BY DEF ShardTypeOK
    <2> QED BY <2>1, <2>3, <2>4
<1> QED BY <1>4, <1>5, <1>6, <1>7, <1>8

(* A response is an answer of its node, which had not answered.             *)
LEMMA AnswerCounts ==
    ASSUME ShardTypeOK, NEW lead \in {0, 1}, Batched(lead),
           NEW r \in Responders, Record(r), r = Local => lead = 1
    PROVE  /\ r[1] \in ((1 - lead) .. others) \ Heard
           /\ \/ Ackers' = Ackers \cup {r[1]} /\ (Heard \ Ackers)' = Heard \ Ackers
              \/ Ackers' = Ackers /\ (Heard \ Ackers)' = (Heard \ Ackers) \cup {r[1]}
<1>1. ~HasAnswered(r) /\ place[r] # "none"
    BY DEF Batched, AskedInOrder, Unanswered, Record
<1>2. /\ Responded' = Responded \cup {r}
      /\ Positive' = IF place[r] = "acked" THEN Positive \cup {r} ELSE Positive
    BY <1>1, RecordCounts DEF Batched
<1>3. r[1] \in (1 - lead) .. others
    BY <1>1, ResponderIsAsked
<1>4. r[1] \notin Heard
    <2> SUFFICES ASSUME NEW q \in Responders, HasAnswered(q), q[1] = r[1] PROVE FALSE
        BY DEF Heard, HasAnswered
    <2>1. place[q] # "none"
        BY DEF Batched, AskedInOrder, Unanswered
    <2>2. q = <<q[1], 1>> /\ r = <<r[1], 1>>
        BY <1>1, <2>1, FirstCopies
    <2> QED BY <1>1, <2>2
<1>5. /\ Heard = {q[1] : q \in Responded} /\ Ackers = {q[1] : q \in Positive}
      /\ Heard' = {q[1] : q \in Responded'} /\ Ackers' = {q[1] : q \in Positive'}
    BY DEF Heard, Ackers, Responded, Positive, HasAnswered
<1>6. Heard' = Heard \cup {r[1]}
    BY <1>2, <1>5
<1>7. Ackers' = IF place[r] = "acked" THEN Ackers \cup {r[1]} ELSE Ackers
    BY <1>2, <1>5
<1>8. Ackers \subseteq Heard
    BY NodesCounted
<1> QED BY <1>3, <1>4, <1>6, <1>7, <1>8
=============================================================================
