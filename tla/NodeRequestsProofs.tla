--------------------------- MODULE NodeRequestsProofs ---------------------------
(***************************************************************************)
(* Proofs about the parts of a node that serve requests: what its API      *)
(* tells a client, the cache of operations, which a client polls, the      *)
(* sessions between nodes, the finalization of a publish, the triple       *)
(* store, and all of them together.                                        *)
(* The API, for any number of operations, any requests they may be and any *)
(* number of faults: what a controller or a command has left to do is a    *)
(* suffix of the steps it was given; the suffixes get names, lemmas say    *)
(* how each one goes on, and everything else reasons about the names.      *)
(***************************************************************************)
EXTENDS MCNodeRequests, FiniteSetTheorems, SequenceTheorems, TLAPS

-----------------------------------------------------------------------------
(* What the steps of an operation that ends leave.                          *)

Failed == <<"failed">>
DropFailed == <<"drop", "failed">>
RowFailed == <<"rowFailed", "drop", "failed">>
MarkFailed == <<"drop", "rowFailed", "drop", "failed">>
Completed == <<"completed">>
Ended == <<"end", "completed">>
RowCompleted == <<"rowCompleted", "end", "completed">>
DropInput == <<"drop", "rowCompleted", "end", "completed">>
ResultFile == <<"resultFile", "rowCompleted", "end", "completed">>
ResultMemory == <<"resultMemory", "resultFile", "rowCompleted", "end", "completed">>
Shard4 == <<"begin", "shard", "begin", "work">>
Shard3 == <<"shard", "begin", "work">>
Shard2 == <<"begin", "work">>
Work == <<"work">>
Get7 == <<"begin", "validate", "root", "begin", "shard", "begin", "work">>
Get6 == <<"validate", "root", "begin", "shard", "begin", "work">>
Root5 == <<"root", "begin", "shard", "begin", "work">>
Short6 == <<"begin", "validate", "begin", "shard", "begin", "work">>
Short5 == <<"validate", "begin", "shard", "begin", "work">>
Ask3 == <<"begin", "drop", "failed">>
Store4 == <<"begin", "insert", "end", "completed">>
Store3 == <<"insert", "end", "completed">>
ToPublish8 == <<"initStart", "answer", "initEnd", "row", "memory", "file", "pending", "add">>
ToPublish7 == <<"answer", "initEnd", "row", "memory", "file", "pending", "add">>
ToPublish6 == <<"initEnd", "row", "memory", "file", "pending", "add">>
ToPublish5 == <<"row", "memory", "file", "pending", "add">>
ToPublish4 == <<"memory", "file", "pending", "add">>
ToPublish3 == <<"file", "pending", "add">>
ToPublish2 == <<"pending", "add">>
Adding == <<"add">>
ToGet7 == <<"initStart", "answer", "row", "migration", "resolve", "add", "initEnd">>
ToGet6 == <<"answer", "row", "migration", "resolve", "add", "initEnd">>
ToGet5 == <<"row", "migration", "resolve", "add", "initEnd">>
ToGet4 == <<"migration", "resolve", "add", "initEnd">>
ToGet3 == <<"resolve", "add", "initEnd">>
ToGet2 == <<"add", "initEnd">>
InitEnd == <<"initEnd">>
ToAsk6 == <<"initStart", "answer", "row", "root", "add", "askEnd">>
ToAsk5 == <<"answer", "row", "root", "add", "askEnd">>
ToAsk4 == <<"row", "root", "add", "askEnd">>
ToAsk3 == <<"root", "add", "askEnd">>
ToAsk2 == <<"add", "askEnd">>
AskEnd == <<"askEnd">>
ToStore6 == <<"answer", "initEnd", "read", "memory", "file", "add">>
ToStore5 == <<"initEnd", "read", "memory", "file", "add">>
ToStore4 == <<"read", "memory", "file", "add">>
ToStore3 == <<"memory", "file", "add">>
ToStore2 == <<"file", "add">>

FailLeft == {MarkFailed, RowFailed, DropFailed, Failed}
End == {Ended, Completed}
PublishEarly == {Shard4, Shard3, Shard2, Work}
GetEarly == {Get7, Get6, Root5, Shard4, Shard3, Shard2, Work, Short6, Short5}
AskEarly == {Ask3}
StoreEarly == {Store4, Store3}
PublishSteps == {ToPublish8, ToPublish7, ToPublish6, ToPublish5, ToPublish4, ToPublish3,
    ToPublish2, Adding}
GetSteps == {ToGet7, ToGet6, ToGet5, ToGet4, ToGet3, ToGet2}
AskSteps == {ToAsk6, ToAsk5, ToAsk4, ToAsk3, ToAsk2}
StoreSteps == {ToStore6, ToStore5, ToStore4, ToStore3, ToStore2, Adding}

LEMMA EndSteps ==
    /\ Failed # <<>> /\ Head(Failed) = "failed" /\ Tail(Failed) = <<>>
    /\ DropFailed # <<>> /\ Head(DropFailed) = "drop" /\ Tail(DropFailed) = Failed
    /\ RowFailed # <<>> /\ Head(RowFailed) = "rowFailed" /\ Tail(RowFailed) = DropFailed
    /\ MarkFailed # <<>> /\ Head(MarkFailed) = "drop" /\ Tail(MarkFailed) = RowFailed
    /\ Completed # <<>> /\ Head(Completed) = "completed" /\ Tail(Completed) = <<>>
    /\ Ended # <<>> /\ Head(Ended) = "end" /\ Tail(Ended) = Completed
    /\ RowCompleted # <<>> /\ Head(RowCompleted) = "rowCompleted" /\ Tail(RowCompleted) = Ended
    /\ DropInput # <<>> /\ Head(DropInput) = "drop" /\ Tail(DropInput) = RowCompleted
    /\ ResultFile # <<>> /\ Head(ResultFile) = "resultFile" /\ Tail(ResultFile) = RowCompleted
    /\ ResultMemory # <<>> /\ Head(ResultMemory) = "resultMemory" /\ Tail(ResultMemory) = ResultFile
BY DEF Failed, DropFailed, RowFailed, MarkFailed, Completed, Ended, RowCompleted, DropInput,
    ResultFile, ResultMemory

LEMMA ShardSteps ==
    /\ Shard4 # <<>> /\ Head(Shard4) = "begin" /\ Tail(Shard4) = Shard3
    /\ Shard3 # <<>> /\ Head(Shard3) = "shard" /\ Tail(Shard3) = Shard2
    /\ Shard2 # <<>> /\ Head(Shard2) = "begin" /\ Tail(Shard2) = Work
    /\ Work # <<>> /\ Head(Work) = "work" /\ Tail(Work) = <<>>
BY DEF Shard4, Shard3, Shard2, Work

LEMMA GetCommandSteps ==
    /\ Get7 # <<>> /\ Head(Get7) = "begin" /\ Tail(Get7) = Get6
    /\ Get6 # <<>> /\ Head(Get6) = "validate" /\ Tail(Get6) = Root5
    /\ Root5 # <<>> /\ Head(Root5) = "root" /\ Tail(Root5) = Shard4
    /\ Short6 # <<>> /\ Head(Short6) = "begin" /\ Tail(Short6) = Short5
    /\ Short5 # <<>> /\ Head(Short5) = "validate" /\ Tail(Short5) = Shard4
BY DEF Get7, Get6, Root5, Shard4, Short6, Short5

LEMMA OtherCommandSteps ==
    /\ Ask3 # <<>> /\ Head(Ask3) = "begin" /\ Tail(Ask3) = DropFailed
    /\ Store4 # <<>> /\ Head(Store4) = "begin" /\ Tail(Store4) = Store3
    /\ Store3 # <<>> /\ Head(Store3) = "insert" /\ Tail(Store3) = Ended
BY DEF Ask3, DropFailed, Store4, Store3, Ended

LEMMA PublishControllerSteps ==
    /\ ToPublish8 # <<>> /\ Head(ToPublish8) = "initStart" /\ Tail(ToPublish8) = ToPublish7
    /\ ToPublish7 # <<>> /\ Head(ToPublish7) = "answer" /\ Tail(ToPublish7) = ToPublish6
    /\ ToPublish6 # <<>> /\ Head(ToPublish6) = "initEnd" /\ Tail(ToPublish6) = ToPublish5
    /\ ToPublish5 # <<>> /\ Head(ToPublish5) = "row" /\ Tail(ToPublish5) = ToPublish4
    /\ ToPublish4 # <<>> /\ Head(ToPublish4) = "memory" /\ Tail(ToPublish4) = ToPublish3
    /\ ToPublish3 # <<>> /\ Head(ToPublish3) = "file" /\ Tail(ToPublish3) = ToPublish2
    /\ ToPublish2 # <<>> /\ Head(ToPublish2) = "pending" /\ Tail(ToPublish2) = Adding
    /\ Adding # <<>> /\ Head(Adding) = "add" /\ Tail(Adding) = <<>>
BY DEF ToPublish8, ToPublish7, ToPublish6, ToPublish5, ToPublish4, ToPublish3, ToPublish2, Adding

LEMMA GetControllerSteps ==
    /\ ToGet7 # <<>> /\ Head(ToGet7) = "initStart" /\ Tail(ToGet7) = ToGet6
    /\ ToGet6 # <<>> /\ Head(ToGet6) = "answer" /\ Tail(ToGet6) = ToGet5
    /\ ToGet5 # <<>> /\ Head(ToGet5) = "row" /\ Tail(ToGet5) = ToGet4
    /\ ToGet4 # <<>> /\ Head(ToGet4) = "migration" /\ Tail(ToGet4) = ToGet3
    /\ ToGet3 # <<>> /\ Head(ToGet3) = "resolve" /\ Tail(ToGet3) = ToGet2
    /\ ToGet2 # <<>> /\ Head(ToGet2) = "add" /\ Tail(ToGet2) = InitEnd
    /\ InitEnd # <<>> /\ Head(InitEnd) = "initEnd" /\ Tail(InitEnd) = <<>>
BY DEF ToGet7, ToGet6, ToGet5, ToGet4, ToGet3, ToGet2, InitEnd

LEMMA AskControllerSteps ==
    /\ ToAsk6 # <<>> /\ Head(ToAsk6) = "initStart" /\ Tail(ToAsk6) = ToAsk5
    /\ ToAsk5 # <<>> /\ Head(ToAsk5) = "answer" /\ Tail(ToAsk5) = ToAsk4
    /\ ToAsk4 # <<>> /\ Head(ToAsk4) = "row" /\ Tail(ToAsk4) = ToAsk3
    /\ ToAsk3 # <<>> /\ Head(ToAsk3) = "root" /\ Tail(ToAsk3) = ToAsk2
    /\ ToAsk2 # <<>> /\ Head(ToAsk2) = "add" /\ Tail(ToAsk2) = AskEnd
    /\ AskEnd # <<>> /\ Head(AskEnd) = "askEnd" /\ Tail(AskEnd) = <<>>
BY DEF ToAsk6, ToAsk5, ToAsk4, ToAsk3, ToAsk2, AskEnd

LEMMA StoreControllerSteps ==
    /\ ToStore6 # <<>> /\ Head(ToStore6) = "answer" /\ Tail(ToStore6) = ToStore5
    /\ ToStore5 # <<>> /\ Head(ToStore5) = "initEnd" /\ Tail(ToStore5) = ToStore4
    /\ ToStore4 # <<>> /\ Head(ToStore4) = "read" /\ Tail(ToStore4) = ToStore3
    /\ ToStore3 # <<>> /\ Head(ToStore3) = "memory" /\ Tail(ToStore3) = ToStore2
    /\ ToStore2 # <<>> /\ Head(ToStore2) = "file" /\ Tail(ToStore2) = Adding
BY DEF ToStore6, ToStore5, ToStore4, ToStore3, ToStore2, Adding

LEMMA PublishCommands ==
    /\ \A r \in PublishEarly \ {Work} : r # <<>> /\ Head(r) \in {"begin", "shard"} /\ Tail(r) \in PublishEarly
    /\ Work # <<>> /\ Head(Work) = "work" /\ Work \in PublishEarly
BY ShardSteps DEF PublishEarly

LEMMA GetCommands ==
    /\ \A r \in GetEarly \ {Work} :
          r # <<>> /\ Head(r) \in {"begin", "validate", "root", "shard"} /\ Tail(r) \in GetEarly
    /\ Work \in GetEarly
<1>1. \A r \in GetEarly \ {Work} : r # <<>> /\ Head(r) \in {"begin", "validate", "root", "shard"}
    BY GetCommandSteps, ShardSteps DEF GetEarly
<1>2. \A r \in GetEarly \ {Work} : Tail(r) \in GetEarly
    BY GetCommandSteps, ShardSteps DEF GetEarly
<1> QED BY <1>1, <1>2 DEF GetEarly

LEMMA OtherCommands ==
    /\ \A r \in AskEarly : r # <<>> /\ Head(r) = "begin" /\ Tail(r) = DropFailed
    /\ \A r \in StoreEarly : r # <<>> /\ Head(r) \in {"begin", "insert"}
                             /\ Tail(r) \in StoreEarly \cup {Ended} /\ (Tail(r) = Ended => Head(r) = "insert")
<1>1. Ended # Store3
    BY EndSteps, OtherCommandSteps
<1> QED BY <1>1, OtherCommandSteps DEF AskEarly, StoreEarly

LEMMA PublishControllers ==
    \A r \in PublishSteps :
        /\ r # <<>> /\ Head(r) \in {"initStart", "answer", "initEnd", "row", "memory", "file", "pending", "add"}
        /\ r = Adding \/ Tail(r) \in PublishSteps
        /\ Head(r) = "add" <=> r = Adding
        /\ Tail(r) = ToPublish3 => Head(r) = "memory"
        /\ Tail(r) = ToPublish2 => r = ToPublish3
        /\ Tail(r) = Adding => r = ToPublish2
<1>1. /\ ToPublish3 # ToPublish7 /\ ToPublish3 # ToPublish6 /\ ToPublish3 # ToPublish5 /\ ToPublish3 # ToPublish4
      /\ ToPublish3 # ToPublish2 /\ ToPublish3 # Adding /\ ToPublish3 # <<>>
      /\ ToPublish2 # ToPublish7 /\ ToPublish2 # ToPublish6 /\ ToPublish2 # ToPublish5 /\ ToPublish2 # ToPublish4
      /\ ToPublish2 # Adding /\ ToPublish2 # <<>>
      /\ Adding # ToPublish7 /\ Adding # ToPublish6 /\ Adding # ToPublish5 /\ Adding # ToPublish4 /\ Adding # <<>>
    BY PublishControllerSteps
<1>2. \A r \in PublishSteps :
        /\ r # <<>> /\ Head(r) \in {"initStart", "answer", "initEnd", "row", "memory", "file", "pending", "add"}
        /\ Head(r) = "add" <=> r = Adding
    BY PublishControllerSteps DEF PublishSteps
<1>7. \A r \in PublishSteps : r = Adding \/ Tail(r) \in PublishSteps
    BY PublishControllerSteps DEF PublishSteps
<1>3. \A r \in PublishSteps : Tail(r) = ToPublish3 => r = ToPublish4
    BY <1>1, PublishControllerSteps DEF PublishSteps
<1>4. \A r \in PublishSteps : Tail(r) = ToPublish2 => r = ToPublish3
    BY <1>1, PublishControllerSteps DEF PublishSteps
<1>5. \A r \in PublishSteps : Tail(r) = Adding => r = ToPublish2
    BY <1>1, PublishControllerSteps DEF PublishSteps
<1>6. Head(ToPublish4) = "memory"
    BY PublishControllerSteps
<1> QED BY <1>2, <1>3, <1>4, <1>5, <1>6, <1>7

LEMMA OtherControllers ==
    /\ \A r \in GetSteps :
        /\ r # <<>> /\ Head(r) \in {"initStart", "answer", "row", "migration", "resolve", "add"}
        /\ IF Head(r) = "add" THEN Tail(r) = InitEnd ELSE Tail(r) \in GetSteps
    /\ \A r \in AskSteps :
        /\ r # <<>> /\ Head(r) \in {"initStart", "answer", "row", "root", "add"}
        /\ IF Head(r) = "add" THEN Tail(r) = AskEnd ELSE Tail(r) \in AskSteps
<1>1. \A r \in GetSteps :
        /\ r # <<>> /\ Head(r) \in {"initStart", "answer", "row", "migration", "resolve", "add"}
        /\ IF Head(r) = "add" THEN Tail(r) = InitEnd ELSE Tail(r) \in GetSteps
    <2>1. \A r \in GetSteps : r # <<>> /\ Head(r) \in {"initStart", "answer", "row", "migration", "resolve", "add"}
        BY GetControllerSteps DEF GetSteps
    <2>2. \A r \in GetSteps : Head(r) = "add" => r = ToGet2
        BY GetControllerSteps DEF GetSteps
    <2>3. \A r \in GetSteps : r = ToGet2 \/ Tail(r) \in GetSteps
        BY GetControllerSteps DEF GetSteps
    <2> QED BY <2>1, <2>2, <2>3, GetControllerSteps
<1>2. \A r \in AskSteps :
        /\ r # <<>> /\ Head(r) \in {"initStart", "answer", "row", "root", "add"}
        /\ IF Head(r) = "add" THEN Tail(r) = AskEnd ELSE Tail(r) \in AskSteps
    BY AskControllerSteps DEF AskSteps
<1> QED BY <1>1, <1>2

LEMMA StoreControllers ==
    \A r \in StoreSteps :
        /\ r # <<>> /\ Head(r) \in {"answer", "initEnd", "read", "memory", "file", "add"}
        /\ r = Adding \/ Tail(r) \in StoreSteps
        /\ Head(r) = "add" <=> r = Adding
        /\ Tail(r) = ToStore2 => Head(r) = "memory"
        /\ Tail(r) = Adding => r = ToStore2
<1>1. /\ ToStore2 # ToStore5 /\ ToStore2 # ToStore4 /\ ToStore2 # ToStore3 /\ ToStore2 # Adding /\ ToStore2 # <<>>
      /\ Adding # ToStore5 /\ Adding # ToStore4 /\ Adding # ToStore3 /\ Adding # <<>>
    BY StoreControllerSteps, PublishControllerSteps
<1>2. \A r \in StoreSteps :
        /\ r # <<>> /\ Head(r) \in {"answer", "initEnd", "read", "memory", "file", "add"}
        /\ r = Adding \/ Tail(r) \in StoreSteps
        /\ Head(r) = "add" <=> r = Adding
    <2>1. \A r \in StoreSteps : r # <<>> /\ Head(r) \in {"answer", "initEnd", "read", "memory", "file", "add"}
        BY StoreControllerSteps, PublishControllerSteps DEF StoreSteps
    <2>2. \A r \in StoreSteps : r = Adding \/ Tail(r) \in StoreSteps
        BY StoreControllerSteps DEF StoreSteps
    <2>3. \A r \in StoreSteps : Head(r) = "add" <=> r = Adding
        BY StoreControllerSteps, PublishControllerSteps DEF StoreSteps
    <2> QED BY <2>1, <2>2, <2>3
<1>3. \A r \in StoreSteps : Tail(r) = ToStore2 => r = ToStore3
    BY <1>1, StoreControllerSteps, PublishControllerSteps DEF StoreSteps
<1>4. \A r \in StoreSteps : Tail(r) = Adding => r = ToStore2
    BY <1>1, StoreControllerSteps, PublishControllerSteps DEF StoreSteps
<1> QED BY <1>2, <1>3, <1>4, StoreControllerSteps

(* No two of them are the same. *)
LEMMA Distinct ==
    /\ Ended # Completed /\ {DropInput, RowCompleted, ResultFile, ResultMemory} \cap End = {}
    /\ DropInput # RowCompleted /\ ResultFile # RowCompleted /\ ResultMemory # RowCompleted /\ ResultMemory # ResultFile
    /\ \A r \in FailLeft : /\ r \notin End /\ r \notin {RowCompleted, ResultFile, ResultMemory, DropInput, <<>>}
                           /\ r \notin PublishEarly \cup GetEarly \cup AskEarly \cup StoreEarly
    /\ \A r \in PublishEarly \cup GetEarly \cup AskEarly \cup StoreEarly :
          r \notin End \cup {RowCompleted, ResultFile, ResultMemory, DropInput, <<>>}
    /\ \A r \in End \cup {RowCompleted, ResultFile, ResultMemory, DropInput} : r # <<>>
<1>1. Ended # Completed /\ {DropInput, RowCompleted, ResultFile, ResultMemory} \cap End = {}
    BY EndSteps DEF End
<1>2. DropInput # RowCompleted /\ ResultFile # RowCompleted /\ ResultMemory # RowCompleted /\ ResultMemory # ResultFile
    BY EndSteps
<1>3. DropInput \notin FailLeft
    BY EndSteps DEF FailLeft
<1>4. \A r \in FailLeft : r # <<>> /\ Head(r) \in {"drop", "rowFailed", "failed"}
    BY EndSteps DEF FailLeft
<1>5. \A r \in PublishEarly \cup GetEarly \cup AskEarly \cup StoreEarly :
        r # <<>> /\ Head(r) \in {"begin", "validate", "root", "shard", "work", "insert"}
    BY PublishCommands, GetCommands, OtherCommands
<1>6. /\ \A r \in End \cup {RowCompleted, ResultFile, ResultMemory} :
            r # <<>> /\ Head(r) \in {"end", "completed", "rowCompleted", "resultFile", "resultMemory"}
      /\ DropInput # <<>> /\ Head(DropInput) = "drop"
    BY EndSteps DEF End
<1> QED BY <1>1, <1>2, <1>3, <1>4, <1>5, <1>6

-----------------------------------------------------------------------------
(* What a step writes.                                                      *)

ApiFunctions ==
    /\ requested \in [Operations -> Requests \cup {"none"}]
    /\ idStatus \in [Operations -> {"none", "START", "INIT_START", "INIT_END", "ASK_END", "STARTED",
                                    "ENDED"} \cup Verdicts]
    /\ opRow \in [Operations -> {"none", "IN_PROGRESS"} \cup Verdicts]
    /\ inMemory \in [Operations -> {"none", "input", "result"}]
    /\ inFile \in [Operations -> {"none", "input", "result"}]
    /\ storedLocally \in [Operations -> BOOLEAN] /\ caught \in [Operations -> BOOLEAN]
    /\ abandoned \in [Operations -> BOOLEAN]
    /\ controller = [o \in Operations |-> controller[o]] /\ running = [o \in Operations |-> running[o]]

StatusOf(step, old) ==
    IF step = "initStart" THEN "INIT_START" ELSE IF step = "initEnd" THEN "INIT_END"
    ELSE IF step = "askEnd" THEN "ASK_END" ELSE IF step = "begin" THEN "STARTED"
    ELSE IF step = "end" THEN "ENDED" ELSE IF step = "completed" THEN "COMPLETED"
    ELSE IF step = "failed" THEN "FAILED" ELSE old
RowOf(step, old) ==
    IF step = "row" THEN "IN_PROGRESS" ELSE IF step = "rowCompleted" THEN "COMPLETED"
    ELSE IF step = "rowFailed" THEN "FAILED" ELSE old
MemoryOf(step, old) ==
    IF step = "memory" THEN "input" ELSE IF step = "resultMemory" THEN "result"
    ELSE IF step = "drop" THEN "none" ELSE old
FileOf(step, old) ==
    IF step = "file" THEN "input" ELSE IF step = "resultFile" THEN "result"
    ELSE IF step = "drop" THEN "none" ELSE old

Value(writes, step, old) == IF step \in DOMAIN writes THEN writes[step] ELSE old

LEMMA IdTable ==
    \A step, old : Value(IdWrites, step, old) = StatusOf(step, old)
BY DEF Value, IdWrites, StatusOf

LEMMA OtherTables ==
    \A step, old :
        /\ Value(RowWrites, step, old) = RowOf(step, old)
        /\ Value(MemoryWrites, step, old) = MemoryOf(step, old)
        /\ Value(FileWrites, step, old) = FileOf(step, old)
BY DEF Value, RowWrites, RowOf, MemoryWrites, MemoryOf, FileWrites, FileOf

LEMMA WrittenIs ==
    ASSUME NEW S, NEW table \in [Operations -> S], NEW o \in Operations, NEW writes, NEW step
    PROVE  /\ Written(table, o, writes, step)[o] = Value(writes, step, table[o])
           /\ \A p \in Operations : p # o => Written(table, o, writes, step)[p] = table[p]
           /\ Written(table, o, writes, step)[o] \in S => Written(table, o, writes, step) \in [Operations -> S]
BY DEF Written, Value

LEMMA StepWritesThis ==
    ASSUME ApiFunctions, NEW o \in Operations, NEW step, StepWrites(o, step)
    PROVE  /\ idStatus'[o] = StatusOf(step, idStatus[o]) /\ opRow'[o] = RowOf(step, opRow[o])
           /\ inMemory'[o] = MemoryOf(step, inMemory[o]) /\ inFile'[o] = FileOf(step, inFile[o])
           /\ storedLocally'[o] = (storedLocally[o] \/ step = "insert")
           /\ \A p \in Operations : p # o =>
                 /\ idStatus'[p] = idStatus[p] /\ opRow'[p] = opRow[p] /\ inMemory'[p] = inMemory[p]
                 /\ inFile'[p] = inFile[p] /\ storedLocally'[p] = storedLocally[p]
           /\ idStatus' \in [Operations -> {"none", "START", "INIT_START", "INIT_END", "ASK_END", "STARTED",
                                            "ENDED"} \cup Verdicts]
           /\ opRow' \in [Operations -> {"none", "IN_PROGRESS"} \cup Verdicts]
           /\ inMemory' \in [Operations -> {"none", "input", "result"}]
           /\ inFile' \in [Operations -> {"none", "input", "result"}]
           /\ storedLocally' \in [Operations -> BOOLEAN]
<1>1. /\ idStatus' = Written(idStatus, o, IdWrites, step) /\ opRow' = Written(opRow, o, RowWrites, step)
      /\ inMemory' = Written(inMemory, o, MemoryWrites, step) /\ inFile' = Written(inFile, o, FileWrites, step)
      /\ storedLocally' = [storedLocally EXCEPT ![o] = @ \/ step = "insert"]
    BY DEF StepWrites
<1>7. /\ StatusOf(step, idStatus[o]) \in {"none", "START", "INIT_START", "INIT_END", "ASK_END", "STARTED", "ENDED"} \cup Verdicts
      /\ RowOf(step, opRow[o]) \in {"none", "IN_PROGRESS"} \cup Verdicts
      /\ MemoryOf(step, inMemory[o]) \in {"none", "input", "result"}
      /\ FileOf(step, inFile[o]) \in {"none", "input", "result"}
    BY DEF StatusOf, RowOf, MemoryOf, FileOf, ApiFunctions, Verdicts
<1> DEFINE IdStatuses == {"none", "START", "INIT_START", "INIT_END", "ASK_END", "STARTED", "ENDED"} \cup Verdicts
           Rows == {"none", "IN_PROGRESS"} \cup Verdicts
           Data == {"none", "input", "result"}
<1>8. /\ idStatus \in [Operations -> IdStatuses] /\ opRow \in [Operations -> Rows]
      /\ inMemory \in [Operations -> Data] /\ inFile \in [Operations -> Data]
    BY DEF ApiFunctions
<1> HIDE DEF IdStatuses, Rows, Data
<1>2. /\ idStatus'[o] = StatusOf(step, idStatus[o]) /\ \A p \in Operations : p # o => idStatus'[p] = idStatus[p]
      /\ idStatus'[o] \in IdStatuses => idStatus' \in [Operations -> IdStatuses]
    <2>1. /\ Written(idStatus, o, IdWrites, step)[o] = Value(IdWrites, step, idStatus[o])
          /\ \A p \in Operations : p # o => Written(idStatus, o, IdWrites, step)[p] = idStatus[p]
          /\ Written(idStatus, o, IdWrites, step)[o] \in IdStatuses => Written(idStatus, o, IdWrites, step) \in [Operations -> IdStatuses]
        BY <1>8, WrittenIs
    <2>2. Value(IdWrites, step, idStatus[o]) = StatusOf(step, idStatus[o])
        BY IdTable
    <2> QED BY <1>1, <2>1, <2>2
<1>3. /\ opRow'[o] = RowOf(step, opRow[o]) /\ \A p \in Operations : p # o => opRow'[p] = opRow[p]
      /\ opRow'[o] \in Rows => opRow' \in [Operations -> Rows]
    <2>1. /\ Written(opRow, o, RowWrites, step)[o] = Value(RowWrites, step, opRow[o])
          /\ \A p \in Operations : p # o => Written(opRow, o, RowWrites, step)[p] = opRow[p]
          /\ Written(opRow, o, RowWrites, step)[o] \in Rows => Written(opRow, o, RowWrites, step) \in [Operations -> Rows]
        BY <1>8, WrittenIs
    <2>2. Value(RowWrites, step, opRow[o]) = RowOf(step, opRow[o])
        BY OtherTables
    <2> QED BY <1>1, <2>1, <2>2
<1>4. /\ inMemory'[o] = MemoryOf(step, inMemory[o]) /\ \A p \in Operations : p # o => inMemory'[p] = inMemory[p]
      /\ inMemory'[o] \in Data => inMemory' \in [Operations -> Data]
    <2>1. /\ Written(inMemory, o, MemoryWrites, step)[o] = Value(MemoryWrites, step, inMemory[o])
          /\ \A p \in Operations : p # o => Written(inMemory, o, MemoryWrites, step)[p] = inMemory[p]
          /\ Written(inMemory, o, MemoryWrites, step)[o] \in Data => Written(inMemory, o, MemoryWrites, step) \in [Operations -> Data]
        BY <1>8, WrittenIs
    <2>2. Value(MemoryWrites, step, inMemory[o]) = MemoryOf(step, inMemory[o])
        BY OtherTables
    <2> QED BY <1>1, <2>1, <2>2
<1>5. /\ inFile'[o] = FileOf(step, inFile[o]) /\ \A p \in Operations : p # o => inFile'[p] = inFile[p]
      /\ inFile'[o] \in Data => inFile' \in [Operations -> Data]
    <2>1. /\ Written(inFile, o, FileWrites, step)[o] = Value(FileWrites, step, inFile[o])
          /\ \A p \in Operations : p # o => Written(inFile, o, FileWrites, step)[p] = inFile[p]
          /\ Written(inFile, o, FileWrites, step)[o] \in Data => Written(inFile, o, FileWrites, step) \in [Operations -> Data]
        BY <1>8, WrittenIs
    <2>2. Value(FileWrites, step, inFile[o]) = FileOf(step, inFile[o])
        BY OtherTables
    <2> QED BY <1>1, <2>1, <2>2
<1>6. /\ storedLocally'[o] = (storedLocally[o] \/ step = "insert") /\ \A p \in Operations : p # o => storedLocally'[p] = storedLocally[p]
      /\ storedLocally' \in [Operations -> BOOLEAN]
    BY <1>1 DEF ApiFunctions
<1> USE DEF IdStatuses, Rows, Data
<1> QED BY <1>2, <1>3, <1>4, <1>5, <1>6, <1>7

-----------------------------------------------------------------------------
(* The inductive invariant, per request, about the values an operation has: *)
(* the steps c and k that its controller and its command have left, the     *)
(* status s of its id, its row w, the cached data m in memory and f in its  *)
(* file, whether its assertion is stored (l) and whether its controller     *)
(* threw (g).                                                               *)

EndAgrees(k, s, w) ==
    /\ k \in End \/ s = "COMPLETED" => w = "COMPLETED"
    /\ k \notin End \cup {<<>>} \/ s = "FAILED" => w # "COMPLETED"

PublishFine(c, k, s, w, m, f, g) ==
    /\ c \in PublishSteps \cup FailLeft \cup {<<>>}
    /\ k \in PublishEarly \cup {DropInput, RowCompleted} \cup End \cup FailLeft \cup {<<>>}
    /\ k # <<>> => c = <<>>
    /\ HasVerdict(s) => k = <<>> /\ c = <<>>
    /\ c \in PublishSteps => w # "COMPLETED" /\ ~g
    /\ c \in FailLeft => g
    /\ c \in {ToPublish3, ToPublish2, Adding} => m = "input"
    /\ c \in {ToPublish2, Adding} => f = "input"
    /\ k \in PublishEarly => m = "input" /\ f = "input"
    /\ ~g => EndAgrees(k, s, w)

GetFine(c, k, s, w, m, f, g) ==
    /\ c \in GetSteps \cup FailLeft \cup {InitEnd, <<>>}
    /\ k \in GetEarly \cup {ResultMemory, ResultFile, RowCompleted} \cup End \cup FailLeft \cup {<<>>}
    /\ c \in GetSteps => k = <<>> /\ ~HasVerdict(s) /\ w # "COMPLETED" /\ ~g
    /\ c \in FailLeft => g
    /\ HasVerdict(s) => g \/ k = <<>>
    /\ ~g => EndAgrees(k, s, w)
    /\ ~g /\ k = ResultFile => m = "result"
    /\ ~g /\ k \in {RowCompleted} \cup End => m = "result" /\ f = "result"
    /\ ~g /\ s = "COMPLETED" => m \in {"result", "none"} /\ f = "result"

AskFine(c, k, s, g) ==
    /\ c \in AskSteps \cup FailLeft \cup {AskEnd, <<>>}
    /\ k \in AskEarly \cup FailLeft \cup {<<>>}
    /\ c \in AskSteps => k = <<>> /\ ~HasVerdict(s) /\ ~g
    /\ c \in FailLeft => g
    /\ HasVerdict(s) => g \/ k = <<>>

StoreFine(c, k, s, w, m, f, l) ==
    /\ w = "none"
    /\ c \in StoreSteps \cup {<<>>}
    /\ k \in StoreEarly \cup End \cup {DropFailed, Failed, <<>>}
    /\ k # <<>> => c = <<>>
    /\ HasVerdict(s) => k = <<>> /\ c = <<>>
    /\ c \in {ToStore2, Adding} => m = "input"
    /\ c = Adding => f = "input"
    /\ k \in StoreEarly => m = "input" /\ f = "input"
    /\ k \in End \/ s = "COMPLETED" => l

Fine(r, c, k, s, w, m, f, l, g) ==
    /\ r = "none" => c = <<>> /\ k = <<>> /\ s = "none" /\ w = "none" /\ ~g
    /\ r = "publish" => PublishFine(c, k, s, w, m, f, g)
    /\ r = "get" => GetFine(c, k, s, w, m, f, g)
    /\ r = "ask" => AskFine(c, k, s, g)
    /\ r = "store" => StoreFine(c, k, s, w, m, f, l)

FineAt(o) ==
    Fine(requested[o], controller[o], running[o], idStatus[o], opRow[o], inMemory[o], inFile[o],
         storedLocally[o], caught[o])
AbandonedIsOver(o) == abandoned[o] => requested[o] # "none" /\ controller[o] = <<>>
ApiIInv == ApiFunctions /\ \A o \in Operations : FineAt(o) /\ AbandonedIsOver(o)
-----------------------------------------------------------------------------
(* The commands that a controller adds.                                     *)

LEMMA ConcatIs ==
    ASSUME NEW S, NEW s \in Seq(S), NEW t \in Seq(S), NEW u \in Seq(S),
           Len(u) = Len(s) + Len(t),
           \A i \in 1..Len(s) : u[i] = s[i],
           \A i \in 1..Len(t) : u[Len(s) + i] = t[i]
    PROVE  s \o t = u
<1>1. /\ s \o t \in Seq(S) /\ Len(s \o t) = Len(u)
      /\ \A i \in 1..Len(u) : (s \o t)[i] = IF i <= Len(s) THEN s[i] ELSE t[i - Len(s)]
    BY ConcatProperties
<1>2. ASSUME NEW i \in 1..Len(u) PROVE (s \o t)[i] = u[i]
    <2>1. CASE i <= Len(s)
        BY <1>1, <2>1
    <2>2. CASE ~(i <= Len(s))
        <3>1. i - Len(s) \in 1..Len(t) /\ Len(s) + (i - Len(s)) = i
            BY <2>2
        <3> QED BY <1>1, <2>2, <3>1
    <2> QED BY <2>1, <2>2
<1> QED BY <1>1, <1>2, SeqEqual

LEMMA ShortWithShard == <<"begin", "validate">> \o FindShard = Short6
<1> DEFINE S == {"begin", "shard", "validate", "work"}
           s == <<"begin", "validate">>
           t == <<"begin", "shard", "begin", "work">>
           u == <<"begin", "validate", "begin", "shard", "begin", "work">>
<1>1. s \in Seq(S) /\ t \in Seq(S) /\ u \in Seq(S) /\ Len(s) = 2 /\ Len(t) = 4 /\ Len(u) = 6
    OBVIOUS
<1>2. s[1] = u[1] /\ s[2] = u[2] /\ t[1] = u[3] /\ t[2] = u[4] /\ t[3] = u[5] /\ t[4] = u[6]
    OBVIOUS
<1>3. \A i \in 1..2 : i = 1 \/ i = 2
    OBVIOUS
<1>4. \A i \in 1..4 : i = 1 \/ i = 2 \/ i = 3 \/ i = 4
    OBVIOUS
<1> HIDE DEF s, t, u, S
<1>5. Len(u) = Len(s) + Len(t) /\ (\A i \in 1..Len(s) : u[i] = s[i])
      /\ \A i \in 1..Len(t) : u[Len(s) + i] = t[i]
    BY <1>1, <1>2, <1>3, <1>4
<1>6. s \o t = u
    BY <1>1, <1>5, ConcatIs
<1> QED BY <1>6 DEF s, t, u, FindShard, Short6

LEMMA GetWithShard == <<"begin", "validate", "root">> \o FindShard = Get7
<1> DEFINE S == {"begin", "root", "shard", "validate", "work"}
           s == <<"begin", "validate", "root">>
           t == <<"begin", "shard", "begin", "work">>
           u == <<"begin", "validate", "root", "begin", "shard", "begin", "work">>
<1>1. s \in Seq(S) /\ t \in Seq(S) /\ u \in Seq(S) /\ Len(s) = 3 /\ Len(t) = 4 /\ Len(u) = 7
    OBVIOUS
<1>2. s[1] = u[1] /\ s[2] = u[2] /\ s[3] = u[3] /\ t[1] = u[4] /\ t[2] = u[5] /\ t[3] = u[6] /\ t[4] = u[7]
    OBVIOUS
<1>3. \A i \in 1..3 : i = 1 \/ i = 2 \/ i = 3
    OBVIOUS
<1>4. \A i \in 1..4 : i = 1 \/ i = 2 \/ i = 3 \/ i = 4
    OBVIOUS
<1> HIDE DEF s, t, u, S
<1>5. Len(u) = Len(s) + Len(t) /\ (\A i \in 1..Len(s) : u[i] = s[i])
      /\ \A i \in 1..Len(t) : u[Len(s) + i] = t[i]
    BY <1>1, <1>2, <1>3, <1>4
<1>6. s \o t = u
    BY <1>1, <1>5, ConcatIs
<1> QED BY <1>6 DEF s, t, u, FindShard, Get7

LEMMA RootWithShard == <<"root">> \o FindShard = Root5
<1> DEFINE S == {"begin", "root", "shard", "work"}
           s == <<"root">>
           t == <<"begin", "shard", "begin", "work">>
           u == <<"root", "begin", "shard", "begin", "work">>
<1>1. s \in Seq(S) /\ t \in Seq(S) /\ u \in Seq(S) /\ Len(s) = 1 /\ Len(t) = 4 /\ Len(u) = 5
    OBVIOUS
<1>2. s[1] = u[1] /\ t[1] = u[2] /\ t[2] = u[3] /\ t[3] = u[4] /\ t[4] = u[5]
    OBVIOUS
<1>3. \A i \in 1..1 : i = 1
    OBVIOUS
<1>4. \A i \in 1..4 : i = 1 \/ i = 2 \/ i = 3 \/ i = 4
    OBVIOUS
<1> HIDE DEF s, t, u, S
<1>5. Len(u) = Len(s) + Len(t) /\ (\A i \in 1..Len(s) : u[i] = s[i])
      /\ \A i \in 1..Len(t) : u[Len(s) + i] = t[i]
    BY <1>1, <1>2, <1>3, <1>4
<1>6. s \o t = u
    BY <1>1, <1>5, ConcatIs
<1> QED BY <1>6 DEF s, t, u, FindShard, Root5

LEMMA AskAlone == <<"begin">> \o HandleCommandError = Ask3
<1> DEFINE S == {"begin", "drop", "failed"}
           s == <<"begin">>
           t == <<"drop", "failed">>
           u == <<"begin", "drop", "failed">>
<1>1. s \in Seq(S) /\ t \in Seq(S) /\ u \in Seq(S) /\ Len(s) = 1 /\ Len(t) = 2 /\ Len(u) = 3
    OBVIOUS
<1>2. s[1] = u[1] /\ t[1] = u[2] /\ t[2] = u[3]
    OBVIOUS
<1>3. \A i \in 1..1 : i = 1
    OBVIOUS
<1>4. \A i \in 1..2 : i = 1 \/ i = 2
    OBVIOUS
<1> HIDE DEF s, t, u, S
<1>5. Len(u) = Len(s) + Len(t) /\ (\A i \in 1..Len(s) : u[i] = s[i])
      /\ \A i \in 1..Len(t) : u[Len(s) + i] = t[i]
    BY <1>1, <1>2, <1>3, <1>4
<1>6. s \o t = u
    BY <1>1, <1>5, ConcatIs
<1> QED BY <1>6 DEF s, t, u, HandleCommandError, Ask3

(* The commands that the controllers add, and where a command may turn. *)
LEMMA AddedIs ==
    ASSUME NEW o \in Operations, NEW k \in Added(o)
    PROVE  /\ requested[o] = "publish" => k \in PublishEarly
           /\ requested[o] = "get" => k \in GetEarly
           /\ requested[o] = "ask" => k \in AskEarly
           /\ requested[o] = "store" => k \in StoreEarly
<1>1. FindShard = Shard4 /\ LocalStoreCommand = Store4
    BY DEF FindShard, Shard4, LocalStoreCommand, Store4
<1>2. CASE requested[o] = "publish"
    BY <1>1, <1>2 DEF Added, PublishEarly
<1>3. CASE requested[o] = "get"
    <2>1. PICK q \in GetSequences : k = q \o FindShard
        BY <1>3 DEF Added
    <2>2. <<>> \o FindShard = Shard4
        <3>1. Shard4 \in Seq({"begin", "shard", "work"})
            BY DEF Shard4
        <3> QED BY <1>1, <3>1, ConcatEmptySeq
    <2> QED BY <1>3, <2>1, <2>2, ShortWithShard, GetWithShard, RootWithShard DEF GetSequences, GetEarly
<1>4. CASE requested[o] = "ask"
    BY <1>4, AskAlone DEF Added, AskFindShard, AskEarly
<1>5. CASE requested[o] \notin {"publish", "get", "ask"}
    BY <1>1, <1>5 DEF Added, StoreEarly
<1> QED BY <1>2, <1>3, <1>4, <1>5

LEMMA RefusalsAre ==
    ASSUME NEW h, NEW k \in Refusals(h)
    PROVE  h \in {"validate", "root", "shard", "insert", "work"} /\ k \in {MarkFailed, DropFailed}
           /\ (h \in {"shard", "insert"} => k = DropFailed)
<1>1. MarkOperationAsFailed = MarkFailed /\ HandleCommandError = DropFailed
    BY DEF MarkOperationAsFailed, MarkFailed, HandleCommandError, DropFailed
<1> QED BY <1>1 DEF Refusals, ValidateAssetFails, MerkleRootFails

-----------------------------------------------------------------------------
(* An operation is asked for.                                               *)
LEMMA AskedFor ==
    ASSUME NEW r \in Requests, NEW c, NEW w, NEW m, NEW f, NEW l, NEW g,
           NEW k, Fine("none", c, k, "none", w, m, f, l, g),
           NEW d \in ControllerOf(r)
    PROVE  Fine(r, d, k, "START", w, m, f, l, g)
<1>1. k = <<>> /\ w = "none" /\ ~g
    BY DEF Fine
<1>2. /\ PublishController = ToPublish8 /\ PublishControllerV0 = ToPublish8 /\ GetController = ToGet7
      /\ GetControllerV0 = ToGet7 /\ AskController = ToAsk6 /\ LocalStoreController = ToStore6
    BY DEF PublishController, ToPublish8, PublishControllerV0, GetController, ToGet7, GetControllerV0,
           AskController, ToAsk6, LocalStoreController, ToStore6
<1>3. <<>> \notin PublishEarly \cup GetEarly \cup AskEarly \cup StoreEarly \cup End \cup FailLeft
            \cup {RowCompleted, ResultFile, ResultMemory, DropInput}
    BY Distinct
<1>4. ~HasVerdict("START") /\ "START" # "COMPLETED" /\ "START" # "FAILED"
    BY DEF HasVerdict, Verdicts
<1>5. CASE r = "publish"
    <2>1. d = ToPublish8
        BY <1>2, <1>5 DEF ControllerOf
    <2>2. d \in PublishSteps /\ d \notin {ToPublish3, ToPublish2, Adding} /\ d \notin FailLeft
        BY <2>1, PublishControllerSteps, EndSteps DEF PublishSteps, FailLeft
    <2>3. PublishFine(d, k, "START", w, m, f, g)
        BY <1>1, <1>3, <1>4, <2>2 DEF PublishFine, EndAgrees
    <2> QED BY <1>5, <2>3 DEF Fine
<1>6. CASE r = "get"
    <2>1. d = ToGet7
        BY <1>2, <1>6 DEF ControllerOf
    <2>2. d \in GetSteps /\ d \notin FailLeft
        BY <2>1, GetControllerSteps, EndSteps DEF GetSteps, FailLeft
    <2>3. GetFine(d, k, "START", w, m, f, g)
        BY <1>1, <1>3, <1>4, <2>2 DEF GetFine, EndAgrees
    <2> QED BY <1>6, <2>3 DEF Fine
<1>7. CASE r = "ask"
    <2>1. d = ToAsk6
        BY <1>2, <1>7 DEF ControllerOf
    <2>2. d \in AskSteps /\ d \notin FailLeft
        BY <2>1, AskControllerSteps, EndSteps DEF AskSteps, FailLeft
    <2>3. AskFine(d, k, "START", g)
        BY <1>1, <1>4, <2>2 DEF AskFine
    <2> QED BY <1>7, <2>3 DEF Fine
<1>8. CASE r = "store"
    <2>1. d = ToStore6
        BY <1>2, <1>8 DEF ControllerOf
    <2>2. d \in StoreSteps /\ d \notin {ToStore2, Adding}
        BY <2>1, StoreControllerSteps, PublishControllerSteps DEF StoreSteps
    <2>3. StoreFine(d, k, "START", w, m, f, l)
        BY <1>1, <1>3, <1>4, <2>2 DEF StoreFine
    <2> QED BY <1>8, <2>3 DEF Fine
<1> QED BY <1>5, <1>6, <1>7, <1>8 DEF Requests

-----------------------------------------------------------------------------
(* A controller goes on.                                                    *)

(* The tail of its steps after a catch. *)
LEMMA FailSteps ==
    \A r \in FailLeft :
        /\ r # <<>> /\ Head(r) \in {"drop", "rowFailed", "failed"}
        /\ Tail(r) \in FailLeft \cup {<<>>}
        /\ Head(r) = "failed" <=> Tail(r) = <<>>
BY EndSteps DEF FailLeft

(* What the steps of a controller write. *)
LEMMA StatusWrites ==
    /\ \A s, h : /\ ~HasVerdict(StatusOf(h, s)) \/ h \in {"completed", "failed"} \/ StatusOf(h, s) = s
                 /\ h \in {"drop", "rowFailed", "rowCompleted", "row", "memory", "file", "shard", "work", "insert",
                           "validate", "root", "resultMemory", "resultFile", "answer", "pending", "migration",
                           "resolve", "read", "add"} => StatusOf(h, s) = s
                 /\ h \in {"initStart", "initEnd", "askEnd", "begin", "end"} => ~HasVerdict(StatusOf(h, s))
    /\ HasVerdict("COMPLETED") /\ HasVerdict("FAILED")
    /\ \A s : ~HasVerdict(s) => s # "COMPLETED" /\ s # "FAILED"
BY DEF StatusOf, HasVerdict, Verdicts

LEMMA PublishControllerGoesOn ==
    ASSUME NEW c, NEW k, NEW s, NEW w, NEW m, NEW f, NEW g,
           PublishFine(c, k, s, w, m, f, g), c # <<>>, Head(c) # "add"
    PROVE  PublishFine(Tail(c), k, StatusOf(Head(c), s), RowOf(Head(c), w), MemoryOf(Head(c), m),
                       FileOf(Head(c), f), g)
<1>1. k = <<>> /\ ~HasVerdict(s)
    BY DEF PublishFine
<1>2. CASE c \in PublishSteps
    <2>1. /\ Head(c) \in {"initStart", "answer", "initEnd", "row", "memory", "file", "pending"}
          /\ Tail(c) \in PublishSteps
          /\ Tail(c) = ToPublish3 => Head(c) = "memory"
          /\ Tail(c) = ToPublish2 => c = ToPublish3
          /\ Tail(c) = Adding => c = ToPublish2
        BY <1>2, PublishControllers
    <2>2. ~HasVerdict(StatusOf(Head(c), s)) /\ RowOf(Head(c), w) # "COMPLETED" /\ ~g
        BY <1>1, <1>2, <2>1 DEF PublishFine, StatusOf, RowOf, HasVerdict, Verdicts
    <2>3. /\ Tail(c) \in {ToPublish3, ToPublish2, Adding} => MemoryOf(Head(c), m) = "input"
          /\ Tail(c) \in {ToPublish2, Adding} => FileOf(Head(c), f) = "input"
        <3>1. Head(ToPublish3) = "file" /\ Head(ToPublish2) = "pending"
            BY PublishControllerSteps
        <3> QED BY <2>1, <3>1 DEF PublishFine, MemoryOf, FileOf
    <2>4. Tail(c) \notin FailLeft
        BY <2>1, PublishControllers, FailSteps
    <2>5. k \notin PublishEarly /\ k \notin End
        BY <1>1, Distinct
    <2>6. StatusOf(Head(c), s) # "COMPLETED" /\ StatusOf(Head(c), s) # "FAILED"
        BY <2>2, StatusWrites
    <2> QED BY <1>1, <2>1, <2>2, <2>3, <2>4, <2>5, <2>6 DEF PublishFine, EndAgrees
<1>3. CASE c \in FailLeft
    <2>1. Head(c) \in {"drop", "rowFailed", "failed"} /\ Tail(c) \in FailLeft \cup {<<>>}
          /\ (Head(c) = "failed" <=> Tail(c) = <<>>)
        BY <1>3, FailSteps
    <2>2. g
        BY <1>3 DEF PublishFine
    <2>3. HasVerdict(StatusOf(Head(c), s)) => Tail(c) = <<>>
        BY <1>1, <2>1 DEF StatusOf
    <2>4. Tail(c) \notin PublishSteps
        BY <2>1, PublishControllers, FailSteps
    <2>5. Adding \in PublishSteps /\ ToPublish2 \in PublishSteps /\ ToPublish3 \in PublishSteps
        BY DEF PublishSteps
    <2>6. k \notin PublishEarly
        BY <1>1, Distinct
    <2> QED BY <1>1, <2>1, <2>2, <2>3, <2>4, <2>5, <2>6 DEF PublishFine
<1> QED BY <1>2, <1>3 DEF PublishFine

LEMMA GetControllerGoesOn ==
    ASSUME NEW c, NEW k, NEW s, NEW w, NEW m, NEW f, NEW g,
           GetFine(c, k, s, w, m, f, g), c # <<>>, Head(c) # "add"
    PROVE  GetFine(Tail(c), k, StatusOf(Head(c), s), RowOf(Head(c), w), MemoryOf(Head(c), m),
                   FileOf(Head(c), f), g)
<1>1. CASE c \in GetSteps
    <2>1. Head(c) \in {"initStart", "answer", "row", "migration", "resolve"} /\ Tail(c) \in GetSteps
        BY <1>1, OtherControllers
    <2>2. k = <<>> /\ ~HasVerdict(StatusOf(Head(c), s)) /\ RowOf(Head(c), w) # "COMPLETED" /\ ~g
        BY <1>1, <2>1 DEF GetFine, StatusOf, RowOf, HasVerdict, Verdicts
    <2>3. Tail(c) \notin FailLeft
        BY <2>1, OtherControllers, FailSteps
    <2>4. k \notin End /\ k # ResultFile /\ k # RowCompleted
        BY <2>2, Distinct
    <2>5. StatusOf(Head(c), s) # "COMPLETED" /\ StatusOf(Head(c), s) # "FAILED"
        BY <2>2, StatusWrites
    <2> QED BY <2>1, <2>2, <2>3, <2>4, <2>5 DEF GetFine, EndAgrees
<1>2. CASE c \in FailLeft
    <2>1. Tail(c) \in FailLeft \cup {<<>>}
        BY <1>2, FailSteps
    <2>2. g
        BY <1>2 DEF GetFine
    <2>3. Tail(c) \notin GetSteps
        BY <2>1, OtherControllers, FailSteps
    <2>4. k \in GetEarly \cup {ResultMemory, ResultFile, RowCompleted} \cup End \cup FailLeft \cup {<<>>}
        BY DEF GetFine
    <2> QED BY <2>1, <2>2, <2>3, <2>4 DEF GetFine
<1>3. CASE c = InitEnd
    <2>1. Head(c) = "initEnd" /\ Tail(c) = <<>>
        BY <1>3, GetControllerSteps
    <2>2. /\ ~HasVerdict(StatusOf(Head(c), s)) /\ RowOf(Head(c), w) = w /\ MemoryOf(Head(c), m) = m
          /\ FileOf(Head(c), f) = f
        BY <2>1, StatusWrites DEF RowOf, MemoryOf, FileOf
    <2>3. <<>> \notin GetSteps /\ <<>> \notin FailLeft
        BY OtherControllers, FailSteps
    <2>4. StatusOf(Head(c), s) # "COMPLETED" /\ StatusOf(Head(c), s) # "FAILED"
        BY <2>2, StatusWrites
    <2>5. /\ k \in GetEarly \cup {ResultMemory, ResultFile, RowCompleted} \cup End \cup FailLeft \cup {<<>>}
          /\ ~g => (k \in End => w = "COMPLETED") /\ (k \notin End \cup {<<>>} => w # "COMPLETED")
          /\ ~g /\ k = ResultFile => m = "result"
          /\ ~g /\ k \in {RowCompleted} \cup End => m = "result" /\ f = "result"
        BY DEF GetFine, EndAgrees
    <2> QED BY <2>1, <2>2, <2>3, <2>4, <2>5 DEF GetFine, EndAgrees
<1> QED BY <1>1, <1>2, <1>3 DEF GetFine

LEMMA AskControllerGoesOn ==
    ASSUME NEW c, NEW k, NEW s, NEW g, AskFine(c, k, s, g), c # <<>>, Head(c) # "add"
    PROVE  AskFine(Tail(c), k, StatusOf(Head(c), s), g)
<1>1. CASE c \in AskSteps
    <2>1. Head(c) \in {"initStart", "answer", "row", "root"} /\ Tail(c) \in AskSteps
        BY <1>1, OtherControllers
    <2>2. k = <<>> /\ ~HasVerdict(StatusOf(Head(c), s)) /\ ~g
        BY <1>1, <2>1 DEF AskFine, StatusOf, HasVerdict, Verdicts
    <2>3. Tail(c) \notin FailLeft
        BY <2>1, OtherControllers, FailSteps
    <2> QED BY <2>1, <2>2, <2>3 DEF AskFine
<1>2. CASE c \in FailLeft
    <2>1. Tail(c) \in FailLeft \cup {<<>>} /\ g
        BY <1>2, FailSteps DEF AskFine
    <2>2. Tail(c) \notin AskSteps
        BY <2>1, OtherControllers, FailSteps
    <2> QED BY <2>1, <2>2 DEF AskFine
<1>3. CASE c = AskEnd
    <2>1. Head(c) = "askEnd" /\ Tail(c) = <<>>
        BY <1>3, AskControllerSteps
    <2>2. ~HasVerdict(StatusOf(Head(c), s)) /\ <<>> \notin AskSteps /\ <<>> \notin FailLeft
        BY <2>1, StatusWrites, OtherControllers, FailSteps
    <2> QED BY <2>1, <2>2 DEF AskFine
<1> QED BY <1>1, <1>2, <1>3 DEF AskFine

LEMMA StoreControllerGoesOn ==
    ASSUME NEW c, NEW k, NEW s, NEW w, NEW m, NEW f, NEW l,
           StoreFine(c, k, s, w, m, f, l), c # <<>>, Head(c) # "add"
    PROVE  StoreFine(Tail(c), k, StatusOf(Head(c), s), RowOf(Head(c), w), MemoryOf(Head(c), m),
                     FileOf(Head(c), f), l \/ Head(c) = "insert")
<1>1. k = <<>> /\ ~HasVerdict(s) /\ c \in StoreSteps
    BY DEF StoreFine
<1>2. /\ Head(c) \in {"answer", "initEnd", "read", "memory", "file"} /\ Tail(c) \in StoreSteps
      /\ Tail(c) = ToStore2 => Head(c) = "memory"
      /\ Tail(c) = Adding => c = ToStore2
    BY <1>1, StoreControllers
<1>3. ~HasVerdict(StatusOf(Head(c), s)) /\ RowOf(Head(c), w) = "none"
    BY <1>1, <1>2 DEF StoreFine, StatusOf, RowOf, HasVerdict, Verdicts
<1>4. /\ Tail(c) \in {ToStore2, Adding} => MemoryOf(Head(c), m) = "input"
      /\ Tail(c) = Adding => FileOf(Head(c), f) = "input"
    <2>1. Head(ToStore2) = "file"
        BY StoreControllerSteps
    <2> QED BY <1>2, <2>1 DEF StoreFine, MemoryOf, FileOf
<1>5. k \notin StoreEarly /\ k \notin End /\ StatusOf(Head(c), s) # "COMPLETED"
    BY <1>1, <1>3, Distinct, StatusWrites
<1> QED BY <1>1, <1>2, <1>3, <1>4, <1>5 DEF StoreFine
-----------------------------------------------------------------------------
(* A controller adds the command.                                           *)

LEMMA PublishAdds ==
    ASSUME NEW c, NEW k, NEW s, NEW w, NEW m, NEW f, NEW g,
           PublishFine(c, k, s, w, m, f, g), c # <<>>, Head(c) = "add", NEW d \in PublishEarly
    PROVE  PublishFine(Tail(c), d, s, w, m, f, g)
<1>1. c = Adding /\ Tail(c) = <<>>
    <2>1. c \notin FailLeft
        BY FailSteps
    <2>2. c \in PublishSteps
        BY <2>1 DEF PublishFine
    <2> QED BY <2>2, PublishControllers, PublishControllerSteps
<1>2. w # "COMPLETED" /\ ~g /\ ~HasVerdict(s) /\ m = "input" /\ f = "input"
    <2>1. Adding \in PublishSteps
        BY DEF PublishSteps
    <2> QED BY <1>1, <2>1, PublishControllerSteps DEF PublishFine
<1>3. <<>> \notin PublishSteps /\ <<>> \notin FailLeft /\ <<>> \notin {ToPublish3, ToPublish2, Adding}
    BY PublishControllers, FailSteps, PublishControllerSteps
<1>4. d \notin End /\ s # "COMPLETED" /\ s # "FAILED"
    BY <1>2, Distinct, StatusWrites
<1> QED BY <1>1, <1>2, <1>3, <1>4 DEF PublishFine, EndAgrees

LEMMA GetAdds ==
    ASSUME NEW c, NEW k, NEW s, NEW w, NEW m, NEW f, NEW g,
           GetFine(c, k, s, w, m, f, g), c # <<>>, Head(c) = "add", NEW d \in GetEarly
    PROVE  GetFine(Tail(c), d, s, w, m, f, g)
<1>1. c \in GetSteps /\ Tail(c) = InitEnd
    <2>1. c \notin FailLeft /\ c # InitEnd
        BY FailSteps, GetControllerSteps
    <2>2. c \in GetSteps
        BY <2>1 DEF GetFine
    <2> QED BY <2>2, OtherControllers
<1>2. w # "COMPLETED" /\ ~g /\ ~HasVerdict(s)
    BY <1>1 DEF GetFine
<1>3. InitEnd \notin GetSteps /\ InitEnd \notin FailLeft
    BY OtherControllers, FailSteps, GetControllerSteps
<1>4. d \notin End \cup {RowCompleted, ResultFile, ResultMemory} /\ s # "COMPLETED" /\ s # "FAILED"
    BY <1>2, Distinct, StatusWrites
<1> QED BY <1>1, <1>2, <1>3, <1>4 DEF GetFine, EndAgrees

LEMMA AskAdds ==
    ASSUME NEW c, NEW k, NEW s, NEW g, AskFine(c, k, s, g), c # <<>>, Head(c) = "add",
           NEW d \in AskEarly
    PROVE  AskFine(Tail(c), d, s, g)
<1>1. c \in AskSteps /\ Tail(c) = AskEnd
    <2>1. c \notin FailLeft /\ c # AskEnd
        BY FailSteps, AskControllerSteps
    <2>2. c \in AskSteps
        BY <2>1 DEF AskFine
    <2> QED BY <2>2, OtherControllers
<1>2. ~HasVerdict(s) /\ AskEnd \notin AskSteps /\ AskEnd \notin FailLeft
    BY <1>1, OtherControllers, FailSteps, AskControllerSteps DEF AskFine
<1> QED BY <1>1, <1>2 DEF AskFine

LEMMA StoreAdds ==
    ASSUME NEW c, NEW k, NEW s, NEW w, NEW m, NEW f, NEW l,
           StoreFine(c, k, s, w, m, f, l), c # <<>>, Head(c) = "add", NEW d \in StoreEarly
    PROVE  StoreFine(Tail(c), d, s, w, m, f, l)
<1>1. c = Adding /\ Tail(c) = <<>>
    BY StoreControllers, PublishControllerSteps DEF StoreFine
<1>2. w = "none" /\ ~HasVerdict(s) /\ m = "input" /\ f = "input"
    BY <1>1, PublishControllerSteps DEF StoreFine
<1>3. <<>> # Adding /\ <<>> # ToStore2
    BY PublishControllerSteps, StoreControllerSteps
<1>4. d \notin End /\ s # "COMPLETED"
    BY <1>2, Distinct, StatusWrites
<1> QED BY <1>1, <1>2, <1>3, <1>4 DEF StoreFine

(* The catch of a controller. *)
LEMMA Throws ==
    ASSUME NEW r, NEW c, NEW k, NEW s, NEW w, NEW m, NEW f, NEW l, NEW g,
           Fine(r, c, k, s, w, m, f, l, g), c # <<>>, r \in {"publish", "get", "ask"}
    PROVE  Fine(r, MarkFailed, k, s, w, m, f, l, TRUE)
<1>1. MarkFailed \in FailLeft
    BY DEF FailLeft
<1>2. MarkFailed \notin PublishSteps \cup GetSteps \cup AskSteps
    BY <1>1, FailSteps, PublishControllers, OtherControllers
<1>3. ASSUME r = "publish" PROVE PublishFine(MarkFailed, k, s, w, m, f, TRUE)
    <2>1. PublishFine(c, k, s, w, m, f, g)
        BY <1>3 DEF Fine
    <2>2. k = <<>> /\ ~HasVerdict(s)
        BY <2>1 DEF PublishFine
    <2>3. {ToPublish3, ToPublish2, Adding} \subseteq PublishSteps /\ k \notin PublishEarly
        BY <2>2, Distinct DEF PublishSteps
    <2> QED BY <1>1, <1>2, <2>2, <2>3 DEF PublishFine
<1>4. ASSUME r = "get" PROVE GetFine(MarkFailed, k, s, w, m, f, TRUE)
    BY <1>1, <1>2, <1>4 DEF Fine, GetFine
<1>5. ASSUME r = "ask" PROVE AskFine(MarkFailed, k, s, TRUE)
    BY <1>1, <1>2, <1>5 DEF Fine, AskFine
<1> QED BY <1>3, <1>4, <1>5 DEF Fine

(* The process ends. *)
LEMMA EndsHere ==
    ASSUME NEW r, NEW c, NEW k, NEW s, NEW w, NEW m, NEW f, NEW l, NEW g,
           Fine(r, c, k, s, w, m, f, l, g)
    PROVE  Fine(r, <<>>, <<>>, s, w, "none", f, l, g)
<1>1. /\ <<>> \notin PublishSteps \cup GetSteps \cup AskSteps \cup StoreSteps \cup FailLeft
      /\ <<>> \notin {ToPublish3, ToPublish2, Adding, ToStore2, InitEnd}
      /\ <<>> \notin PublishEarly \cup GetEarly \cup AskEarly \cup StoreEarly \cup End
                     \cup {RowCompleted, ResultFile, ResultMemory, DropInput}
    <2>1. <<>> \notin PublishSteps \cup GetSteps \cup AskSteps \cup StoreSteps \cup FailLeft
        BY PublishControllers, OtherControllers, StoreControllers, FailSteps
    <2>2. <<>> \notin {ToPublish3, ToPublish2, Adding, ToStore2, InitEnd}
        BY PublishControllerSteps, StoreControllerSteps, GetControllerSteps
    <2> QED BY <2>1, <2>2, Distinct
<1>2. ASSUME r = "publish" PROVE PublishFine(<<>>, <<>>, s, w, "none", f, g)
    <2>1. PublishFine(c, k, s, w, m, f, g)
        BY <1>2 DEF Fine
    <2>2. ~g => EndAgrees(k, s, w)
        BY <2>1 DEF PublishFine
    <2>3. ~g => EndAgrees(<<>>, s, w)
        BY <1>1, <2>2 DEF EndAgrees
    <2> QED BY <1>1, <2>3 DEF PublishFine
<1>3. ASSUME r = "get" PROVE GetFine(<<>>, <<>>, s, w, "none", f, g)
    <2>1. GetFine(c, k, s, w, m, f, g)
        BY <1>3 DEF Fine
    <2>2. ~g => EndAgrees(k, s, w)
        BY <2>1 DEF GetFine
    <2>3. ~g => EndAgrees(<<>>, s, w)
        BY <1>1, <2>2 DEF EndAgrees
    <2> QED BY <1>1, <2>1, <2>3 DEF GetFine
<1>4. ASSUME r = "ask" PROVE AskFine(<<>>, <<>>, s, g)
    BY <1>1, <1>4 DEF Fine, AskFine
<1>5. ASSUME r = "store" PROVE StoreFine(<<>>, <<>>, s, w, "none", f, l)
    BY <1>1, <1>5 DEF Fine, StoreFine
<1>6. r = "none" => s = "none" /\ w = "none" /\ ~g
    BY DEF Fine
<1> QED BY <1>2, <1>3, <1>4, <1>5, <1>6 DEF Fine

-----------------------------------------------------------------------------
(* A command goes on.                                                       *)

(* The steps a command of a publish or get has left once its work is over. *)
LEMMA Ends ==
    /\ \A r \in End : /\ Head(r) \in {"end", "completed"} /\ Tail(r) \in End \cup {<<>>}
                      /\ Head(r) = "completed" <=> Tail(r) = <<>>
    /\ Ended \in End /\ Completed \in End
BY EndSteps DEF End

LEMMA NoController ==
    /\ <<>> \notin PublishSteps \cup GetSteps \cup AskSteps \cup StoreSteps \cup FailLeft
    /\ <<>> \notin {ToPublish3, ToPublish2, Adding, ToStore2, InitEnd}
<1>1. <<>> \notin PublishSteps \cup GetSteps \cup AskSteps \cup StoreSteps \cup FailLeft
    BY PublishControllers, OtherControllers, StoreControllers, FailSteps
<1>2. <<>> \notin {ToPublish3, ToPublish2, Adding, ToStore2, InitEnd}
    BY PublishControllerSteps, StoreControllerSteps, GetControllerSteps
<1> QED BY <1>1, <1>2

LEMMA PublishCommandGoesOn ==
    ASSUME NEW c, NEW k, NEW s, NEW w, NEW m, NEW f, NEW g,
           PublishFine(c, k, s, w, m, f, g), k # <<>>
    PROVE  PublishFine(c, IF Head(k) = "work" THEN DropInput ELSE Tail(k), StatusOf(Head(k), s),
                       RowOf(Head(k), w), MemoryOf(Head(k), m), FileOf(Head(k), f), g)
<1> DEFINE d == IF Head(k) = "work" THEN DropInput ELSE Tail(k)
           t == StatusOf(Head(k), s)
           v == RowOf(Head(k), w)
           n == MemoryOf(Head(k), m)
           e == FileOf(Head(k), f)
<1>1. c = <<>> /\ ~HasVerdict(s) /\ s # "COMPLETED" /\ s # "FAILED"
    BY StatusWrites DEF PublishFine
<1>2. SUFFICES /\ d \in PublishEarly \cup {DropInput, RowCompleted} \cup End \cup FailLeft \cup {<<>>}
               /\ HasVerdict(t) => d = <<>>
               /\ d \in PublishEarly => n = "input" /\ e = "input"
               /\ ~g => EndAgrees(d, t, v)
    BY <1>1, NoController DEF PublishFine
<1>3. CASE k \in PublishEarly \ {Work}
    <2>1. Head(k) \in {"begin", "shard"} /\ d \in PublishEarly
        BY <1>3, PublishCommands
    <2>2. /\ ~HasVerdict(t) /\ t # "COMPLETED" /\ t # "FAILED"
          /\ v = w /\ n = "input" /\ e = "input" /\ (~g => w # "COMPLETED")
        <3>1. /\ m = "input" /\ f = "input" /\ k \notin End \cup {<<>>}
            BY <1>3, Distinct DEF PublishFine
        <3>2. ~HasVerdict(t)
            BY <1>1, <2>1 DEF StatusOf, HasVerdict, Verdicts
        <3> QED BY <2>1, <3>1, <3>2, StatusWrites DEF PublishFine, EndAgrees, RowOf, MemoryOf, FileOf
    <2>3. d \notin End
        BY <2>1, Distinct
    <2> QED BY <2>1, <2>2, <2>3 DEF EndAgrees
<1>4. CASE k = Work
    <2>1. Head(k) = "work" /\ d = DropInput /\ k \notin End \cup {<<>>}
        BY <1>4, PublishCommands, Distinct
    <2>2. t = s /\ v = w
        BY <2>1 DEF StatusOf, RowOf
    <2>3. d \notin End /\ d \notin PublishEarly
        BY <2>1, Distinct
    <2> QED BY <1>1, <2>1, <2>2, <2>3 DEF PublishFine, EndAgrees
<1>5. CASE k = DropInput
    <2>1. Head(k) = "drop" /\ d = RowCompleted /\ k \notin End \cup {<<>>}
        BY <1>5, EndSteps, Distinct
    <2>2. t = s /\ v = w
        BY <2>1 DEF StatusOf, RowOf
    <2>3. d \notin End /\ d \notin PublishEarly
        BY <2>1, Distinct
    <2> QED BY <1>1, <2>1, <2>2, <2>3 DEF PublishFine, EndAgrees
<1>6. CASE k = RowCompleted
    <2>1. Head(k) = "rowCompleted" /\ d = Ended /\ Ended \in End
        BY <1>6, EndSteps, Ends
    <2>2. t = s /\ v = "COMPLETED"
        BY <2>1 DEF StatusOf, RowOf
    <2>3. d \in End /\ d \notin PublishEarly
        BY <2>1, Distinct
    <2> QED BY <1>1, <2>1, <2>2, <2>3 DEF EndAgrees
<1>7. CASE k \in End
    <2>1. /\ Head(k) \in {"end", "completed"} /\ d \in End \cup {<<>>}
          /\ Head(k) = "completed" <=> d = <<>>
        BY <1>7, Ends
    <2>2. /\ HasVerdict(t) => d = <<>>
          /\ t # "FAILED" /\ v = w
        BY <2>1 DEF StatusOf, RowOf, HasVerdict, Verdicts
    <2>3. ~g => w = "COMPLETED"
        BY <1>7 DEF PublishFine, EndAgrees
    <2>4. d \notin PublishEarly
        BY <2>1, Distinct
    <2> QED BY <2>1, <2>2, <2>3, <2>4 DEF EndAgrees
<1>8. CASE k \in FailLeft
    <2>1. /\ Head(k) \in {"drop", "rowFailed", "failed"} /\ d \in FailLeft \cup {<<>>}
          /\ Head(k) = "failed" <=> d = <<>>
        BY <1>8, FailSteps
    <2>2. ~g => w # "COMPLETED"
        BY <1>8, Distinct DEF PublishFine, EndAgrees
    <2>3. /\ HasVerdict(t) => d = <<>>
          /\ t # "COMPLETED" /\ (~g => v # "COMPLETED")
        BY <1>1, <2>1, <2>2 DEF StatusOf, RowOf
    <2>4. d \notin PublishEarly /\ d \notin End
        BY <2>1, Distinct
    <2> QED BY <2>1, <2>3, <2>4 DEF EndAgrees
<1> QED BY <1>3, <1>4, <1>5, <1>6, <1>7, <1>8 DEF PublishFine

LEMMA PublishCommandTurns ==
    ASSUME NEW c, NEW k, NEW s, NEW w, NEW m, NEW f, NEW g,
           PublishFine(c, k, s, w, m, f, g), k # <<>>,
           Head(k) \in {"validate", "root", "shard", "insert", "work"}, NEW d \in {MarkFailed, DropFailed}
    PROVE  PublishFine(c, d, s, w, m, f, g)
<1>1. c = <<>> /\ ~HasVerdict(s) /\ s # "COMPLETED" /\ s # "FAILED"
    BY StatusWrites DEF PublishFine
<1>2. k \notin End \cup {<<>>}
    BY Ends
<1>3. d \in FailLeft /\ d \notin PublishEarly \cup End \cup {<<>>}
    <2>1. d \in FailLeft
        BY DEF FailLeft
    <2> QED BY <2>1, Distinct
<1> QED BY <1>1, <1>2, <1>3, NoController DEF PublishFine, EndAgrees

LEMMA GetCommandGoesOn ==
    ASSUME NEW c, NEW k, NEW s, NEW w, NEW m, NEW f, NEW g,
           GetFine(c, k, s, w, m, f, g), k # <<>>
    PROVE  GetFine(c, IF Head(k) = "work" THEN ResultMemory ELSE Tail(k), StatusOf(Head(k), s),
                   RowOf(Head(k), w), MemoryOf(Head(k), m), FileOf(Head(k), f), g)
<1> DEFINE d == IF Head(k) = "work" THEN ResultMemory ELSE Tail(k)
           t == StatusOf(Head(k), s)
           v == RowOf(Head(k), w)
           n == MemoryOf(Head(k), m)
           e == FileOf(Head(k), f)
<1>1. /\ c \notin GetSteps /\ (~g => ~HasVerdict(s) /\ s # "COMPLETED" /\ s # "FAILED")
      /\ c \in FailLeft \cup {InitEnd, <<>>} /\ (c \in FailLeft => g)
    BY StatusWrites DEF GetFine
<1>2. SUFFICES /\ d \in GetEarly \cup {ResultMemory, ResultFile, RowCompleted} \cup End \cup FailLeft \cup {<<>>}
               /\ HasVerdict(t) => g \/ d = <<>>
               /\ ~g => EndAgrees(d, t, v)
               /\ ~g /\ d = ResultFile => n = "result"
               /\ ~g /\ d \in {RowCompleted} \cup End => n = "result" /\ e = "result"
               /\ ~g /\ t = "COMPLETED" => n \in {"result", "none"} /\ e = "result"
    BY <1>1 DEF GetFine
<1>3. CASE k \in GetEarly \ {Work}
    <2>1. Head(k) \in {"begin", "validate", "root", "shard"} /\ d \in GetEarly
        BY <1>3, GetCommands
    <2>2. ~g => ~HasVerdict(t) /\ t # "COMPLETED" /\ t # "FAILED" /\ v # "COMPLETED"
        <3>1. ~g => w # "COMPLETED"
            BY <1>3, Distinct DEF GetFine, EndAgrees
        <3>2. ~g => ~HasVerdict(t)
            BY <1>1, <2>1 DEF StatusOf, HasVerdict, Verdicts
        <3> QED BY <2>1, <3>1, <3>2, StatusWrites DEF RowOf
    <2>3. d \notin End \cup {ResultFile, RowCompleted, <<>>}
        BY <2>1, Distinct
    <2> QED BY <2>1, <2>2, <2>3 DEF EndAgrees
<1>4. CASE k = Work
    <2>1. Head(k) = "work" /\ d = ResultMemory /\ k \notin End \cup {<<>>}
        BY <1>4, PublishCommands, Distinct
    <2>2. t = s /\ v = w
        BY <2>1 DEF StatusOf, RowOf
    <2>3. d \notin End \cup {ResultFile, RowCompleted, <<>>}
        BY <2>1, Distinct
    <2> QED BY <1>1, <2>1, <2>2, <2>3 DEF GetFine, EndAgrees
<1>5. CASE k = ResultMemory
    <2>1. Head(k) = "resultMemory" /\ d = ResultFile /\ k \notin End \cup {<<>>}
        BY <1>5, EndSteps, Distinct
    <2>2. t = s /\ v = w /\ n = "result"
        BY <2>1 DEF StatusOf, RowOf, MemoryOf
    <2>3. d \notin End \cup {RowCompleted, <<>>}
        BY <2>1, Distinct
    <2> QED BY <1>1, <2>1, <2>2, <2>3 DEF GetFine, EndAgrees
<1>6. CASE k = ResultFile
    <2>1. Head(k) = "resultFile" /\ d = RowCompleted /\ k \notin End \cup {<<>>}
        BY <1>6, EndSteps, Distinct
    <2>2. t = s /\ v = w /\ n = m /\ e = "result"
        BY <2>1 DEF StatusOf, RowOf, MemoryOf, FileOf
    <2>3. d \notin End \cup {ResultFile, <<>>} /\ (~g => m = "result")
        BY <1>6, <2>1, Distinct DEF GetFine
    <2> QED BY <1>1, <2>1, <2>2, <2>3 DEF GetFine, EndAgrees
<1>7. CASE k = RowCompleted
    <2>1. Head(k) = "rowCompleted" /\ d = Ended /\ Ended \in End
        BY <1>7, EndSteps, Ends
    <2>2. t = s /\ v = "COMPLETED" /\ n = m /\ e = f
        BY <2>1 DEF StatusOf, RowOf, MemoryOf, FileOf
    <2>3. ~g => m = "result" /\ f = "result"
        BY <1>7 DEF GetFine
    <2>4. d # ResultFile
        BY <2>1, Distinct
    <2> QED BY <1>1, <2>1, <2>2, <2>3, <2>4 DEF EndAgrees
<1>8. CASE k \in End
    <2>1. /\ Head(k) \in {"end", "completed"} /\ d \in End \cup {<<>>}
          /\ Head(k) = "completed" <=> d = <<>>
        BY <1>8, Ends
    <2>2. /\ HasVerdict(t) => d = <<>>
          /\ t # "FAILED" /\ v = w /\ n = m /\ e = f
        BY <2>1 DEF StatusOf, RowOf, MemoryOf, FileOf, HasVerdict, Verdicts
    <2>3. ~g => w = "COMPLETED" /\ m = "result" /\ f = "result"
        BY <1>8 DEF GetFine, EndAgrees
    <2>4. d # ResultFile
        BY <2>1, Distinct
    <2> QED BY <2>1, <2>2, <2>3, <2>4 DEF EndAgrees
<1>9. CASE k \in FailLeft
    <2>1. /\ Head(k) \in {"drop", "rowFailed", "failed"} /\ d \in FailLeft \cup {<<>>}
          /\ Head(k) = "failed" <=> d = <<>>
        BY <1>9, FailSteps
    <2>2. ~g => w # "COMPLETED"
        BY <1>9, Distinct DEF GetFine, EndAgrees
    <2>3. ~g => (HasVerdict(t) => d = <<>>) /\ t # "COMPLETED" /\ v # "COMPLETED"
        BY <1>1, <2>1, <2>2 DEF StatusOf, RowOf
    <2>4. d \notin End \cup {ResultFile, RowCompleted}
        BY <2>1, Distinct
    <2> QED BY <2>1, <2>3, <2>4 DEF EndAgrees
<1> QED BY <1>3, <1>4, <1>5, <1>6, <1>7, <1>8, <1>9 DEF GetFine

LEMMA GetCommandTurns ==
    ASSUME NEW c, NEW k, NEW s, NEW w, NEW m, NEW f, NEW g,
           GetFine(c, k, s, w, m, f, g), k # <<>>,
           Head(k) \in {"validate", "root", "shard", "insert", "work"}, NEW d \in {MarkFailed, DropFailed}
    PROVE  GetFine(c, d, s, w, m, f, g)
<1>1. /\ c \notin GetSteps /\ (~g => ~HasVerdict(s) /\ s # "COMPLETED" /\ s # "FAILED")
      /\ c \in FailLeft \cup {InitEnd, <<>>} /\ (c \in FailLeft => g) /\ (HasVerdict(s) => g)
    BY StatusWrites DEF GetFine
<1>2. k \notin End \cup {<<>>}
    BY Ends
<1>3. d \in FailLeft /\ d \notin End \cup {ResultFile, RowCompleted, <<>>}
    <2>1. d \in FailLeft
        BY DEF FailLeft
    <2> QED BY <2>1, Distinct
<1> QED BY <1>1, <1>2, <1>3 DEF GetFine, EndAgrees

LEMMA AskCommandGoesOn ==
    ASSUME NEW c, NEW k, NEW s, NEW g, AskFine(c, k, s, g), k # <<>>
    PROVE  Head(k) # "work" /\ AskFine(c, Tail(k), StatusOf(Head(k), s), g)
<1>1. c \notin AskSteps /\ c \in FailLeft \cup {AskEnd, <<>>} /\ (c \in FailLeft => g) /\ (HasVerdict(s) => g)
    BY DEF AskFine
<1>2. CASE k \in AskEarly
    <2>1. Head(k) = "begin" /\ Tail(k) = DropFailed /\ DropFailed \in FailLeft
        BY <1>2, OtherCommands DEF FailLeft
    <2>2. ~HasVerdict(StatusOf(Head(k), s))
        BY <2>1, StatusWrites
    <2> QED BY <1>1, <2>1, <2>2 DEF AskFine
<1>3. CASE k \in FailLeft
    <2>1. /\ Head(k) \in {"drop", "rowFailed", "failed"} /\ Tail(k) \in FailLeft \cup {<<>>}
          /\ Head(k) = "failed" <=> Tail(k) = <<>>
        BY <1>3, FailSteps
    <2>2. HasVerdict(StatusOf(Head(k), s)) => g \/ Tail(k) = <<>>
        BY <1>1, <2>1 DEF StatusOf
    <2> QED BY <1>1, <2>1, <2>2 DEF AskFine
<1> QED BY <1>2, <1>3 DEF AskFine

LEMMA StoreCommandGoesOn ==
    ASSUME NEW c, NEW k, NEW s, NEW w, NEW m, NEW f, NEW l,
           StoreFine(c, k, s, w, m, f, l), k # <<>>
    PROVE  /\ Head(k) # "work"
           /\ StoreFine(c, Tail(k), StatusOf(Head(k), s), RowOf(Head(k), w), MemoryOf(Head(k), m),
                        FileOf(Head(k), f), l \/ Head(k) = "insert")
<1>1. c = <<>> /\ w = "none" /\ ~HasVerdict(s) /\ s # "COMPLETED"
    BY StatusWrites DEF StoreFine
<1>2. SUFFICES /\ Head(k) # "work" /\ RowOf(Head(k), w) = "none"
               /\ Tail(k) \in StoreEarly \cup End \cup {DropFailed, Failed, <<>>}
               /\ HasVerdict(StatusOf(Head(k), s)) => Tail(k) = <<>>
               /\ Tail(k) \in StoreEarly => MemoryOf(Head(k), m) = "input" /\ FileOf(Head(k), f) = "input"
               /\ Tail(k) \in End \/ StatusOf(Head(k), s) = "COMPLETED" => l \/ Head(k) = "insert"
    BY <1>1, NoController DEF StoreFine
<1>3. CASE k \in StoreEarly
    <2>1. /\ Head(k) \in {"begin", "insert"} /\ Tail(k) \in StoreEarly \cup {Ended}
          /\ Tail(k) = Ended => Head(k) = "insert"
        BY <1>3, OtherCommands
    <2>2. ~HasVerdict(StatusOf(Head(k), s)) /\ StatusOf(Head(k), s) # "COMPLETED"
        BY <1>1, <2>1 DEF StatusOf, HasVerdict, Verdicts
    <2>3. MemoryOf(Head(k), m) = "input" /\ FileOf(Head(k), f) = "input"
        BY <1>3, <2>1 DEF StoreFine, MemoryOf, FileOf
    <2>4. Tail(k) \in End => Tail(k) = Ended
        BY <2>1, Distinct
    <2>5. Ended \in End /\ RowOf(Head(k), w) = "none"
        BY <1>1, <2>1, Ends DEF RowOf
    <2> QED BY <2>1, <2>2, <2>3, <2>4, <2>5
<1>4. CASE k \in End
    <2>1. /\ Head(k) \in {"end", "completed"} /\ Tail(k) \in End \cup {<<>>}
          /\ Head(k) = "completed" <=> Tail(k) = <<>>
        BY <1>4, Ends
    <2>2. HasVerdict(StatusOf(Head(k), s)) => Tail(k) = <<>>
        BY <2>1 DEF StatusOf, HasVerdict, Verdicts
    <2>3. l /\ RowOf(Head(k), w) = "none"
        BY <1>1, <1>4, <2>1 DEF StoreFine, RowOf
    <2>4. Tail(k) \notin StoreEarly
        BY <2>1, Distinct
    <2> QED BY <2>1, <2>2, <2>3, <2>4
<1>5. CASE k \in {DropFailed, Failed}
    <2>1. /\ Head(k) \in {"drop", "failed"} /\ Tail(k) \in {Failed, <<>>}
          /\ Head(k) = "failed" <=> Tail(k) = <<>>
        BY <1>5, EndSteps
    <2>2. /\ HasVerdict(StatusOf(Head(k), s)) => Tail(k) = <<>>
          /\ StatusOf(Head(k), s) # "COMPLETED" /\ RowOf(Head(k), w) = "none"
        BY <1>1, <2>1 DEF StatusOf, RowOf
    <2>3. Failed \in FailLeft
        BY DEF FailLeft
    <2>4. Tail(k) \notin StoreEarly /\ Tail(k) \notin End
        BY <2>1, <2>3, Distinct
    <2> QED BY <2>1, <2>2, <2>4
<1> QED BY <1>3, <1>4, <1>5 DEF StoreFine

LEMMA AskCommandStays ==
    ASSUME NEW c, NEW k, NEW s, NEW g, AskFine(c, k, s, g), k # <<>>
    PROVE  Head(k) \notin {"validate", "root", "shard", "insert", "work"}
BY OtherCommands, FailSteps DEF AskFine

LEMMA StoreCommandTurns ==
    ASSUME NEW c, NEW k, NEW s, NEW w, NEW m, NEW f, NEW l,
           StoreFine(c, k, s, w, m, f, l), k # <<>>,
           Head(k) \in {"validate", "root", "shard", "insert", "work"}
    PROVE  Head(k) = "insert" /\ StoreFine(c, DropFailed, s, w, m, f, l)
<1>1. c = <<>> /\ w = "none" /\ ~HasVerdict(s) /\ s # "COMPLETED"
    BY StatusWrites DEF StoreFine
<1>2. Head(k) = "insert"
    BY OtherCommands, Ends, EndSteps DEF StoreFine
<1>3. DropFailed \notin End \cup StoreEarly
    <2>1. DropFailed \in FailLeft
        BY DEF FailLeft
    <2> QED BY <2>1, Distinct
<1> QED BY <1>1, <1>2, <1>3, NoController DEF StoreFine

-----------------------------------------------------------------------------
(* The actions.                                                             *)

(* A step of one operation leaves the values of every other one alone. *)
OnlyOf(o) ==
    \A p \in Operations : p # o =>
        /\ requested'[p] = requested[p] /\ controller'[p] = controller[p] /\ running'[p] = running[p]
        /\ idStatus'[p] = idStatus[p] /\ opRow'[p] = opRow[p] /\ inMemory'[p] = inMemory[p]
        /\ inFile'[p] = inFile[p] /\ storedLocally'[p] = storedLocally[p] /\ caught'[p] = caught[p]
        /\ abandoned'[p] = abandoned[p]


LEMMA OthersStayFine ==
    ASSUME ApiIInv, NEW o \in Operations, OnlyOf(o), NEW p \in Operations, p # o
    PROVE  FineAt(p)' /\ AbandonedIsOver(p)'
<1>1. FineAt(p) /\ AbandonedIsOver(p)
    BY DEF ApiIInv
<1>2. /\ requested'[p] = requested[p] /\ controller'[p] = controller[p] /\ running'[p] = running[p]
      /\ idStatus'[p] = idStatus[p] /\ opRow'[p] = opRow[p] /\ inMemory'[p] = inMemory[p]
      /\ inFile'[p] = inFile[p] /\ storedLocally'[p] = storedLocally[p] /\ caught'[p] = caught[p]
      /\ abandoned'[p] = abandoned[p]
    BY DEF OnlyOf
<1> QED BY <1>1, <1>2 DEF FineAt, AbandonedIsOver

LEMMA HandleKeeps ==
    ASSUME ApiIInv, NEW o \in Operations, HandleHttpRequest(o)
    PROVE  ApiFunctions' /\ OnlyOf(o) /\ FineAt(o)' /\ AbandonedIsOver(o)'
<1>0. ApiFunctions /\ FineAt(o) /\ AbandonedIsOver(o)
    BY DEF ApiIInv
<1>1. PICK r \in RequestsOf[o] :
        /\ requested' = [requested EXCEPT ![o] = r]
        /\ \E steps \in ControllerOf(r) : controller' = [controller EXCEPT ![o] = steps]
    BY DEF HandleHttpRequest
<1>2. PICK d \in ControllerOf(r) : controller' = [controller EXCEPT ![o] = d]
    BY <1>1
<1>3. /\ requested[o] = "none" /\ idStatus' = [idStatus EXCEPT ![o] = "START"]
      /\ UNCHANGED <<running, opRow, inMemory, inFile, storedLocally, caught, abandoned>>
    BY DEF HandleHttpRequest, cacheOfApi
<1>4. r \in Requests
    BY ApiAssumption
<1>5. Fine("none", controller[o], running[o], "none", opRow[o], inMemory[o], inFile[o], storedLocally[o], caught[o])
    BY <1>0, <1>3 DEF FineAt, Fine
<1>6. Fine(r, d, running[o], "START", opRow[o], inMemory[o], inFile[o], storedLocally[o], caught[o])
    BY <1>4, <1>5, AskedFor
<1>7. ApiFunctions'
    BY <1>0, <1>1, <1>2, <1>3, <1>4 DEF ApiFunctions
<1>8. requested'[o] = r /\ controller'[o] = d /\ idStatus'[o] = "START"
    BY <1>0, <1>1, <1>2, <1>3 DEF ApiFunctions
<1>9. OnlyOf(o)
    BY <1>0, <1>1, <1>2, <1>3 DEF ApiFunctions, OnlyOf
<1>10. FineAt(o)'
    BY <1>3, <1>6, <1>8 DEF FineAt
<1>11. ~abandoned'[o]
    BY <1>0, <1>3 DEF AbandonedIsOver
<1> QED BY <1>7, <1>9, <1>10, <1>11 DEF AbandonedIsOver

LEMMA ControllerKeeps ==
    ASSUME ApiIInv, NEW o \in Operations, ControllerStep(o)
    PROVE  ApiFunctions' /\ OnlyOf(o) /\ FineAt(o)' /\ AbandonedIsOver(o)'
<1> DEFINE r == requested[o]
           c == controller[o]
           h == Head(controller[o])
<1>0. ApiFunctions /\ FineAt(o) /\ AbandonedIsOver(o)
    BY DEF ApiIInv
<1>1. /\ c # <<>> /\ controller' = [controller EXCEPT ![o] = Tail(c)] /\ StepWrites(o, h)
      /\ UNCHANGED <<requested, caught, abandoned>>
    BY DEF ControllerStep
<1>2. IF h = "add" THEN \E steps \in Added(o) : running' = [running EXCEPT ![o] = steps] ELSE running' = running
    BY DEF ControllerStep
<1>3. /\ idStatus'[o] = StatusOf(h, idStatus[o]) /\ opRow'[o] = RowOf(h, opRow[o])
      /\ inMemory'[o] = MemoryOf(h, inMemory[o]) /\ inFile'[o] = FileOf(h, inFile[o])
      /\ storedLocally'[o] = (storedLocally[o] \/ h = "insert")
      /\ \A p \in Operations : p # o =>
            /\ idStatus'[p] = idStatus[p] /\ opRow'[p] = opRow[p] /\ inMemory'[p] = inMemory[p]
            /\ inFile'[p] = inFile[p] /\ storedLocally'[p] = storedLocally[p]
      /\ idStatus' \in [Operations -> {"none", "START", "INIT_START", "INIT_END", "ASK_END", "STARTED",
                                       "ENDED"} \cup Verdicts]
      /\ opRow' \in [Operations -> {"none", "IN_PROGRESS"} \cup Verdicts]
      /\ inMemory' \in [Operations -> {"none", "input", "result"}]
      /\ inFile' \in [Operations -> {"none", "input", "result"}]
      /\ storedLocally' \in [Operations -> BOOLEAN]
    BY <1>0, <1>1, StepWritesThis
<1>4. r # "none"
    BY <1>0, <1>1 DEF FineAt, Fine
<1>5. controller'[o] = Tail(c) /\ controller' = [p \in Operations |-> controller'[p]]
      /\ \A p \in Operations : p # o => controller'[p] = controller[p]
    BY <1>0, <1>1 DEF ApiFunctions
<1>6. running' = [p \in Operations |-> running'[p]] /\ \A p \in Operations : p # o => running'[p] = running[p]
    BY <1>0, <1>2 DEF ApiFunctions
<1>7. ApiFunctions'
    BY <1>0, <1>1, <1>3, <1>5, <1>6 DEF ApiFunctions
<1>8. OnlyOf(o)
    BY <1>1, <1>3, <1>5, <1>6 DEF OnlyOf
<1>9. ~abandoned'[o]
    BY <1>0, <1>1 DEF AbandonedIsOver
<1>10. r \in {"publish", "get", "ask", "store"}
    BY <1>0, <1>4 DEF ApiFunctions, Requests
<1>11. FineAt(o)'
    <2>1. CASE h = "add"
        <3>1. PICK d \in Added(o) : running' = [running EXCEPT ![o] = d]
            BY <1>2, <2>1
        <3>2. running'[o] = d
            BY <1>0, <3>1 DEF ApiFunctions
        <3>3. /\ idStatus'[o] = idStatus[o] /\ opRow'[o] = opRow[o] /\ inMemory'[o] = inMemory[o]
              /\ inFile'[o] = inFile[o] /\ (storedLocally'[o] <=> storedLocally[o])
            BY <1>3, <2>1 DEF StatusOf, RowOf, MemoryOf, FileOf
        <3>4. storedLocally'[o] = storedLocally[o]
            BY <1>0, <1>3, <3>3 DEF ApiFunctions
        <3>5. ASSUME r = "publish"
              PROVE  PublishFine(Tail(c), d, idStatus[o], opRow[o], inMemory[o], inFile[o], caught[o])
            BY <1>0, <1>1, <2>1, <3>5, AddedIs, PublishAdds DEF FineAt, Fine
        <3>6. ASSUME r = "get"
              PROVE  GetFine(Tail(c), d, idStatus[o], opRow[o], inMemory[o], inFile[o], caught[o])
            BY <1>0, <1>1, <2>1, <3>6, AddedIs, GetAdds DEF FineAt, Fine
        <3>7. ASSUME r = "ask" PROVE AskFine(Tail(c), d, idStatus[o], caught[o])
            BY <1>0, <1>1, <2>1, <3>7, AddedIs, AskAdds DEF FineAt, Fine
        <3>8. ASSUME r = "store"
              PROVE  StoreFine(Tail(c), d, idStatus[o], opRow[o], inMemory[o], inFile[o], storedLocally[o])
            BY <1>0, <1>1, <2>1, <3>8, AddedIs, StoreAdds DEF FineAt, Fine
        <3>9. Fine(r, Tail(c), d, idStatus[o], opRow[o], inMemory[o], inFile[o], storedLocally[o], caught[o])
            BY <1>4, <3>5, <3>6, <3>7, <3>8 DEF Fine
        <3> QED BY <1>1, <1>5, <3>2, <3>3, <3>4, <3>9 DEF FineAt
    <2>2. CASE h # "add"
        <3>1. running' = running
            BY <1>2, <2>2
        <3>2. ASSUME r = "publish"
              PROVE  PublishFine(Tail(c), running[o], idStatus'[o], opRow'[o], inMemory'[o], inFile'[o], caught[o])
            BY <1>0, <1>1, <1>3, <2>2, <3>2, PublishControllerGoesOn DEF FineAt, Fine
        <3>3. ASSUME r = "get"
              PROVE  GetFine(Tail(c), running[o], idStatus'[o], opRow'[o], inMemory'[o], inFile'[o], caught[o])
            BY <1>0, <1>1, <1>3, <2>2, <3>3, GetControllerGoesOn DEF FineAt, Fine
        <3>4. ASSUME r = "ask" PROVE AskFine(Tail(c), running[o], idStatus'[o], caught[o])
            BY <1>0, <1>1, <1>3, <2>2, <3>4, AskControllerGoesOn DEF FineAt, Fine
        <3>5. ASSUME r = "store"
              PROVE  StoreFine(Tail(c), running[o], idStatus'[o], opRow'[o], inMemory'[o], inFile'[o], storedLocally'[o])
            BY <1>0, <1>1, <1>3, <2>2, <3>5, StoreControllerGoesOn DEF FineAt, Fine
        <3>6. Fine(r, Tail(c), running[o], idStatus'[o], opRow'[o], inMemory'[o], inFile'[o], storedLocally'[o], caught[o])
            BY <1>4, <3>2, <3>3, <3>4, <3>5 DEF Fine
        <3> QED BY <1>1, <1>5, <3>1, <3>6 DEF FineAt
    <2> QED BY <2>1, <2>2
<1> QED BY <1>7, <1>8, <1>9, <1>11 DEF AbandonedIsOver

LEMMA CommandKeeps ==
    ASSUME ApiIInv, NEW o \in Operations, CommandStep(o)
    PROVE  ApiFunctions' /\ OnlyOf(o) /\ FineAt(o)' /\ AbandonedIsOver(o)'
<1> DEFINE r == requested[o]
           c == controller[o]
           k == running[o]
           h == Head(running[o])
<1>0. ApiFunctions /\ FineAt(o) /\ AbandonedIsOver(o)
    BY DEF ApiIInv
<1>1. k # <<>> /\ UNCHANGED <<requested, controller, caught, abandoned>>
    BY DEF CommandStep
<1>2. r # "none"
    BY <1>0, <1>1 DEF FineAt, Fine
<1>3. AbandonedIsOver(o)'
    BY <1>0, <1>1 DEF AbandonedIsOver
<1>4. CASE /\ running' = [running EXCEPT ![o] = IF h = "work" THEN MarkOperationAsCompleted(o) ELSE Tail(@)]
           /\ StepWrites(o, h)
    <2> DEFINE d == IF h = "work" THEN MarkOperationAsCompleted(o) ELSE Tail(k)
    <2>1. /\ running'[o] = d /\ running' = [p \in Operations |-> running'[p]]
          /\ \A p \in Operations : p # o => running'[p] = running[p]
        BY <1>0, <1>4 DEF ApiFunctions
    <2>2. /\ idStatus'[o] = StatusOf(h, idStatus[o]) /\ opRow'[o] = RowOf(h, opRow[o])
          /\ inMemory'[o] = MemoryOf(h, inMemory[o]) /\ inFile'[o] = FileOf(h, inFile[o])
          /\ storedLocally'[o] = (storedLocally[o] \/ h = "insert")
          /\ \A p \in Operations : p # o =>
                /\ idStatus'[p] = idStatus[p] /\ opRow'[p] = opRow[p] /\ inMemory'[p] = inMemory[p]
                /\ inFile'[p] = inFile[p] /\ storedLocally'[p] = storedLocally[p]
          /\ idStatus' \in [Operations -> {"none", "START", "INIT_START", "INIT_END", "ASK_END", "STARTED",
                                           "ENDED"} \cup Verdicts]
          /\ opRow' \in [Operations -> {"none", "IN_PROGRESS"} \cup Verdicts]
          /\ inMemory' \in [Operations -> {"none", "input", "result"}]
          /\ inFile' \in [Operations -> {"none", "input", "result"}]
          /\ storedLocally' \in [Operations -> BOOLEAN]
        BY <1>0, <1>4, StepWritesThis
    <2>3. ApiFunctions'
        BY <1>0, <1>1, <2>1, <2>2 DEF ApiFunctions
    <2>4. OnlyOf(o)
        BY <1>1, <2>1, <2>2 DEF OnlyOf
    <2>5. /\ r = "get" => MarkOperationAsCompleted(o) = ResultMemory
          /\ r # "get" => MarkOperationAsCompleted(o) = DropInput
        BY DEF MarkOperationAsCompleted, ResultMemory, DropInput
    <2>6. ASSUME r = "publish"
          PROVE  PublishFine(c, d, idStatus'[o], opRow'[o], inMemory'[o], inFile'[o], caught[o])
        <3>1. PublishFine(c, k, idStatus[o], opRow[o], inMemory[o], inFile[o], caught[o])
            BY <1>0, <2>6 DEF FineAt, Fine
        <3>2. d = IF h = "work" THEN DropInput ELSE Tail(k)
            BY <2>5, <2>6
        <3> QED BY <1>1, <2>2, <3>1, <3>2, PublishCommandGoesOn
    <2>7. ASSUME r = "get"
          PROVE  GetFine(c, d, idStatus'[o], opRow'[o], inMemory'[o], inFile'[o], caught[o])
        <3>1. GetFine(c, k, idStatus[o], opRow[o], inMemory[o], inFile[o], caught[o])
            BY <1>0, <2>7 DEF FineAt, Fine
        <3>2. d = IF h = "work" THEN ResultMemory ELSE Tail(k)
            BY <2>5, <2>7
        <3> QED BY <1>1, <2>2, <3>1, <3>2, GetCommandGoesOn
    <2>8. ASSUME r = "ask" PROVE AskFine(c, d, idStatus'[o], caught[o])
        BY <1>0, <1>1, <2>2, <2>8, AskCommandGoesOn DEF FineAt, Fine
    <2>9. ASSUME r = "store"
          PROVE  StoreFine(c, d, idStatus'[o], opRow'[o], inMemory'[o], inFile'[o], storedLocally'[o])
        BY <1>0, <1>1, <2>2, <2>9, StoreCommandGoesOn DEF FineAt, Fine
    <2>10. Fine(r, c, d, idStatus'[o], opRow'[o], inMemory'[o], inFile'[o], storedLocally'[o], caught[o])
        BY <1>2, <2>6, <2>7, <2>8, <2>9 DEF Fine
    <2>11. FineAt(o)'
        BY <1>1, <2>1, <2>10 DEF FineAt
    <2> QED BY <1>3, <2>3, <2>4, <2>11
<1>5. CASE /\ \E steps \in Refusals(h) : running' = [running EXCEPT ![o] = steps]
           /\ UNCHANGED <<idStatus, opRow, cacheOfApi, answered, storedLocally>>
    <2>1. PICK d \in Refusals(h) : running' = [running EXCEPT ![o] = d]
        BY <1>5
    <2>2. /\ h \in {"validate", "root", "shard", "insert", "work"} /\ d \in {MarkFailed, DropFailed}
          /\ h \in {"shard", "insert"} => d = DropFailed
        BY RefusalsAre
    <2>3. /\ running'[o] = d /\ running' = [p \in Operations |-> running'[p]]
          /\ \A p \in Operations : p # o => running'[p] = running[p]
        BY <1>0, <2>1 DEF ApiFunctions
    <2>4. UNCHANGED <<idStatus, opRow, inMemory, inFile, storedLocally>>
        BY <1>5 DEF cacheOfApi
    <2>5. ApiFunctions' /\ OnlyOf(o)
        BY <1>0, <1>1, <2>3, <2>4 DEF ApiFunctions, OnlyOf
    <2>6. ASSUME r = "publish" PROVE PublishFine(c, d, idStatus[o], opRow[o], inMemory[o], inFile[o], caught[o])
        BY <1>0, <1>1, <2>2, <2>6, PublishCommandTurns DEF FineAt, Fine
    <2>7. ASSUME r = "get" PROVE GetFine(c, d, idStatus[o], opRow[o], inMemory[o], inFile[o], caught[o])
        BY <1>0, <1>1, <2>2, <2>7, GetCommandTurns DEF FineAt, Fine
    <2>8. r # "ask"
        BY <1>0, <1>1, <2>2, AskCommandStays DEF FineAt, Fine
    <2>9. ASSUME r = "store"
          PROVE  StoreFine(c, d, idStatus[o], opRow[o], inMemory[o], inFile[o], storedLocally[o])
        BY <1>0, <1>1, <2>2, <2>9, StoreCommandTurns DEF FineAt, Fine
    <2>10. Fine(r, c, d, idStatus[o], opRow[o], inMemory[o], inFile[o], storedLocally[o], caught[o])
        BY <1>2, <2>6, <2>7, <2>8, <2>9 DEF Fine
    <2>11. FineAt(o)'
        BY <1>1, <2>3, <2>4, <2>10 DEF FineAt
    <2> QED BY <1>3, <2>5, <2>11
<1> QED BY <1>4, <1>5 DEF CommandStep

LEMMA FailKeeps ==
    ASSUME ApiIInv, NEW o \in Operations, RequestFails(o)
    PROVE  ApiFunctions' /\ OnlyOf(o) /\ FineAt(o)' /\ AbandonedIsOver(o)'
<1>0. ApiFunctions /\ FineAt(o) /\ AbandonedIsOver(o)
    BY DEF ApiIInv
<1>1. /\ controller[o] # <<>> /\ Head(controller[o]) \in Guarded(o)
      /\ controller' = [controller EXCEPT ![o] = MarkFailed] /\ caught' = [caught EXCEPT ![o] = TRUE]
      /\ UNCHANGED <<requested, running, idStatus, opRow, inMemory, inFile, storedLocally, abandoned>>
    BY DEF RequestFails, MarkOperationAsFailed, MarkFailed, cacheOfApi
<1>2. requested[o] \in {"publish", "get", "ask"}
    BY <1>1 DEF Guarded
<1>3. Fine(requested[o], MarkFailed, running[o], idStatus[o], opRow[o], inMemory[o], inFile[o], storedLocally[o], TRUE)
    BY <1>0, <1>1, <1>2, Throws DEF FineAt
<1>4. controller'[o] = MarkFailed /\ caught'[o] = TRUE
    BY <1>0, <1>1 DEF ApiFunctions
<1>5. FineAt(o)'
    BY <1>1, <1>3, <1>4 DEF FineAt
<1>6. ApiFunctions' /\ OnlyOf(o)
    BY <1>0, <1>1 DEF ApiFunctions, OnlyOf
<1>7. ~abandoned'[o]
    BY <1>0, <1>1 DEF AbandonedIsOver
<1> QED BY <1>5, <1>6, <1>7 DEF AbandonedIsOver

LEMMA ProcessEndsKeeps ==
    ASSUME ApiIInv, ProcessEnds PROVE ApiIInv'
<1>0. ApiFunctions
    BY DEF ApiIInv
<1>1. /\ abandoned' = [o \in Operations |-> abandoned[o] \/ controller[o] # <<>> \/ running[o] # <<>>]
      /\ controller' = [o \in Operations |-> <<>>] /\ running' = [o \in Operations |-> <<>>]
      /\ inMemory' = [o \in Operations |-> "none"]
      /\ UNCHANGED <<requested, idStatus, opRow, inFile, storedLocally, caught>>
    BY DEF ProcessEnds
<1>2. ApiFunctions'
    BY <1>0, <1>1 DEF ApiFunctions
<1>3. ASSUME NEW o \in Operations PROVE FineAt(o)' /\ AbandonedIsOver(o)'
    <2>1. FineAt(o) /\ AbandonedIsOver(o)
        BY DEF ApiIInv
    <2>2. Fine(requested[o], <<>>, <<>>, idStatus[o], opRow[o], "none", inFile[o], storedLocally[o], caught[o])
        BY <2>1, EndsHere DEF FineAt
    <2>3. FineAt(o)'
        BY <1>1, <2>2 DEF FineAt
    <2>4. abandoned'[o] => requested[o] # "none"
        BY <1>1, <2>1 DEF FineAt, Fine, AbandonedIsOver
    <2> QED BY <1>1, <2>3, <2>4 DEF AbandonedIsOver
<1> QED BY <1>2, <1>3 DEF ApiIInv

LEMMA ApiStarts == ApiInit => ApiIInv
<1> SUFFICES ASSUME ApiInit PROVE ApiIInv
    OBVIOUS
<1>1. ApiFunctions
    BY DEF ApiInit, ApiFunctions
<1>2. ASSUME NEW o \in Operations PROVE FineAt(o) /\ AbandonedIsOver(o)
    BY DEF ApiInit, FineAt, Fine, AbandonedIsOver
<1> QED BY <1>1, <1>2 DEF ApiIInv

LEMMA ApiKept == ApiIInv /\ [ApiNext]_apiVars => ApiIInv'
<1> SUFFICES ASSUME ApiIInv, [ApiNext]_apiVars PROVE ApiIInv'
    OBVIOUS
<1>1. ASSUME NEW o \in Operations, HandleHttpRequest(o) \/ ControllerStep(o) \/ CommandStep(o) \/ RequestFails(o)
      PROVE  ApiIInv'
    <2>1. ApiFunctions' /\ OnlyOf(o) /\ FineAt(o)' /\ AbandonedIsOver(o)'
        BY <1>1, HandleKeeps, ControllerKeeps, CommandKeeps, FailKeeps
    <2>2. \A p \in Operations : p # o => FineAt(p)' /\ AbandonedIsOver(p)'
        BY <2>1, OthersStayFine
    <2> QED BY <2>1, <2>2 DEF ApiIInv
<1>2. CASE ProcessEnds
    BY <1>2, ProcessEndsKeeps
<1>3. CASE UNCHANGED apiVars
    <2>1. UNCHANGED <<requested, controller, running, idStatus, opRow, inMemory, inFile, storedLocally, caught, abandoned>>
        BY <1>3 DEF apiVars, cacheOfApi
    <2> QED BY <2>1 DEF ApiIInv, ApiFunctions, FineAt, AbandonedIsOver
<1> QED BY <1>1, <1>2, <1>3 DEF ApiNext

LEMMA ApiInvHolds == ApiIInv => ApiInv
<1> SUFFICES ASSUME ApiIInv PROVE ApiInv
    OBVIOUS
<1>0. ApiFunctions /\ \A o \in Operations : FineAt(o)
    BY DEF ApiIInv
<1>1. CompletedHasResult
    <2> SUFFICES ASSUME NEW o \in Operations, requested[o] = "get", idStatus[o] = "COMPLETED", ~caught[o]
                 PROVE  ResultV1(o).data = "result" /\ ResultV0(o).data = "result"
        BY DEF CompletedHasResult
    <2>1. inMemory[o] \in {"result", "none"} /\ inFile[o] = "result"
        BY <1>0 DEF FineAt, Fine, GetFine
    <2>2. GetCachedData(o) = "result"
        BY <2>1 DEF GetCachedData
    <2> QED BY <2>2 DEF ResultV1, ResultV0
<1>2. RowsAgree
    <2> SUFFICES ASSUME NEW o \in Operations, requested[o] \in {"publish", "get"}, ~caught[o]
                 PROVE  /\ idStatus[o] = "COMPLETED" => opRow[o] = "COMPLETED"
                        /\ idStatus[o] = "FAILED" => opRow[o] # "COMPLETED"
        BY DEF RowsAgree
    <2>1. EndAgrees(running[o], idStatus[o], opRow[o])
        BY <1>0 DEF FineAt, Fine, PublishFine, GetFine
    <2> QED BY <2>1 DEF EndAgrees
<1>3. StoreIsThere
    BY <1>0 DEF StoreIsThere, FineAt, Fine, StoreFine
<1>4. CommandHasInput
    <2> SUFFICES ASSUME NEW o \in Operations, requested[o] \in {"publish", "store"}, running[o] # <<>>,
                        Head(running[o]) \in {"shard", "work", "insert"}
                 PROVE  GetCachedData(o) = "input"
        BY DEF CommandHasInput
    <2>1. CASE requested[o] = "publish"
        <3>1. PublishFine(controller[o], running[o], idStatus[o], opRow[o], inMemory[o], inFile[o], caught[o])
            BY <1>0, <2>1 DEF FineAt, Fine
        <3>2. running[o] \in PublishEarly
            BY <3>1, EndSteps, Ends, FailSteps DEF PublishFine
        <3> QED BY <3>1, <3>2 DEF PublishFine, GetCachedData
    <2>2. CASE requested[o] = "store"
        <3>1. StoreFine(controller[o], running[o], idStatus[o], opRow[o], inMemory[o], inFile[o], storedLocally[o])
            BY <1>0, <2>2 DEF FineAt, Fine
        <3>2. running[o] \in StoreEarly
            BY <3>1, EndSteps, Ends DEF StoreFine
        <3> QED BY <3>1, <3>2 DEF StoreFine, GetCachedData
    <2> QED BY <2>1, <2>2
<1> QED BY <1>1, <1>2, <1>3, <1>4 DEF ApiInv

(* Whatever the requests are, their controllers and commands interleave and
   the process ends: a get told as completed has its result, the two rows of
   an operation agree, a local store told as completed is in the triple
   store, and a command finds what its controller cached for it. *)
THEOREM ApiCorrect == ApiSpec => []ApiInv
<1>1. ApiInit => ApiIInv
    BY ApiStarts
<1>2. ApiIInv /\ [ApiNext]_apiVars => ApiIInv'
    BY ApiKept
<1>3. ApiIInv => ApiInv
    BY ApiInvHolds
<1> QED BY <1>1, <1>2, <1>3, PTL DEF ApiSpec

(* What is left of a controller's steps is never what it was. *)
LEMMA TailDiffers ==
    ASSUME NEW c \in PublishSteps \cup GetSteps \cup AskSteps \cup StoreSteps \cup FailLeft \cup {InitEnd, AskEnd}
    PROVE  Tail(c) # c
<1>1. \A r \in PublishSteps : Tail(r) # r
    BY PublishControllerSteps DEF PublishSteps
<1>2. \A r \in GetSteps \cup {InitEnd} : Tail(r) # r
    BY GetControllerSteps DEF GetSteps
<1>3. \A r \in AskSteps \cup {AskEnd} : Tail(r) # r
    BY AskControllerSteps DEF AskSteps
<1>4. \A r \in StoreSteps : Tail(r) # r
    BY StoreControllerSteps, PublishControllerSteps DEF StoreSteps
<1>5. \A r \in FailLeft : Tail(r) # r
    BY EndSteps DEF FailLeft
<1> QED BY <1>1, <1>2, <1>3, <1>4, <1>5

LEMMA VerdictStep ==
    ApiIInv /\ [ApiNext]_apiVars =>
        \A o \in Operations :
          HasVerdict(idStatus[o]) /\ idStatus'[o] # idStatus[o] =>
            /\ requested[o] \in {"get", "ask"}
            /\ controller'[o] # controller[o] \/ caught[o]
<1> SUFFICES ASSUME ApiIInv, [ApiNext]_apiVars, NEW o \in Operations, HasVerdict(idStatus[o]),
                    idStatus'[o] # idStatus[o]
             PROVE  /\ requested[o] \in {"get", "ask"}
                    /\ controller'[o] # controller[o] \/ caught[o]
    OBVIOUS
<1>0. ApiFunctions /\ FineAt(o)
    BY DEF ApiIInv
<1>1. requested[o] \in {"publish", "get", "ask", "store"}
    <2>1. ~HasVerdict("none")
        BY DEF HasVerdict, Verdicts
    <2> QED BY <1>0, <2>1 DEF ApiFunctions, Requests, FineAt, Fine
<1>2. ControllerStep(o) \/ CommandStep(o)
    <2>1. ASSUME NEW p \in Operations,
                 HandleHttpRequest(p) \/ ControllerStep(p) \/ CommandStep(p) \/ RequestFails(p)
          PROVE  p = o
        <3>1. OnlyOf(p)
            BY <2>1, HandleKeeps, ControllerKeeps, CommandKeeps, FailKeeps
        <3> QED BY <3>1 DEF OnlyOf
    <2>2. ~RequestFails(o) /\ ~ProcessEnds /\ ~UNCHANGED apiVars
        BY DEF RequestFails, ProcessEnds, apiVars
    <2>3. ~HandleHttpRequest(o)
        BY <1>1 DEF HandleHttpRequest
    <2> QED BY <2>1, <2>2, <2>3 DEF ApiNext
<1>3. controller[o] # <<>> \/ running[o] # <<>>
    BY <1>2 DEF ControllerStep, CommandStep
<1>4. requested[o] \in {"get", "ask"}
    <2>1. requested[o] # "publish"
        BY <1>0, <1>3 DEF FineAt, Fine, PublishFine
    <2>2. requested[o] # "store"
        BY <1>0, <1>3 DEF FineAt, Fine, StoreFine
    <2> QED BY <1>1, <2>1, <2>2
<1>5. caught[o] \/ running[o] = <<>>
    BY <1>0, <1>4 DEF FineAt, Fine, GetFine, AskFine
<1>6. ASSUME ControllerStep(o) PROVE controller'[o] # controller[o]
    <2>1. controller[o] # <<>> /\ controller'[o] = Tail(controller[o])
        BY <1>0, <1>6 DEF ControllerStep, ApiFunctions
    <2>2. controller[o] \in GetSteps \cup AskSteps \cup FailLeft \cup {InitEnd, AskEnd}
        BY <1>0, <1>4, <2>1 DEF FineAt, Fine, GetFine, AskFine
    <2> QED BY <2>1, <2>2, TailDiffers
<1>7. ASSUME CommandStep(o) PROVE caught[o]
    BY <1>5, <1>7 DEF CommandStep
<1> QED BY <1>2, <1>4, <1>6, <1>7

(* The verdict a client can read of a publish or of a local store is final,
   and that of a get or an ask is replaced only by its own controller, or
   after its controller threw. *)
THEOREM VerdictsStay == ApiSpec => VerdictStays
<1>1. ApiInit => ApiIInv
    BY ApiStarts
<1>2. ApiIInv /\ [ApiNext]_apiVars => ApiIInv'
    BY ApiKept
<1>3. ApiIInv /\ [ApiNext]_apiVars =>
        [\A o \in Operations :
          HasVerdict(idStatus[o]) /\ idStatus'[o] # idStatus[o] =>
            /\ requested[o] \in {"get", "ask"}
            /\ controller'[o] # controller[o] \/ caught[o]]_apiVars
    BY VerdictStep
<1> QED BY <1>1, <1>2, <1>3, PTL DEF ApiSpec, VerdictStays

(* A local store caches nothing in pending storage. *)
LEMMA NoPending ==
    \A r \in StoreSteps \cup {<<>>} : "pending" \notin ToSet(r)
<1>1. "pending" \notin ToSet(ToStore6) /\ "pending" \notin ToSet(ToStore5)
    BY DEF ToSet, ToStore6, ToStore5
<1>2. "pending" \notin ToSet(ToStore4) /\ "pending" \notin ToSet(ToStore3)
    BY DEF ToSet, ToStore4, ToStore3
<1>3. "pending" \notin ToSet(ToStore2) /\ "pending" \notin ToSet(Adding) /\ "pending" \notin ToSet(<<>>)
    BY DEF ToSet, ToStore2, Adding
<1> QED BY <1>1, <1>2, <1>3 DEF StoreSteps

LEMMA ApiTypesHold == ApiIInv => ApiTypeOK
<1> SUFFICES ASSUME ApiIInv, NEW o \in Operations
             PROVE  /\ requested[o] \in Requests \cup {"none"}
                    /\ idStatus[o] \in {"none", "START", "INIT_START", "INIT_END", "ASK_END", "STARTED",
                                        "ENDED"} \cup Verdicts
                    /\ opRow[o] \in {"none", "IN_PROGRESS"} \cup Verdicts
                    /\ {inMemory[o], inFile[o]} \subseteq {"none", "input", "result"}
                    /\ abandoned[o] => requested[o] # "none" /\ controller[o] = <<>>
                    /\ requested[o] = "store" => opRow[o] = "none" /\ "pending" \notin ToSet(controller[o])
    BY DEF ApiTypeOK
<1>1. ApiFunctions /\ FineAt(o) /\ AbandonedIsOver(o)
    BY DEF ApiIInv
<1>2. ASSUME requested[o] = "store" PROVE opRow[o] = "none" /\ "pending" \notin ToSet(controller[o])
    BY <1>1, <1>2, NoPending DEF FineAt, Fine, StoreFine
<1>3. /\ requested[o] \in Requests \cup {"none"}
      /\ idStatus[o] \in {"none", "START", "INIT_START", "INIT_END", "ASK_END", "STARTED",
                          "ENDED"} \cup Verdicts
      /\ opRow[o] \in {"none", "IN_PROGRESS"} \cup Verdicts
      /\ {inMemory[o], inFile[o]} \subseteq {"none", "input", "result"}
    BY <1>1 DEF ApiFunctions
<1> QED BY <1>1, <1>2, <1>3 DEF AbandonedIsOver

(* Every operation is in a state that its controller and its command write;
   a local store has no row and caches nothing in pending storage. *)
THEOREM ApiTypeCorrect == ApiSpec => []ApiTypeOK
<1>1. ApiInit => ApiIInv
    BY ApiStarts
<1>2. ApiIInv /\ [ApiNext]_apiVars => ApiIInv'
    BY ApiKept
<1>3. ApiIInv => ApiTypeOK
    BY ApiTypesHold
<1> QED BY <1>1, <1>2, <1>3, PTL DEF ApiSpec

-----------------------------------------------------------------------------
(* The cache: its inductive invariant.  A file is newer than the row of its *)
(* operation and is deleted only when the row is due as well; this is also  *)
(* so for who polls, after the row is gone.                                *)

Early == {"new", "init", "command", "file"}

HasFile(q) == file[q] # Never \/ MemoryExpired(born[q])

StampsInv ==
    /\ \A q \in Queries : born[q] <= time /\ (file[q] # Never => born[q] <= file[q])
    /\ cleaning # "deleting" => listed = {} /\ stated = {}
    /\ \A q \in stated : MemoryExpired(born[q]) /\ queryAt[q] # "new"

CompletedInv ==
    \A q \in Queries :
        /\ queryAt[q] \in Early => file[q] = Never
        /\ queryAt[q] = "completing" => HasFile(q)
        /\ status[q] = "COMPLETED" => queryAt[q] = "done" /\ HasFile(q)

PollInv ==
    pollAt # "idle" => queryAt[polled] = "done" /\ HasFile(polled)

CacheIInv == CacheTypeOK /\ StampsInv /\ CompletedInv /\ PollInv /\ CompletedHasData

LEMMA TimeNumbers == MaxTime \in Nat /\ Expiry \in Nat /\ Never = MaxTime + 1 /\ 0..MaxTime \subseteq 0..Never
                     /\ Never \in 0..Never
BY CacheAssumption DEF Never

LEMMA QueryKeepsCache ==
    ASSUME CacheIInv, NEW q \in Queries,
           \/ GenerateOperationId(q) \/ ScheduleQuery(q) \/ CacheToMemory(q)
           \/ CacheResultToFile(q) \/ CompleteQuery(q) \/ QueryThrows(q)
           \/ RemoveOperationIdCache(q) \/ FailQuery(q)
    PROVE  CacheIInv'
<1> USE DEF rowVars, cleaningVars, pollVars
<1>0. CacheTypeOK /\ StampsInv /\ CompletedInv /\ PollInv /\ CompletedHasData
    BY DEF CacheIInv
<1>1. CASE GenerateOperationId(q)
    BY <1>0, <1>1, TimeNumbers DEF GenerateOperationId, Goes, CacheIInv, CacheTypeOK, StampsInv, CompletedInv, PollInv,
       CompletedHasData, HasFile, MemoryExpired, Early, Running
<1>2. CASE ScheduleQuery(q)
    BY <1>0, <1>2, TimeNumbers DEF ScheduleQuery, UpdateRecord, Goes, CacheIInv, CacheTypeOK, StampsInv, CompletedInv, PollInv,
       CompletedHasData, HasFile, MemoryExpired, Early, Running
<1>3. CASE CacheToMemory(q)
    BY <1>0, <1>3, TimeNumbers DEF CacheToMemory, UpdateRecord, Goes, CacheIInv, CacheTypeOK, StampsInv, CompletedInv, PollInv,
       CompletedHasData, HasFile, MemoryExpired, Early, Running
<1>4. CASE CacheResultToFile(q)
    BY <1>0, <1>4, TimeNumbers DEF CacheResultToFile, Goes, CacheIInv, CacheTypeOK, StampsInv, CompletedInv, PollInv,
       CompletedHasData, HasFile, MemoryExpired, Early, Running
<1>5. CASE CompleteQuery(q)
    BY <1>0, <1>5, TimeNumbers DEF CompleteQuery, UpdateRecord, Goes, CacheIInv, CacheTypeOK, StampsInv, CompletedInv, PollInv,
       CompletedHasData, HasFile, MemoryExpired, Early, Running
<1>6. CASE QueryThrows(q)
    BY <1>0, <1>6, TimeNumbers, CacheAssumption DEF QueryThrows, Goes, CacheIInv, CacheTypeOK, StampsInv, CompletedInv, PollInv,
       CompletedHasData, HasFile, MemoryExpired, Early, Running
<1>7. CASE RemoveOperationIdCache(q)
    BY <1>0, <1>7, TimeNumbers DEF RemoveOperationIdCache, Goes, CacheIInv, CacheTypeOK, StampsInv, CompletedInv, PollInv,
       CompletedHasData, HasFile, MemoryExpired, Early, Running
<1>8. CASE FailQuery(q)
    BY <1>0, <1>8, TimeNumbers DEF FailQuery, UpdateRecord, Goes, CacheIInv, CacheTypeOK, StampsInv, CompletedInv, PollInv,
       CompletedHasData, HasFile, MemoryExpired, Early, Running
<1> QED BY <1>1, <1>2, <1>3, <1>4, <1>5, <1>6, <1>7, <1>8

LEMMA CleanerKeepsCache ==
    ASSUME CacheIInv, CleanerStep
    PROVE  CacheIInv'
<1> USE DEF rowVars, cleaningVars, pollVars
<1>0. CacheTypeOK /\ StampsInv /\ CompletedInv /\ PollInv /\ CompletedHasData
    BY DEF CacheIInv
<1>1. CASE RemoveOperationIdRecords
    BY <1>0, <1>1 DEF RemoveOperationIdRecords, CacheIInv, CacheTypeOK, StampsInv, CompletedInv, PollInv,
       CompletedHasData, HasFile, MemoryExpired
<1>2. CASE RemoveExpiredMemoryCache
    BY <1>0, <1>2, TimeNumbers DEF RemoveExpiredMemoryCache, CacheIInv, CacheTypeOK, StampsInv, CompletedInv, PollInv,
       CompletedHasData, HasFile, MemoryExpired
<1>3. CASE ReadCacheDirectory
    BY <1>0, <1>3 DEF ReadCacheDirectory, CacheIInv, CacheTypeOK, StampsInv, CompletedInv, PollInv,
       CompletedHasData, HasFile, MemoryExpired
<1>4. CASE StatFile
    <2>1. PICK q \in listed :
              /\ listed' = listed \ {q}
              /\ stated' = IF FileIsExpired(q) THEN stated \cup {q} ELSE stated
        BY <1>4 DEF StatFile
    <2>2. /\ cleaning = "deleting"
          /\ UNCHANGED <<time, queryAt, rowVars, memory, file, cleaning, pollVars, restarts, cacheFaults>>
        BY <1>4 DEF StatFile
    <2>3. q \in Queries /\ time \in Nat /\ born[q] \in Nat /\ file[q] \in Nat /\ Expiry \in Nat
        BY <1>0, <2>1, TimeNumbers DEF CacheTypeOK
    <2>4. FileIsExpired(q) => MemoryExpired(born[q]) /\ queryAt[q] # "new"
        <3> SUFFICES ASSUME FileIsExpired(q) PROVE MemoryExpired(born[q]) /\ queryAt[q] # "new"
            OBVIOUS
        <3>1. file[q] # Never /\ file[q] + Expiry < time
            BY DEF FileIsExpired, MemoryExpired
        <3>2. born[q] <= file[q] /\ queryAt[q] # "new"
            BY <1>0, <2>3, <3>1 DEF StampsInv, CompletedInv, Early
        <3>3. born[q] + Expiry < time
            BY <2>3, <3>1, <3>2
        <3> QED BY <3>2, <3>3 DEF MemoryExpired
    <2>5. CacheTypeOK'
        BY <1>0, <2>1, <2>2 DEF CacheTypeOK
    <2>6. StampsInv'
        BY <1>0, <2>1, <2>2, <2>4 DEF StampsInv, MemoryExpired
    <2> QED BY <1>0, <2>2, <2>5, <2>6 DEF CacheIInv, CompletedInv, PollInv, CompletedHasData, HasFile, MemoryExpired
<1>5. CASE RemoveFile
    BY <1>0, <1>5, TimeNumbers DEF RemoveFile, CacheIInv, CacheTypeOK, StampsInv, CompletedInv, PollInv,
       CompletedHasData, HasFile, MemoryExpired
<1>6. CASE CleanerRepeats
    BY <1>0, <1>6 DEF CleanerRepeats, CacheIInv, CacheTypeOK, StampsInv, CompletedInv, PollInv,
       CompletedHasData, HasFile, MemoryExpired
<1> QED BY <1>1, <1>2, <1>3, <1>4, <1>5, <1>6 DEF CleanerStep

LEMMA OthersKeepCache ==
    ASSUME CacheIInv, TimePasses \/ NodeRestarts \/ ReadRecord \/ ReadCached \/ ReadCachedFile
    PROVE  CacheIInv'
<1> USE DEF rowVars, cleaningVars, pollVars
<1>0. CacheTypeOK /\ StampsInv /\ CompletedInv /\ PollInv /\ CompletedHasData
    BY DEF CacheIInv
<1>1. CASE TimePasses
    BY <1>0, <1>1, TimeNumbers DEF TimePasses, CacheIInv, CacheTypeOK, StampsInv, CompletedInv, PollInv,
       CompletedHasData, HasFile, MemoryExpired
<1>2. CASE NodeRestarts
    BY <1>0, <1>2, TimeNumbers, CacheAssumption DEF NodeRestarts, CacheIInv, CacheTypeOK, StampsInv, CompletedInv, PollInv,
       CompletedHasData, HasFile, MemoryExpired, Running, Early
<1>3. CASE ReadRecord
    BY <1>0, <1>3 DEF ReadRecord, CacheIInv, CacheTypeOK, StampsInv, CompletedInv, PollInv,
       CompletedHasData, HasFile, MemoryExpired
<1>4. CASE ReadCached \/ ReadCachedFile
    <2>1. reply' = reply \/ reply'.data \/ (file[polled] = Never /\ reply'.age = time - born[polled])
        BY <1>4 DEF ReadCached, ReadCachedFile, Answers
    <2>2. file[polled] = Never => time - born[polled] > Expiry
        <3>1. time \in Nat /\ born[polled] \in Nat /\ Expiry \in Nat
            BY <1>0, TimeNumbers DEF CacheTypeOK
        <3>2. HasFile(polled)
            BY <1>0, <1>4 DEF ReadCached, ReadCachedFile, PollInv
        <3>3. file[polled] = Never => born[polled] + Expiry < time
            BY <3>2 DEF HasFile, MemoryExpired
        <3> QED BY <3>1, <3>3
    <2>3. CompletedHasData'
        BY <1>0, <2>1, <2>2 DEF CompletedHasData
    <2>4. /\ UNCHANGED <<time, queryAt, status, born, memory, file, cleaning, listed, stated, polled, restarts, cacheFaults>>
          /\ pollAt' \in {"idle", "file"} /\ pollAt # "idle"
        BY <1>4 DEF ReadCached, ReadCachedFile, Answers
    <2> QED BY <1>0, <2>3, <2>4 DEF CacheIInv, CacheTypeOK, StampsInv, CompletedInv, PollInv, HasFile, MemoryExpired
<1> QED BY <1>1, <1>2, <1>3, <1>4

LEMMA CacheStarts == CacheInit => CacheIInv
BY TimeNumbers, CacheAssumption DEF CacheInit, CacheIInv, CacheTypeOK, StampsInv, CompletedInv, PollInv,
   CompletedHasData, HasFile, NoReply, Early, Running

LEMMA CacheStep == CacheIInv /\ [CacheNext]_cacheVars => CacheIInv'
<1> SUFFICES ASSUME CacheIInv, [CacheNext]_cacheVars PROVE CacheIInv'
    OBVIOUS
<1>1. CASE CacheNext
    BY <1>1, QueryKeepsCache, CleanerKeepsCache, OthersKeepCache DEF CacheNext, CleanerStep
<1>2. CASE UNCHANGED cacheVars
    BY <1>2 DEF cacheVars, rowVars, cleaningVars, pollVars, CacheIInv, CacheTypeOK, StampsInv, CompletedInv, PollInv,
       CompletedHasData, HasFile, MemoryExpired
<1> QED BY <1>1, <1>2

LEMMA CacheHolds == CacheIInv => CacheInv
BY DEF CacheIInv, CacheInv, CompletedInv, HasFile, DataOutlivesRow

(* A client that is told COMPLETED gets the data, and a row that says so    *)
(* has it, through any restarts, failures, cleanings and polls that overlap *)
(* them; but for operations older than the time of clean-up.               *)
THEOREM CacheCorrect == CacheSpec => []CacheInv
BY CacheStarts, CacheStep, CacheHolds, PTL DEF CacheSpec


-----------------------------------------------------------------------------
(* The sessions between nodes: the inductive invariant.                     *)

Arrived == {"caching", "queued", "validated", "kept", "ready"}
Sent == 1 .. Len(dialed)

(* A stream is not touched before its request is sent, a session is that of *)
(* the operation; what the handlers of store requests have in common.       *)
StreamsInv ==
    /\ \A s \in Streams : s > Len(dialed) =>
          got[s] = "none" /\ answer[s] = "none" /\ prepared[s] = "none" /\ place[s] = "unsent"
    /\ \A o \in Ops : session[o] # NoStream =>
          session[o] \in Sent /\ dialed[session[o]] = o /\ place[session[o]] # "wire"
    /\ \A s \in Sent :
          /\ place[s] = "wire" => answer[s] = "none"
          /\ place[s] = "ready" => prepared[s] # "none"
          /\ place[s] = "validated" => dialed[s] \in StoreOps
          /\ place[s] = "failing" => dialed[s] \notin StoreOps

(* A positive answer, prepared or given, is true. *)
Fulfilled == pendingStorage \cup finalityAcks \cup Held
TrueAnswers ==
    \A s \in Sent :
        answer[s] = "ACK" \/ prepared[s] = "ACK" \/ place[s] = "kept" => dialed[s] \in Fulfilled

(* Nothing was thrown, refused or restarted: a request that is being handled *)
(* has its session and its dataset, or was answered; one that was told off   *)
(* was answered.                                                             *)
HandlingInv ==
    /\ ~blackListed
    /\ \A s \in Sent :
          /\ place[s] \in Arrived /\ dialed[s] \in StoreOps => dialed[s] \in cacheMemory
          /\ dialed[s] \notin FinalityOps =>
               /\ place[s] \in Arrived => session[dialed[s]] = s \/ Answered(s)
               /\ place[s] \in {"told", "refused", "failing", "done"} => Answered(s)

(* The stream of a session was given up, or its request is being handled and *)
(* unanswered, or who answered it is about to remove it.                     *)
SessionIsUsed ==
    \A o \in Ops \ FinalityOps : session[o] # NoStream =>
        \/ session[o] \in cut
        \/ answer[session[o]] = "none" /\ place[session[o]] \in Arrived
        \/ \E s \in Sent : dialed[s] = o /\ place[s] = "told"

SessionIInv ==
    /\ SessionTypeOK /\ StreamsInv /\ TrueAnswers /\ NoStaleSession
    /\ sessionFaults = 0 => HandlingInv /\ SessionIsUsed

LEMMA SessionFacts ==
    ASSUME SessionTypeOK
    PROVE  /\ Len(dialed) \in Nat /\ MaxStreams \in Nat /\ Sent \subseteq Streams /\ Streams \subseteq Nat \ {0}
           /\ \A s \in Sent : dialed[s] \in Ops
           /\ HandlerRetries \in 1 .. HandlerRetries
BY SessionAssumption DEF SessionTypeOK, Sent, Streams

LEMMA DialedAppended ==
    ASSUME SessionTypeOK, NEW o \in Ops, Len(dialed) < MaxStreams, dialed' = Append(dialed, o)
    PROVE  /\ dialed' \in Seq(Ops) /\ Len(dialed') = Len(dialed) + 1 /\ Len(dialed') <= MaxStreams
           /\ Sent' = Sent \cup {Len(dialed) + 1} /\ Len(dialed) + 1 \in Streams \ Sent
           /\ dialed'[Len(dialed) + 1] = o /\ \A s \in Sent : dialed'[s] = dialed[s]
BY SessionAssumption DEF SessionTypeOK, Sent, Streams

(* An answer is never taken back, a stream never reopened. *)
LEMMA AnsweredStays ==
    ASSUME SessionTypeOK, NEW s \in Sent, Answered(s),
           /\ Sent \subseteq Sent' /\ cut \subseteq cut' /\ \A t \in Sent : dialed'[t] = dialed[t]
           /\ answer[s] # "none" => answer'[s] # "none"
    PROVE  Answered(s)'
BY DEF Answered, Sent

(* What a handler writes it writes to the session of its operation. *)
LEMMA WrittenToSession ==
    ASSUME SessionTypeOK, StreamsInv, NEW o \in Ops, NEW a \in {"ACK", "NACK"}, Writes(o, a)
    PROVE  /\ answer' \in [Streams -> {"none", "ACK", "NACK"}]
           /\ session[o] \in Sent /\ dialed[session[o]] = o
           /\ \A t \in Streams : answer'[t] # answer[t] => t = session[o] /\ answer[t] = "none" /\ answer'[t] = a
           /\ answer'[session[o]] # "none" \/ session[o] \in cut
           /\ \A t \in Streams : answer[t] # "none" => answer'[t] = answer[t]
<1>1. session[o] \in Sent /\ dialed[session[o]] = o /\ session[o] \in Streams
    BY SessionFacts DEF Writes, StreamsInv
<1>2. CASE Fresh(session[o])
    BY <1>1, <1>2 DEF Writes, Fresh, SessionTypeOK
<1>3. CASE ~Fresh(session[o])
    BY <1>1, <1>3 DEF Writes, Fresh, SessionTypeOK, NoStream, Streams
<1> QED BY <1>2, <1>3

(* The asking node. *)
LEMMA SenderTypes ==
    ASSUME SessionIInv, NEW o \in Ops, SendMessage(o)
    PROVE  SessionTypeOK' /\ StreamsInv' /\ TrueAnswers' /\ NoStaleSession'
<1> DEFINE n == Len(dialed) + 1
<1>0. SessionTypeOK /\ StreamsInv /\ TrueAnswers /\ NoStaleSession
    BY DEF SessionIInv
<1>1. /\ Len(dialed) < MaxStreams
      /\ dialed' = Append(dialed, o)
      /\ senderSession' = [senderSession EXCEPT ![o] = n]
      /\ \E p \in {"wire", "lost"} : place' = [place EXCEPT ![n] = p]
      /\ sessionFaults' \in 0 .. MaxSessionFaults
      /\ UNCHANGED <<got, cut, session, answer, prepared, tries, kept, blackListed>>
    BY <1>0, SessionAssumption DEF SendMessage, At, SessionFault, SessionTypeOK
<1>2. /\ dialed' \in Seq(Ops) /\ Len(dialed') = n /\ Len(dialed') <= MaxStreams
      /\ Sent' = Sent \cup {n} /\ n \in Streams \ Sent
      /\ dialed'[n] = o /\ \A s \in Sent : dialed'[s] = dialed[s]
    BY <1>0, <1>1, DialedAppended
<1>3. Len(dialed) \in Nat /\ Sent \subseteq Streams /\ Streams \subseteq Nat \ {0} /\ n > Len(dialed)
    BY <1>0, SessionFacts
<1>4. got[n] = "none" /\ answer[n] = "none" /\ prepared[n] = "none"
    BY <1>0, <1>2, <1>3 DEF StreamsInv
<1>5. SessionTypeOK'
    BY <1>0, <1>1, <1>2 DEF SessionTypeOK, kept, Places, Over
<1>6. StreamsInv'
    <2>1. \A s \in Streams : s > Len(dialed') => s > Len(dialed) /\ s # n
        <3> HIDE DEF n
        <3> SUFFICES ASSUME NEW s \in Streams, s > Len(dialed') PROVE s > Len(dialed) /\ s # n
            OBVIOUS
        <3>1. s > n /\ s \in Nat /\ n \in Nat
            <4>1. Len(dialed') = n
                BY <1>2
            <4>2. s \in Nat /\ n \in Nat
                BY <1>2, <1>3
            <4> QED BY <4>1, <4>2
        <3>2. n > Len(dialed) /\ Len(dialed) \in Nat
            BY <1>3
        <3> QED BY <3>1, <3>2
    <2>2. \A s \in Streams : s # n => place'[s] = place[s]
        BY <1>0, <1>1 DEF SessionTypeOK
    <2>3. place'[n] \in {"wire", "lost"}
        BY <1>0, <1>1, <1>2 DEF SessionTypeOK
    <2>4. \A p \in Ops : session'[p] # NoStream =>
              session'[p] \in Sent' /\ dialed'[session'[p]] = p /\ place'[session'[p]] # "wire"
        <3> SUFFICES ASSUME NEW p \in Ops, session[p] # NoStream
                     PROVE  session[p] \in Sent' /\ dialed'[session[p]] = p /\ place'[session[p]] # "wire"
            BY <1>1 DEF NoStream
        <3>1. session[p] \in Sent /\ dialed[session[p]] = p /\ place[session[p]] # "wire"
            BY <1>0 DEF StreamsInv
        <3> QED BY <1>2, <1>3, <2>2, <3>1
    <2>5. \A s \in Sent' :
              /\ place'[s] = "wire" => answer'[s] = "none"
              /\ place'[s] = "ready" => prepared'[s] # "none"
              /\ place'[s] = "validated" => dialed'[s] \in StoreOps
              /\ place'[s] = "failing" => dialed'[s] \notin StoreOps
        BY <1>0, <1>1, <1>2, <1>3, <1>4, <2>2, <2>3 DEF StreamsInv
    <2>6. \A s \in Streams : s > Len(dialed)' =>
              got'[s] = "none" /\ answer'[s] = "none" /\ prepared'[s] = "none" /\ place'[s] = "unsent"
        BY <1>0, <1>1, <2>1, <2>2 DEF StreamsInv
    <2> QED BY <2>4, <2>5, <2>6 DEF StreamsInv, NoStream
<1>7. TrueAnswers'
    <2>1. place'[n] \in {"wire", "lost"} /\ \A s \in Sent : place'[s] = place[s]
        BY <1>0, <1>1, <1>2, <1>3 DEF SessionTypeOK
    <2> QED BY <1>0, <1>1, <1>2, <1>4, <2>1 DEF TrueAnswers, Fulfilled, kept
<1>8. NoStaleSession'
    <2>1. Waiting \subseteq Waiting' /\ n \in Waiting'
        BY <1>1, <1>2, <1>4 DEF Waiting, Sent
    <2>2. \A p \in Ops : p # o => senderSession'[p] = senderSession[p]
        BY <1>0, <1>1 DEF SessionTypeOK
    <2>3. Waiting \subseteq Sent
        BY DEF Waiting, Sent
    <2> QED BY <1>0, <1>2, <2>1, <2>2, <2>3 DEF NoStaleSession
<1> QED BY <1>5, <1>6, <1>7, <1>8

LEMMA SenderCalm ==
    ASSUME SessionIInv, NEW o \in Ops, SendMessage(o), sessionFaults' = 0
    PROVE  HandlingInv' /\ SessionIsUsed'
<1> DEFINE n == Len(dialed) + 1
<1>0. SessionTypeOK /\ StreamsInv /\ sessionFaults \in Nat
    BY SessionAssumption DEF SessionIInv, SessionTypeOK
<1>1. /\ Len(dialed) < MaxStreams
      /\ dialed' = Append(dialed, o)
      /\ place' = [place EXCEPT ![n] = "wire"] /\ sessionFaults = 0
      /\ UNCHANGED <<got, cut, session, answer, prepared, tries, kept, blackListed>>
    BY <1>0 DEF SendMessage, At, SessionFault
<1>2. HandlingInv /\ SessionIsUsed
    BY <1>1 DEF SessionIInv
<1>3. /\ Sent' = Sent \cup {n} /\ n \in Streams \ Sent
      /\ dialed'[n] = o /\ \A s \in Sent : dialed'[s] = dialed[s]
    BY <1>0, <1>1, DialedAppended
<1>4. place'[n] = "wire" /\ (\A s \in Sent : place'[s] = place[s]) /\ Sent \subseteq Streams
    BY <1>0, <1>1, <1>3, SessionFacts DEF SessionTypeOK
<1>5. \A s \in Sent : Answered(s) => Answered(s)'
    BY <1>0, <1>1, <1>3, AnsweredStays
<1>6. HandlingInv'
    BY <1>1, <1>2, <1>3, <1>4, <1>5 DEF HandlingInv, kept, Arrived
<1>7. SessionIsUsed'
    <2> SUFFICES ASSUME NEW p \in Ops \ FinalityOps, session'[p] # NoStream
                 PROVE  \/ session'[p] \in cut'
                        \/ answer'[session'[p]] = "none" /\ place'[session'[p]] \in Arrived
                        \/ \E s \in Sent' : dialed'[s] = p /\ place'[s] = "told"
        BY DEF SessionIsUsed, NoStream
    <2>1. session'[p] = session[p] /\ session[p] \in Sent /\ session[p] # NoStream
        BY <1>0, <1>1 DEF StreamsInv, NoStream
    <2>2. \/ session[p] \in cut
          \/ answer[session[p]] = "none" /\ place[session[p]] \in Arrived
          \/ \E s \in Sent : dialed[s] = p /\ place[s] = "told"
        BY <1>2, <2>1 DEF SessionIsUsed
    <2> QED BY <1>1, <1>3, <1>4, <2>1, <2>2
<1> QED BY <1>6, <1>7

LEMMA AskingKeeps ==
    ASSUME SessionIInv,
           \/ \E o \in Ops : SendMessage(o) \/ DialFails(o)
           \/ \E s \in Sent : Returns(s)
    PROVE  SessionIInv'
<1>0. /\ SessionTypeOK /\ StreamsInv /\ TrueAnswers /\ NoStaleSession /\ sessionFaults \in Nat
      /\ Sent \subseteq Streams /\ \A s \in Sent : dialed[s] \in Ops
    BY SessionAssumption, SessionFacts DEF SessionIInv, SessionTypeOK
<1>1. CASE \E o \in Ops : SendMessage(o)
    BY <1>1, SenderTypes, SenderCalm DEF SessionIInv
<1>2. ASSUME NEW o \in Ops, DialFails(o)
      PROVE  SessionIInv'
    <2>1. /\ sessionFaults' = sessionFaults + 1 /\ sessionFaults' \in 0 .. MaxSessionFaults
          /\ senderSession' = [senderSession EXCEPT ![o] = NoStream]
          /\ cut' \subseteq Streams
          /\ UNCHANGED <<dialed, got, session, answer, place, prepared, tries, kept, blackListed>>
        BY <1>0, <1>2, SessionAssumption DEF DialFails, Release, Removed, SessionFault, SessionTypeOK
    <2>2. SessionTypeOK'
        BY <1>0, <2>1 DEF SessionTypeOK, kept
    <2>3. StreamsInv' /\ TrueAnswers'
        BY <1>0, <2>1 DEF StreamsInv, TrueAnswers, Sent, Fulfilled, kept
    <2>4. NoStaleSession'
        BY <1>0, <2>1 DEF NoStaleSession, Waiting, SessionTypeOK
    <2> QED BY <1>0, <2>1, <2>2, <2>3, <2>4 DEF SessionIInv
<1>3. ASSUME NEW s \in Sent, NEW a \in {"ACK", "NACK"}, MessageReturns(s, a)
      PROVE  SessionIInv'
    <2>1. /\ got' = [got EXCEPT ![s] = a] /\ s \in Streams /\ dialed[s] \in Ops
          /\ senderSession' = [senderSession EXCEPT ![dialed[s]] = NoStream]
          /\ cut \subseteq cut' /\ cut' \subseteq Streams
          /\ UNCHANGED <<dialed, session, answer, place, prepared, tries, kept, blackListed, sessionFaults>>
        BY <1>0, <1>3 DEF MessageReturns, Removed, SessionTypeOK
    <2>2. SessionTypeOK'
        BY <1>0, <2>1 DEF SessionTypeOK, kept
    <2>3. StreamsInv'
        <3>1. \A t \in Streams : t > Len(dialed) => t # s
            BY <1>0, SessionFacts DEF Sent
        <3>2. \A t \in Streams : t # s => got'[t] = got[t]
            BY <1>0, <2>1 DEF SessionTypeOK
        <3> QED BY <1>0, <2>1, <3>1, <3>2 DEF StreamsInv, Sent
    <2>4. TrueAnswers'
        BY <1>0, <2>1 DEF TrueAnswers, Sent, Fulfilled, kept
    <2>5. NoStaleSession'
        <3>1. \A t \in Waiting : t # s => t \in Waiting'
            BY <1>0, <2>1, SessionFacts DEF Waiting, SessionTypeOK, Sent
        <3>2. \A o \in Ops : senderSession'[o] # NoStream => senderSession[o] # NoStream /\ o # dialed[s]
            BY <1>0, <2>1 DEF SessionTypeOK
        <3> QED BY <1>0, <2>1, <3>1, <3>2 DEF NoStaleSession
    <2>6. ASSUME sessionFaults = 0
          PROVE  HandlingInv' /\ SessionIsUsed'
        <3>1. HandlingInv /\ SessionIsUsed
            BY <2>6 DEF SessionIInv
        <3>2. \A t \in Sent : Answered(t) => Answered(t)'
            BY <1>0, <2>1, AnsweredStays DEF Sent
        <3>3. HandlingInv'
            BY <2>1, <3>1, <3>2 DEF HandlingInv, kept, Arrived, Sent
        <3>4. SessionIsUsed'
            BY <2>1, <3>1 DEF SessionIsUsed, Sent, Arrived
        <3> QED BY <3>3, <3>4
    <2> QED BY <2>1, <2>2, <2>3, <2>4, <2>5, <2>6 DEF SessionIInv
<1> QED BY <1>1, <1>2, <1>3 DEF Returns

(* A request whose command throws is handled again, is over, or fails. *)
LEMMA ThrowKeepsStreams ==
    ASSUME StreamsInv, NEW s \in Sent, place[s] # "wire",
           \/ place'[s] \in {"queued", "done"}
           \/ place'[s] = "failing" /\ dialed[s] \notin StoreOps,
           \A t \in Streams : t # s => place'[t] = place[t],
           Sent \subseteq Streams, Streams \subseteq Nat, Len(dialed) \in Nat, dialed' = dialed, got' = got,
           answer' = answer, session' = session, prepared' = prepared
    PROVE  StreamsInv'
<1>1. Sent' = Sent /\ Len(dialed') = Len(dialed) /\ s <= Len(dialed) /\ s \in Streams
    BY DEF Sent
<1>2. \A t \in Streams : t > Len(dialed) =>
          got'[t] = "none" /\ answer'[t] = "none" /\ prepared'[t] = "none" /\ place'[t] = "unsent"
  <2> SUFFICES ASSUME NEW t \in Streams, t > Len(dialed)
               PROVE  got'[t] = "none" /\ answer'[t] = "none" /\ prepared'[t] = "none" /\ place'[t] = "unsent"
      OBVIOUS
  <2>1. t # s
      BY <1>1
  <2> QED
      BY <2>1 DEF StreamsInv
<1>3. \A o \in Ops : session[o] # NoStream =>
          session[o] \in Sent /\ dialed[session[o]] = o /\ place'[session[o]] # "wire"
  <2>1. \A t \in Sent : place[t] # "wire" => place'[t] # "wire"
      OBVIOUS
  <2> QED
      BY <2>1 DEF StreamsInv
<1>4. \A t \in Sent : /\ place'[t] = "wire" => answer[t] = "none"
                      /\ place'[t] = "ready" => prepared[t] # "none"
                      /\ place'[t] = "validated" => dialed[t] \in StoreOps
                      /\ place'[t] = "failing" => dialed[t] \notin StoreOps
    BY DEF StreamsInv
<1> QED
    BY <1>1, <1>2, <1>3, <1>4 DEF StreamsInv

(* The asked node: what holds whatever is thrown. *)
LEMMA HandlerKeepsStreams ==
    ASSUME SessionTypeOK, StreamsInv, TrueAnswers, NoStaleSession, NEW s \in Sent, Accept(s) \/ Handle(s)
    PROVE  SessionTypeOK' /\ StreamsInv' /\ TrueAnswers' /\ NoStaleSession'
<1> USE DEF asking, kept
<1>0. /\ Sent \subseteq Streams /\ Streams \subseteq Nat \ {0} /\ (\A t \in Sent : dialed[t] \in Ops)
      /\ Len(dialed) \in Nat /\ MaxSessionFaults \in Nat /\ HandlerRetries \in Nat \ {0}
    BY SessionFacts, SessionAssumption
<1>1. UNCHANGED asking
    BY DEF Accept, Handle, Refuse, HandleRequest, Unread, CacheToFile, ValidateReceivedData, CacheDataset, SignMessage,
       GetAssertion, CheckExists, SaveFinalityAck, SendResponse, RemoveSession, PrepareFails, HandleError, Handling
<1>2. NoStaleSession' /\ Sent' = Sent
    BY <1>1 DEF NoStaleSession, Waiting, Sent
<1>3. s \in Streams /\ ~(s > Len(dialed)) /\ dialed[s] \in Ops
    BY <1>0 DEF Sent
<1>4. CASE Refuse(s)
    <2>1. SessionTypeOK'
        <3>0. sessionFaults' \in 0 .. MaxSessionFaults
            <4>1. sessionFaults \in 0 .. MaxSessionFaults
                BY DEF SessionTypeOK
            <4>2. sessionFaults' = sessionFaults \/ SessionFault
                BY <1>4 DEF Refuse, Limited
            <4> QED BY <1>0, <4>1, <4>2 DEF SessionFault
        <3>1. sessionFaults' \in 0 .. MaxSessionFaults /\ blackListed' \in BOOLEAN
            BY <3>0, <1>4, Zenon DEF Refuse, Limited, SessionTypeOK
        <3>2. /\ session' = [session EXCEPT ![dialed[s]] = s]
              /\ answer' = [answer EXCEPT ![s] = "NACK"]
              /\ place' = [place EXCEPT ![s] = "refused"]
              /\ UNCHANGED <<asking, prepared, tries, kept>>
            BY <1>4 DEF Refuse, At
        <3> QED BY <1>0, <1>3, <3>1, <3>2 DEF SessionTypeOK, Places, Over
    <2>2. StreamsInv' /\ TrueAnswers'
        BY <1>0, <1>1, <1>2, <1>3, <1>4 DEF Refuse, At, SessionTypeOK, StreamsInv, TrueAnswers, Fulfilled
    <2> QED BY <1>2, <2>1, <2>2
<1>5. CASE HandleRequest(s)
    <2>1. SessionTypeOK'
        BY <1>0, <1>1, <1>3, <1>5 DEF HandleRequest, Admitted, At, SessionTypeOK, Places, Over
    <2>2. StreamsInv' /\ TrueAnswers'
        <3>1. /\ place[s] = "wire" /\ session' = [session EXCEPT ![dialed[s]] = s]
              /\ \E p \in {"caching", "queued"} : place' = [place EXCEPT ![s] = p]
              /\ UNCHANGED <<answer, prepared, pendingStorage, finalityAcks>>
            BY <1>5 DEF HandleRequest, At
        <3>2. place'[s] \in {"caching", "queued"} /\ \A t \in Streams : t # s => place'[t] = place[t]
            BY <1>3, <3>1 DEF SessionTypeOK
        <3> QED BY <1>0, <1>1, <1>2, <1>3, <3>1, <3>2 DEF SessionTypeOK, StreamsInv, TrueAnswers, Fulfilled
    <2> QED BY <1>2, <2>1, <2>2
<1>6. CASE Unread(s)
    <2>1. SessionTypeOK'
        BY <1>0, <1>1, <1>3, <1>6 DEF Unread, At, SessionTypeOK, Places, Over
    <2>2. StreamsInv' /\ TrueAnswers'
        BY <1>0, <1>1, <1>2, <1>3, <1>6 DEF Unread, At, SessionTypeOK, StreamsInv, TrueAnswers, Fulfilled
    <2> QED BY <1>2, <2>1, <2>2
<1>7. CASE CacheToFile(s)
    <2>1. SessionTypeOK'
        BY <1>0, <1>1, <1>3, <1>7 DEF CacheToFile, At, SessionTypeOK, Places, Over
    <2>2. StreamsInv' /\ TrueAnswers'
        BY <1>0, <1>1, <1>2, <1>3, <1>7 DEF CacheToFile, At, SessionTypeOK, StreamsInv, TrueAnswers, Fulfilled
    <2> QED BY <1>2, <2>1, <2>2
<1>8. CASE ValidateReceivedData(s)
    <2>1. SessionTypeOK'
        BY <1>0, <1>1, <1>3, <1>8 DEF ValidateReceivedData, Handling, At, SessionTypeOK, Places, Over
    <2>2. StreamsInv' /\ TrueAnswers'
        <3>1. /\ place[s] = "queued" /\ dialed[s] \in StoreOps
              /\ \/ /\ place' = [place EXCEPT ![s] = "validated"] /\ prepared' = [prepared EXCEPT ![s] = "none"]
                 \/ /\ place' = [place EXCEPT ![s] = "ready"] /\ prepared' = [prepared EXCEPT ![s] = "NACK"]
              /\ UNCHANGED <<answer, session, pendingStorage, finalityAcks>>
            BY <1>8 DEF ValidateReceivedData, Handling, At
        <3>2. /\ \/ place'[s] = "validated" /\ prepared'[s] = "none"
                 \/ place'[s] = "ready" /\ prepared'[s] = "NACK"
              /\ \A t \in Streams : t # s => place'[t] = place[t] /\ prepared'[t] = prepared[t]
            BY <1>3, <3>1 DEF SessionTypeOK
        <3>3. StreamsInv'
            <4>1. \A t \in Streams : t > Len(dialed) => t # s
                BY <1>3
            <4>2. \A o \in Ops : session[o] # NoStream =>
                      session[o] \in Sent /\ dialed[session[o]] = o /\ place'[session[o]] # "wire"
                BY <1>0, <3>1, <3>2 DEF StreamsInv
            <4>3. \A t \in Sent :
                      /\ place'[t] = "wire" => answer[t] = "none"
                      /\ place'[t] = "ready" => prepared'[t] # "none"
                      /\ place'[t] = "validated" => dialed[t] \in StoreOps
                      /\ place'[t] = "failing" => dialed[t] \notin StoreOps
                BY <1>0, <3>1, <3>2 DEF StreamsInv
            <4>4. \A t \in Streams : t > Len(dialed) =>
                      got[t] = "none" /\ answer[t] = "none" /\ prepared'[t] = "none" /\ place'[t] = "unsent"
                BY <3>2, <4>1 DEF StreamsInv
            <4> QED BY <1>1, <1>2, <3>1, <4>2, <4>3, <4>4 DEF StreamsInv, NoStream
        <3>4. TrueAnswers'
            BY <1>0, <1>1, <1>2, <1>3, <3>1, <3>2 DEF TrueAnswers, Fulfilled
        <3> QED BY <3>3, <3>4
    <2> QED BY <1>2, <2>1, <2>2
<1>9. CASE CacheDataset(s)
    <2>1. SessionTypeOK'
        BY <1>0, <1>1, <1>3, <1>9 DEF CacheDataset, Handling, At, SessionTypeOK, StreamsInv, Places, Over
    <2>2. StreamsInv' /\ TrueAnswers'
        BY <1>0, <1>1, <1>2, <1>3, <1>9 DEF CacheDataset, Handling, At, SessionTypeOK, StreamsInv, TrueAnswers, Fulfilled
    <2> QED BY <1>2, <2>1, <2>2
<1>10. CASE SignMessage(s)
    <2>1. SessionTypeOK'
        BY <1>0, <1>1, <1>3, <1>10 DEF SignMessage, Handling, At, SessionTypeOK, Places, Over
    <2>2. StreamsInv' /\ TrueAnswers'
        BY <1>0, <1>1, <1>2, <1>3, <1>10 DEF SignMessage, Handling, At, SessionTypeOK, StreamsInv, TrueAnswers, Fulfilled
    <2> QED BY <1>2, <2>1, <2>2
<1>11. CASE GetAssertion(s)
    <2>1. SessionTypeOK'
        BY <1>0, <1>1, <1>3, <1>11 DEF GetAssertion, Handling, At, SessionTypeOK, Places, Over
    <2>2. StreamsInv' /\ TrueAnswers'
        BY <1>0, <1>1, <1>2, <1>3, <1>11 DEF GetAssertion, Handling, At, SessionTypeOK, StreamsInv, TrueAnswers, Fulfilled
    <2> QED BY <1>2, <2>1, <2>2
<1>12. CASE CheckExists(s)
    <2>1. SessionTypeOK'
        BY <1>0, <1>1, <1>3, <1>12 DEF CheckExists, Handling, At, SessionTypeOK, Places, Over
    <2>2. StreamsInv' /\ TrueAnswers'
        BY <1>0, <1>1, <1>2, <1>3, <1>12 DEF CheckExists, Handling, At, SessionTypeOK, StreamsInv, TrueAnswers, Fulfilled, Held
    <2> QED BY <1>2, <2>1, <2>2
<1>13. CASE SaveFinalityAck(s)
    <2>1. SessionTypeOK'
        BY <1>0, <1>1, <1>3, <1>13 DEF SaveFinalityAck, SessionFault, At, SessionTypeOK, Places, Over
    <2>2. StreamsInv' /\ TrueAnswers'
        BY <1>0, <1>1, <1>2, <1>3, <1>13 DEF SaveFinalityAck, At, SessionTypeOK, StreamsInv, TrueAnswers, Fulfilled
    <2> QED BY <1>2, <2>1, <2>2
<1>14. CASE SendResponse(s)
    <2>0. prepared[s] \in {"ACK", "NACK"}
        BY <1>3, <1>14 DEF SendResponse, SessionTypeOK, StreamsInv
    <2>1. CASE Writes(dialed[s], prepared[s]) /\ At(s, "told") /\ UNCHANGED tries
        <3>1. /\ answer' \in [Streams -> {"none", "ACK", "NACK"}]
              /\ session[dialed[s]] \in Sent /\ dialed[session[dialed[s]]] = dialed[s]
              /\ \A t \in Streams : answer'[t] # answer[t] =>
                    t = session[dialed[s]] /\ answer[t] = "none" /\ answer'[t] = prepared[s]
            BY <1>3, <2>0, <2>1, WrittenToSession
        <3>2. place[session[dialed[s]]] # "wire" /\ ~(session[dialed[s]] > Len(dialed))
            BY <1>0, <1>3, <3>1 DEF StreamsInv, Sent, NoStream
        <3>3. SessionTypeOK'
            BY <1>0, <1>1, <1>3, <1>14, <2>1, <3>1 DEF SendResponse, At, SessionTypeOK, Places, Over
        <3>4. StreamsInv' /\ TrueAnswers'
            BY <1>0, <1>1, <1>2, <1>3, <1>14, <2>1, <3>1, <3>2 DEF SendResponse, At, SessionTypeOK, StreamsInv, TrueAnswers, Fulfilled
        <3> QED BY <1>2, <3>3, <3>4
    <2>2. CASE CannotWrite(dialed[s]) /\ Thrown(s) /\ UNCHANGED answer
        <3>1. SessionTypeOK'
            BY <1>0, <1>1, <1>3, <1>14, <2>2 DEF SendResponse, Thrown, At, SessionTypeOK, Places, Over
        <3>2. /\ \/ place'[s] \in {"queued", "done"}
                 \/ place'[s] = "failing" /\ dialed[s] \notin StoreOps
              /\ \A t \in Streams : t # s => place'[t] = place[t]
            BY <1>3, <1>14, <2>2 DEF SendResponse, Thrown, At, SessionTypeOK
        <3>3. UNCHANGED <<answer, session, prepared, pendingStorage, finalityAcks>>
            BY <1>14, <2>2 DEF SendResponse
        <3>4. place[s] # "wire"
            BY <1>14, <2>2 DEF SendResponse
        <3>5. StreamsInv'
            BY <1>0, <1>1, <1>2, <1>3, <3>2, <3>3, <3>4, ThrowKeepsStreams DEF asking
        <3>6. TrueAnswers'
            BY <1>0, <1>1, <1>2, <1>3, <3>2, <3>3 DEF TrueAnswers, Fulfilled
        <3> QED BY <1>2, <3>1, <3>5, <3>6
    <2> QED BY <1>14, <2>1, <2>2 DEF SendResponse
<1>15. CASE RemoveSession(s)
    <2>1. SessionTypeOK'
        BY <1>0, <1>1, <1>3, <1>15 DEF RemoveSession, Unregistered, At, SessionTypeOK, Places, Over
    <2>2. StreamsInv' /\ TrueAnswers'
        BY <1>0, <1>1, <1>2, <1>3, <1>15 DEF RemoveSession, Unregistered, At, SessionTypeOK, StreamsInv, TrueAnswers, Fulfilled
    <2> QED BY <1>2, <2>1, <2>2
<1>16. CASE PrepareFails(s)
    <2>1. SessionTypeOK'
        <3>1. UNCHANGED <<asking, session, answer, prepared, kept, blackListed>>
            BY <1>16 DEF PrepareFails
        <3>2. place' \in [Streams -> Places]
            BY <1>16 DEF PrepareFails, Thrown, At, SessionTypeOK, Places, Over
        <3>3. tries' \in [Streams -> 1 .. HandlerRetries]
            BY <1>0, <1>3, <1>16 DEF PrepareFails, Thrown, SessionTypeOK
        <3>4. sessionFaults' \in 0 .. MaxSessionFaults
            BY <1>0, <1>16 DEF PrepareFails, SessionFault, SessionTypeOK
        <3> QED BY <3>1, <3>2, <3>3, <3>4 DEF SessionTypeOK
    <2>2. StreamsInv' /\ TrueAnswers'
        <3>1. /\ \/ place'[s] \in {"queued", "done"}
                 \/ place'[s] = "failing" /\ dialed[s] \notin StoreOps
              /\ \A t \in Streams : t # s => place'[t] = place[t]
            BY <1>3, <1>16 DEF PrepareFails, Thrown, At, SessionTypeOK
        <3>2. UNCHANGED <<answer, session, prepared, pendingStorage, finalityAcks>>
            BY <1>16 DEF PrepareFails
        <3>3. place[s] # "wire"
            BY <1>16 DEF PrepareFails
        <3>4. StreamsInv'
            BY <1>0, <1>1, <1>2, <1>3, <3>1, <3>2, <3>3, ThrowKeepsStreams DEF asking
        <3>5. TrueAnswers'
            BY <1>0, <1>1, <1>2, <1>3, <3>1, <3>2 DEF TrueAnswers, Fulfilled
        <3> QED BY <3>4, <3>5
    <2> QED BY <1>2, <2>1, <2>2
<1>17. CASE HandleError(s)
    <2>1. /\ place[s] = "failing" /\ place' = [place EXCEPT ![s] = "done"]
          /\ cacheMemory' \subseteq Ops /\ cacheFile' \subseteq Ops
          /\ UNCHANGED <<prepared, tries, pendingStorage, finalityAcks, blackListed, sessionFaults>>
        BY <1>17 DEF HandleError, At, SessionTypeOK
    <2>2. CASE Writes(dialed[s], "NACK") /\ Unregistered(dialed[s])
        <3>1. /\ answer' \in [Streams -> {"none", "ACK", "NACK"}]
              /\ session[dialed[s]] \in Sent
              /\ \A t \in Streams : answer'[t] # answer[t] => t = session[dialed[s]] /\ answer'[t] = "NACK"
            BY <1>3, <2>2, WrittenToSession
        <3>2. place[session[dialed[s]]] # "wire" /\ ~(session[dialed[s]] > Len(dialed))
            BY <1>0, <1>3, <3>1 DEF StreamsInv, Sent, NoStream
        <3>3. SessionTypeOK'
            BY <1>0, <1>1, <1>3, <2>1, <2>2, <3>1 DEF Unregistered, SessionTypeOK, Places, Over
        <3>4. StreamsInv' /\ TrueAnswers'
            BY <1>0, <1>1, <1>2, <1>3, <2>1, <2>2, <3>1, <3>2 DEF Unregistered, SessionTypeOK, StreamsInv, TrueAnswers, Fulfilled
        <3> QED BY <1>2, <3>3, <3>4
    <2>3. CASE UNCHANGED <<answer, session>>
        BY <1>0, <1>1, <1>2, <1>3, <2>1, <2>3 DEF SessionTypeOK, StreamsInv, TrueAnswers, Fulfilled, Places, Over
    <2> QED BY <1>17, <2>2, <2>3 DEF HandleError
<1> QED BY <1>4, <1>5, <1>6, <1>7, <1>8, <1>9, <1>10, <1>11, <1>12, <1>13, <1>14, <1>15, <1>16, <1>17 DEF Accept, Handle

(* The asked node while nothing is thrown, refused or restarted: a step that *)
(* leaves the sessions and answers alone.                                    *)
QuietStep(s, p) ==
    /\ place' = [place EXCEPT ![s] = p]
    /\ UNCHANGED <<asking, session, answer, blackListed>>
    /\ cacheMemory \subseteq cacheMemory'
    /\ place[s] # "told"
    /\ \/ p = "lost"
       \/ p \in Arrived \ {"caching", "queued"} /\ place[s] \in Arrived
       \/ p = "queued" /\ place[s] = "caching"
       \/ p \in {"queued", "failing", "done"} /\ place[s] = "ready" /\ CannotWrite(dialed[s])
          /\ (dialed[s] \in StoreOps => dialed[s] \in cacheMemory)
       \/ p = "done" /\ dialed[s] \in FinalityOps

LEMMA QuietKeepsCalm ==
    ASSUME SessionTypeOK, StreamsInv, HandlingInv, SessionIsUsed, NEW s \in Sent, NEW p, QuietStep(s, p),
           p = "lost" => place[s] = "wire"
    PROVE  HandlingInv' /\ SessionIsUsed'
<1>1. Sent \subseteq Streams /\ \A t \in Sent : dialed[t] \in Ops
    BY SessionFacts
<1>2. /\ place'[s] = p /\ \A t \in Sent : t # s => place'[t] = place[t]
    BY <1>1 DEF QuietStep, SessionTypeOK
<1>3. Sent' = Sent /\ \A t \in Sent : Answered(t)' <=> Answered(t)
    BY DEF QuietStep, asking, Sent, Answered
<1>4. CannotWrite(dialed[s]) /\ place[s] = "ready" /\ dialed[s] \notin FinalityOps => Answered(s)
    BY DEF CannotWrite, Used, Fresh, HandlingInv, Arrived, Answered, NoStream, Sent
<1>5. ASSUME NEW t \in Sent
      PROVE  /\ place'[t] \in Arrived /\ dialed[t] \in StoreOps => dialed[t] \in cacheMemory'
             /\ dialed[t] \notin FinalityOps =>
                  /\ place'[t] \in Arrived => session[dialed[t]] = t \/ Answered(t)
                  /\ place'[t] \in {"told", "refused", "failing", "done"} => Answered(t)
    <2>1. CASE t # s
        BY <1>2, <2>1 DEF HandlingInv, QuietStep
    <2>2. CASE t = s
        BY <1>2, <1>4, <2>2 DEF HandlingInv, QuietStep, Arrived
    <2> QED BY <2>1, <2>2
<1>6. HandlingInv'
    BY <1>3, <1>5 DEF HandlingInv, QuietStep, asking
<1>7. ASSUME NEW o \in Ops \ FinalityOps, session[o] # NoStream
      PROVE  \/ session[o] \in cut
             \/ answer[session[o]] = "none" /\ place'[session[o]] \in Arrived
             \/ \E t \in Sent : dialed[t] = o /\ place'[t] = "told"
    <2>1. session[o] \in Sent /\ dialed[session[o]] = o /\ place[session[o]] # "wire"
        BY <1>7 DEF StreamsInv
    <2>2. CASE \E t \in Sent : dialed[t] = o /\ place[t] = "told"
        BY <1>2, <2>2 DEF QuietStep
    <2>3. CASE session[o] \in cut
        BY <2>3
    <2>4. CASE answer[session[o]] = "none" /\ place[session[o]] \in Arrived /\ session[o] \notin cut
        <3>1. CASE session[o] # s
            BY <1>2, <2>1, <2>4, <3>1
        <3>2. CASE session[o] = s
            BY <1>2, <1>7, <2>1, <2>4, <3>2 DEF QuietStep, CannotWrite, Used, Fresh, Arrived
        <3> QED BY <3>1, <3>2
    <2> QED BY <1>7, <2>2, <2>3, <2>4 DEF SessionIsUsed
<1>8. SessionIsUsed'
    BY <1>3, <1>7 DEF SessionIsUsed, QuietStep, asking, NoStream
<1> QED BY <1>6, <1>8

LEMMA ArrivalKeepsCalm ==
    ASSUME SessionTypeOK, StreamsInv, HandlingInv, SessionIsUsed, NEW s \in Sent, HandleRequest(s)
    PROVE  HandlingInv' /\ SessionIsUsed'
<1>1. Sent \subseteq Streams /\ \A t \in Sent : dialed[t] \in Ops
    BY SessionFacts
<1>2. /\ place[s] = "wire" /\ ~blackListed'
      /\ session' = [session EXCEPT ![dialed[s]] = s]
      /\ \E p \in {"caching", "queued"} : place' = [place EXCEPT ![s] = p]
      /\ cacheMemory \subseteq cacheMemory'
      /\ dialed[s] \in StoreOps => dialed[s] \in cacheMemory'
      /\ UNCHANGED <<asking, answer>>
    BY DEF HandleRequest, Admitted, At
<1>3. place'[s] \in {"caching", "queued"} /\ \A t \in Sent : t # s => place'[t] = place[t]
    BY <1>1, <1>2 DEF SessionTypeOK
<1>4. Sent' = Sent /\ \A t \in Sent : Answered(t)' <=> Answered(t)
    BY <1>2 DEF asking, Sent, Answered
<1>5. \A o \in Ops : session'[o] = IF o = dialed[s] THEN s ELSE session[o]
    BY <1>1, <1>2 DEF SessionTypeOK
<1>6. \A t \in Sent : t # s /\ dialed[t] = dialed[s] => Answered(t)
    BY DEF Answered, Sent
<1>7. HandlingInv'
    BY <1>1, <1>2, <1>3, <1>4, <1>5, <1>6 DEF HandlingInv, Arrived, asking
<1>8. ASSUME NEW o \in Ops \ FinalityOps, session'[o] # NoStream
      PROVE  \/ session'[o] \in cut
             \/ answer[session'[o]] = "none" /\ place'[session'[o]] \in Arrived
             \/ \E t \in Sent : dialed[t] = o /\ place'[t] = "told"
    <2>1. CASE o = dialed[s]
        BY <1>2, <1>3, <1>5, <2>1 DEF StreamsInv, Arrived
    <2>2. CASE o # dialed[s]
        <3>1. session'[o] = session[o] /\ session[o] \in Sent /\ dialed[session[o]] = o /\ session[o] # s
            BY <1>5, <1>8, <2>2 DEF StreamsInv
        <3> QED BY <1>2, <1>3, <1>8, <2>2, <3>1 DEF SessionIsUsed
    <2> QED BY <2>1, <2>2
<1>9. SessionIsUsed'
    BY <1>2, <1>4, <1>8 DEF SessionIsUsed, asking, NoStream
<1> QED BY <1>7, <1>9

LEMMA AnswerKeepsCalm ==
    ASSUME SessionTypeOK, StreamsInv, HandlingInv, SessionIsUsed, NEW s \in Sent,
           \/ /\ place[s] = "ready" /\ prepared[s] # "none"
              /\ Writes(dialed[s], prepared[s]) /\ At(s, "told")
              /\ UNCHANGED <<asking, session, kept, blackListed>>
           \/ RemoveSession(s)
           \/ HandleError(s)
    PROVE  HandlingInv' /\ SessionIsUsed'
<1>1. Sent \subseteq Streams /\ (\A t \in Sent : dialed[t] \in Ops) /\ dialed[s] \in Ops /\ s \in Streams
    BY SessionFacts
<1>2. Sent' = Sent /\ UNCHANGED <<asking, blackListed>>
    BY DEF RemoveSession, HandleError, asking, Sent
<1>3. CASE /\ place[s] = "ready" /\ prepared[s] # "none"
           /\ Writes(dialed[s], prepared[s]) /\ At(s, "told")
           /\ UNCHANGED <<asking, session, kept, blackListed>>
    <2>1. place'[s] = "told" /\ \A t \in Sent : t # s => place'[t] = place[t]
        BY <1>1, <1>3 DEF At, SessionTypeOK
    <2>2. /\ session[dialed[s]] \in Sent /\ dialed[session[dialed[s]]] = dialed[s]
          /\ \A t \in Streams : answer'[t] # answer[t] => t = session[dialed[s]]
          /\ answer'[session[dialed[s]]] # "none" \/ session[dialed[s]] \in cut
          /\ \A t \in Streams : answer[t] # "none" => answer'[t] = answer[t]
        <3>1. prepared[s] \in {"ACK", "NACK"}
            BY <1>1, <1>3 DEF SessionTypeOK
        <3> QED BY <1>1, <1>3, <3>1, WrittenToSession
    <2>3. \A t \in Sent : Answered(t) => Answered(t)'
        BY <1>1, <1>2, <2>2, AnsweredStays DEF asking
    <2>4. Answered(s)'
        BY <1>1, <1>2, <2>2 DEF Answered, asking, Sent
    <2>5. HandlingInv'
        BY <1>2, <1>3, <2>1, <2>3, <2>4 DEF HandlingInv, Arrived, asking, kept
    <2>6. ASSUME NEW o \in Ops \ FinalityOps, session[o] # NoStream
          PROVE  \/ session[o] \in cut
                 \/ answer'[session[o]] = "none" /\ place'[session[o]] \in Arrived
                 \/ \E t \in Sent : dialed[t] = o /\ place'[t] = "told"
        <3>1. CASE o = dialed[s]
            BY <2>1, <3>1
        <3>2. CASE o # dialed[s]
            <4>1. session[o] \in Sent /\ dialed[session[o]] = o
                BY <2>6 DEF StreamsInv
            <4>2. session[o] # s /\ answer'[session[o]] = answer[session[o]] /\ session[o] \in Streams
                BY <1>1, <2>2, <3>2, <4>1
            <4>3. \A t \in Sent : dialed[t] = o => place'[t] = place[t]
                BY <2>1, <3>2
            <4> QED BY <2>6, <4>1, <4>2, <4>3 DEF SessionIsUsed
        <3> QED BY <3>1, <3>2
    <2>7. SessionIsUsed'
        BY <1>2, <1>3, <2>6 DEF SessionIsUsed, asking, NoStream
    <2> QED BY <2>5, <2>7
<1>4. ASSUME place[s] \in {"told", "refused", "failing"}, place' = [place EXCEPT ![s] = "done"],
             session' = [session EXCEPT ![dialed[s]] = NoStream],
             \A t \in Sent : answer[t] # "none" => answer'[t] # "none",
             \A t \in Sent : dialed[t] # dialed[s] => answer'[t] = answer[t],
             \A t \in Sent : dialed[t] \in StoreOps /\ dialed[t] \in cacheMemory => dialed[t] \in cacheMemory'
      PROVE  HandlingInv' /\ SessionIsUsed'
    <2>1. place'[s] = "done" /\ \A t \in Sent : t # s => place'[t] = place[t]
        BY <1>1, <1>4 DEF SessionTypeOK
    <2>2. \A o \in Ops : session'[o] = IF o = dialed[s] THEN NoStream ELSE session[o]
        BY <1>1, <1>4 DEF SessionTypeOK
    <2>3. \A t \in Sent : Answered(t) => Answered(t)'
        BY <1>2, <1>4, AnsweredStays DEF asking
    <2>4. \A t \in Sent : t # s /\ dialed[t] = dialed[s] => Answered(t)
        BY DEF Answered, Sent
    <2>5. HandlingInv'
        BY <1>1, <1>2, <1>4, <2>1, <2>2, <2>3, <2>4 DEF HandlingInv, Arrived, asking
    <2>6. ASSUME NEW o \in Ops \ FinalityOps, session'[o] # NoStream
          PROVE  \/ session'[o] \in cut
                 \/ answer'[session'[o]] = "none" /\ place'[session'[o]] \in Arrived
                 \/ \E t \in Sent : dialed[t] = o /\ place'[t] = "told"
        <3>1. o # dialed[s] /\ session'[o] = session[o] /\ session[o] \in Sent /\ dialed[session[o]] = o
            BY <2>2, <2>6 DEF StreamsInv
        <3>2. session[o] # s /\ answer'[session[o]] = answer[session[o]]
            BY <1>4, <3>1
        <3>3. \A t \in Sent : dialed[t] = o => place'[t] = place[t]
            BY <2>1, <3>1
        <3> QED BY <2>6, <3>1, <3>2, <3>3 DEF SessionIsUsed
    <2>7. SessionIsUsed'
        BY <1>2, <2>6 DEF SessionIsUsed, asking, NoStream
    <2> QED BY <2>5, <2>7
<1>5. CASE RemoveSession(s)
    BY <1>4, <1>5 DEF RemoveSession, At, Unregistered, kept
<1>6. CASE HandleError(s)
    <2>1. /\ place[s] = "failing" /\ place' = [place EXCEPT ![s] = "done"]
          /\ cacheMemory' = cacheMemory \ {dialed[s]} /\ dialed[s] \notin StoreOps
        BY <1>6 DEF HandleError, At, StreamsInv
    <2>2. CASE Writes(dialed[s], "NACK") /\ Unregistered(dialed[s])
        <3>1. /\ session[dialed[s]] \in Sent /\ dialed[session[dialed[s]]] = dialed[s]
              /\ \A t \in Streams : answer'[t] # answer[t] => t = session[dialed[s]]
              /\ \A t \in Streams : answer[t] # "none" => answer'[t] = answer[t]
            BY <1>1, <2>2, WrittenToSession
        <3> QED BY <1>1, <1>4, <2>1, <2>2, <3>1 DEF Unregistered
    <2>3. CASE UNCHANGED <<answer, session>>
        <3>1. place'[s] = "done" /\ \A t \in Sent : t # s => place'[t] = place[t]
            BY <1>1, <2>1 DEF SessionTypeOK
        <3>2. \A t \in Sent : Answered(t)' <=> Answered(t)
            BY <1>2, <2>3 DEF Answered, asking, Sent
        <3>3. HandlingInv'
            BY <1>1, <1>2, <2>1, <2>3, <3>1, <3>2 DEF HandlingInv, Arrived, asking
        <3>4. ASSUME NEW o \in Ops \ FinalityOps, session[o] # NoStream
              PROVE  \/ session[o] \in cut
                     \/ answer[session[o]] = "none" /\ place'[session[o]] \in Arrived
                     \/ \E t \in Sent : dialed[t] = o /\ place'[t] = "told"
            <4>1. session[o] \in Sent
                BY <3>4 DEF StreamsInv
            <4> QED BY <2>1, <3>1, <3>4, <4>1 DEF SessionIsUsed, Arrived
        <3>5. SessionIsUsed'
            BY <1>2, <2>3, <3>4 DEF SessionIsUsed, asking, NoStream
        <3> QED BY <3>3, <3>5
    <2> QED BY <1>6, <2>2, <2>3 DEF HandleError
<1> QED BY <1>3, <1>5, <1>6

LEMMA HandlerKeepsCalm ==
    ASSUME SessionIInv, NEW s \in Sent, Accept(s) \/ Handle(s), sessionFaults' = 0
    PROVE  HandlingInv' /\ SessionIsUsed'
<1>1. /\ SessionTypeOK /\ StreamsInv /\ sessionFaults \in Nat
      /\ sessionFaults = 0 => HandlingInv /\ SessionIsUsed
    BY SessionAssumption DEF SessionIInv, SessionTypeOK
<1>2. sessionFaults = 0 /\ ~SessionFault
    <2>1. ~SessionFault
        BY <1>1 DEF SessionFault
    <2> QED BY <1>1, <2>1 DEF Accept, Handle, Refuse, Limited, HandleRequest, Admitted, Unread, CacheToFile,
            ValidateReceivedData, CacheDataset, SignMessage, GetAssertion, CheckExists, SaveFinalityAck, SendResponse,
            RemoveSession, PrepareFails, HandleError, Handling
<1>3. HandlingInv /\ SessionIsUsed
    BY <1>1, <1>2
<1>4. s \in Streams /\ dialed[s] \in Ops
    BY <1>1, SessionFacts
<1>5. CASE Refuse(s)
    BY <1>2, <1>3, <1>5 DEF Refuse, Limited, HandlingInv
<1>6. CASE HandleRequest(s)
    BY <1>1, <1>3, <1>6, ArrivalKeepsCalm
<1>7. CASE Unread(s)
    <2>1. QuietStep(s, "lost") /\ place[s] = "wire"
        BY <1>7 DEF Unread, At, QuietStep, kept
    <2> QED BY <1>1, <1>3, <2>1, QuietKeepsCalm
<1>8. CASE CacheToFile(s)
    <2>1. QuietStep(s, "queued")
        BY <1>8 DEF CacheToFile, At, QuietStep
    <2> QED BY <1>1, <1>3, <2>1, QuietKeepsCalm
<1>9. CASE ValidateReceivedData(s) \/ GetAssertion(s)
    <2>1. QuietStep(s, "validated") \/ QuietStep(s, "ready")
        BY <1>9 DEF ValidateReceivedData, GetAssertion, Handling, At, QuietStep, Arrived, kept
    <2> QED BY <1>1, <1>3, <2>1, QuietKeepsCalm
<1>10. CASE CacheDataset(s)
    <2>1. QuietStep(s, "kept")
        BY <1>10 DEF CacheDataset, Handling, At, QuietStep, Arrived
    <2> QED BY <1>1, <1>3, <2>1, QuietKeepsCalm
<1>11. CASE SignMessage(s) \/ CheckExists(s)
    <2>1. QuietStep(s, "ready")
        BY <1>11 DEF SignMessage, CheckExists, Handling, At, QuietStep, Arrived, kept
    <2> QED BY <1>1, <1>3, <2>1, QuietKeepsCalm
<1>12. CASE SaveFinalityAck(s)
    <2>1. QuietStep(s, "done")
        BY <1>12 DEF SaveFinalityAck, At, QuietStep
    <2> QED BY <1>1, <1>3, <2>1, QuietKeepsCalm
<1>13. CASE SendResponse(s)
    <2>1. CASE Writes(dialed[s], prepared[s]) /\ At(s, "told")
        <3>1. place[s] = "ready" /\ prepared[s] # "none" /\ UNCHANGED <<asking, session, kept, blackListed>>
            BY <1>1, <1>13 DEF SendResponse, StreamsInv
        <3> QED BY <1>1, <1>3, <2>1, <3>1, AnswerKeepsCalm
    <2>2. CASE CannotWrite(dialed[s]) /\ Thrown(s) /\ UNCHANGED answer
        <3>1. PICK p \in {"queued", "done", "failing"} : place' = [place EXCEPT ![s] = p]
            BY <2>2 DEF Thrown, At
        <3>2. /\ place[s] = "ready" /\ UNCHANGED <<asking, session, kept, blackListed>>
            BY <1>13 DEF SendResponse
        <3>3. dialed[s] \in StoreOps => dialed[s] \in cacheMemory
            BY <1>3, <3>2 DEF HandlingInv, Arrived
        <3>4. QuietStep(s, p)
            BY <2>2, <3>1, <3>2, <3>3 DEF QuietStep, kept
        <3> QED BY <1>1, <1>3, <3>1, <3>4, QuietKeepsCalm
    <2> QED BY <1>13, <2>1, <2>2 DEF SendResponse
<1>14. CASE PrepareFails(s)
    BY <1>2, <1>3, <1>14 DEF PrepareFails, HandlingInv, CachedDataset, Arrived
<1>15. CASE RemoveSession(s) \/ HandleError(s)
    BY <1>1, <1>3, <1>15, AnswerKeepsCalm
<1> QED BY <1>5, <1>6, <1>7, <1>8, <1>9, <1>10, <1>11, <1>12, <1>13, <1>14, <1>15 DEF Accept, Handle

LEMMA RestartKeeps ==
    ASSUME SessionIInv, Restart
    PROVE  SessionIInv'
<1>0. /\ SessionTypeOK /\ StreamsInv /\ TrueAnswers /\ NoStaleSession
      /\ Sent \subseteq Streams /\ Len(dialed) \in Nat /\ MaxSessionFaults \in Nat
    BY SessionFacts, SessionAssumption DEF SessionIInv
<1>1. sessionFaults' = sessionFaults + 1 /\ sessionFaults' \in 0 .. MaxSessionFaults /\ sessionFaults' # 0
    BY <1>0 DEF Restart, SessionFault, SessionTypeOK
<1>2. \A s \in Streams : place'[s] = (IF place[s] \in Over THEN place[s] ELSE "lost")
    BY DEF Restart
<1>3. Sent' = Sent
    BY DEF Restart, asking, Sent
<1>4. place' \in [Streams -> Places]
    BY <1>0 DEF Restart, SessionTypeOK, Places, Over
<1>5. SessionTypeOK'
    BY <1>0, <1>1, <1>4 DEF Restart, SessionTypeOK, asking
<1>6. StreamsInv'
    BY <1>0, <1>2, <1>3 DEF Restart, StreamsInv, asking, Over
<1>7. TrueAnswers'
    BY <1>0, <1>2, <1>3 DEF Restart, TrueAnswers, Fulfilled, asking, Over
<1>8. NoStaleSession'
    BY <1>0 DEF Restart, NoStaleSession, Waiting, asking
<1> QED BY <1>1, <1>5, <1>6, <1>7, <1>8 DEF SessionIInv

LEMMA SessionInitial == SessionInit => SessionIInv
<1> SUFFICES ASSUME SessionInit PROVE SessionIInv
    OBVIOUS
<1>1. dialed = <<>> /\ Len(dialed) = 0 /\ Sent = {} /\ dialed \in Seq(Ops)
    BY DEF SessionInit, Sent
<1>2. SessionTypeOK
    <2>1. /\ senderSession \in [Ops -> Streams \cup {NoStream}] /\ session \in [Ops -> Streams \cup {NoStream}]
          /\ got \in [Streams -> {"none", "ACK", "NACK"}] /\ answer \in [Streams -> {"none", "ACK", "NACK"}]
          /\ prepared \in [Streams -> {"none", "ACK", "NACK"}] /\ place \in [Streams -> Places]
        BY DEF SessionInit, Places, Over
    <2>2. HandlerRetries \in 1 .. HandlerRetries /\ 0 \in 0 .. MaxSessionFaults /\ 0 <= MaxStreams
        BY SessionAssumption
    <2>3. tries \in [Streams -> 1 .. HandlerRetries]
        BY <2>2 DEF SessionInit
    <2>4. /\ cut \subseteq Streams /\ cacheMemory \subseteq Ops /\ cacheFile \subseteq Ops
          /\ pendingStorage \subseteq StoreOps /\ finalityAcks \subseteq FinalityOps
          /\ blackListed \in BOOLEAN /\ sessionFaults \in 0 .. MaxSessionFaults
        BY <2>2 DEF SessionInit
    <2> QED BY <1>1, <2>1, <2>2, <2>3, <2>4 DEF SessionTypeOK
<1>3. StreamsInv /\ TrueAnswers /\ NoStaleSession
    BY <1>1 DEF SessionInit, StreamsInv, TrueAnswers, NoStaleSession
<1>4. HandlingInv /\ SessionIsUsed
    BY <1>1 DEF SessionInit, HandlingInv, SessionIsUsed
<1> QED BY <1>2, <1>3, <1>4 DEF SessionIInv

LEMMA SessionStep == SessionIInv /\ [SessionNext]_sessionVars => SessionIInv'
<1> SUFFICES ASSUME SessionIInv, [SessionNext]_sessionVars PROVE SessionIInv'
    OBVIOUS
<1>1. CASE (\E o \in Ops : SendMessage(o) \/ DialFails(o)) \/ (\E s \in Sent : Returns(s))
    BY <1>1, AskingKeeps
<1>2. ASSUME NEW s \in Sent, Accept(s) \/ Handle(s) PROVE SessionIInv'
    <2>1. SessionTypeOK' /\ StreamsInv' /\ TrueAnswers' /\ NoStaleSession'
        BY <1>2, HandlerKeepsStreams DEF SessionIInv
    <2>2. sessionFaults' = 0 => HandlingInv' /\ SessionIsUsed'
        BY <1>2, HandlerKeepsCalm
    <2> QED BY <2>1, <2>2 DEF SessionIInv
<1>3. CASE Restart
    BY <1>3, RestartKeeps
<1>4. CASE UNCHANGED sessionVars
    BY <1>4 DEF sessionVars, SessionIInv, SessionTypeOK, StreamsInv, TrueAnswers, Fulfilled, NoStaleSession, Waiting,
       HandlingInv, SessionIsUsed, Sent, Answered
<1> QED BY <1>1, <1>2, <1>3, <1>4 DEF SessionNext, Sent

LEMMA SessionInductive == SessionSpec => []SessionIInv
BY SessionInitial, SessionStep, PTL DEF SessionSpec

LEMMA SessionHolds == SessionIInv => SessionInv
<1> SUFFICES ASSUME SessionIInv PROVE SessionInv
    OBVIOUS
<1>1. NoStaleSession /\ StreamsInv /\ (sessionFaults = 0 => HandlingInv /\ SessionIsUsed)
    BY DEF SessionIInv
<1>2. HandledIsAnswered
    BY <1>1 DEF HandledIsAnswered, HandlingInv, Sent
<1>3. ASSUME NEW o \in Ops \ FinalityOps, session[o] # NoStream, sessionFaults = 0,
             \A s \in Sent : dialed[s] = o => place[s] \in Over
      PROVE  \E s \in cut : dialed[s] = o
    <2>1. session[o] \in Sent /\ dialed[session[o]] = o
        BY <1>1, <1>3 DEF StreamsInv
    <2> QED BY <1>1, <1>3, <2>1 DEF SessionIsUsed, Over, Arrived
<1>4. sessionFaults \in Nat
    BY SessionAssumption DEF SessionIInv, SessionTypeOK
<1>5. SessionRemoved
    BY <1>3, <1>4 DEF SessionRemoved, Sent
<1> QED BY <1>1, <1>2, <1>5 DEF SessionInv

(* A session of the asking node has a request that waits for it; a request  *)
(* whose handling is over was answered, and its session removed, unless     *)
(* something was thrown, refused or restarted, the stream was given up, or  *)
(* a later request of the operation took the session.                       *)
THEOREM SessionCorrect == SessionSpec => []SessionInv
BY SessionInitial, SessionStep, SessionHolds, PTL DEF SessionSpec

-----------------------------------------------------------------------------
(* The sessions implement RequestAnswer.                                    *)

LEMMA AbstractInit == SessionInit => Abstract!AnswerInit
<1> SUFFICES ASSUME SessionInit PROVE Abstract!AnswerInit
    OBVIOUS
<1>1. Len(dialed) = 0
    BY DEF SessionInit
<1>2. Requested = [s \in Streams |-> "none"]
    BY <1>1 DEF Requested, Streams
<1>3. pendingStorage \cup finalityAcks \cup Held \subseteq Ops
    BY DEF SessionInit, Held, Ops
<1>4. got = [s \in Streams |-> "none"]
    BY DEF SessionInit
<1> QED BY <1>2, <1>3, <1>4 DEF Abstract!AnswerInit

LEMMA AbstractStep ==
    ASSUME SessionIInv, SessionNext
    PROVE  [Abstract!AnswerNext]_Abstract!answerVars
<1>0. /\ SessionTypeOK /\ StreamsInv /\ TrueAnswers
      /\ Sent \subseteq Streams /\ Streams \subseteq Nat /\ (\A t \in Sent : dialed[t] \in Ops)
      /\ Len(dialed) \in Nat /\ "none" \notin Ops
    BY SessionFacts, SessionAssumption DEF SessionIInv
<1>1. ASSUME NEW o \in Ops, SendMessage(o)
      PROVE  [Abstract!AnswerNext]_Abstract!answerVars
    <2> DEFINE n == Len(dialed) + 1
    <2>1. /\ Len(dialed) < MaxStreams /\ dialed' = Append(dialed, o)
          /\ UNCHANGED <<got, pendingStorage, finalityAcks>>
        BY <1>1 DEF SendMessage, kept
    <2>2. /\ Len(dialed') = n /\ n \in Streams
          /\ dialed'[n] = o /\ \A s \in Sent : dialed'[s] = dialed[s]
        BY <1>0, <2>1, DialedAppended
    <2>3. Requested[n] = "none"
        BY <1>0, <2>2 DEF Requested
    <2>4. Requested' = [Requested EXCEPT ![n] = o]
        <3>1. \A s \in Streams : (s <= Len(dialed) <=> s \in Sent) /\ (s <= n <=> s \in Sent \/ s = n)
            BY <1>0, <2>2 DEF Sent, Streams
        <3>2. \A s \in Streams : (IF s <= Len(dialed') THEN dialed'[s] ELSE "none")
                  = IF s = n THEN o ELSE IF s <= Len(dialed) THEN dialed[s] ELSE "none"
            BY <1>0, <2>2, <3>1
        <3> QED BY <3>2 DEF Requested
    <2>5. Abstract!Ask(n, o)
        BY <2>1, <2>3, <2>4 DEF Abstract!Ask
    <2> QED BY <2>2, <2>5 DEF Abstract!AnswerNext
<1>2. ASSUME NEW s \in Sent, NEW a \in {"ACK", "NACK"}, MessageReturns(s, a)
      PROVE  [Abstract!AnswerNext]_Abstract!answerVars
    <2>1. /\ got[s] = "none" /\ (a = "ACK" => answer[s] = "ACK")
          /\ got' = [got EXCEPT ![s] = a]
          /\ UNCHANGED <<dialed, pendingStorage, finalityAcks>>
        BY <1>2 DEF MessageReturns, Waiting, kept
    <2>2. Requested[s] = dialed[s] /\ Requested' = Requested /\ s \in Streams /\ dialed[s] \in Ops
        BY <1>0, <2>1 DEF Requested, Sent
    <2>3. a = "ACK" => dialed[s] \in pendingStorage \cup finalityAcks \cup Held
        BY <1>0, <2>1 DEF TrueAnswers, Fulfilled
    <2>4. Abstract!Reply(s, a)
        BY <1>0, <2>1, <2>2, <2>3 DEF Abstract!Reply
    <2> QED BY <2>2, <2>4 DEF Abstract!AnswerNext
<1>3. ASSUME NEW s \in Sent, CacheDataset(s) \/ SaveFinalityAck(s)
      PROVE  [Abstract!AnswerNext]_Abstract!answerVars
    <2>1. UNCHANGED <<dialed, got>>
        BY <1>3 DEF CacheDataset, SaveFinalityAck, Handling, asking
    <2>2. \/ UNCHANGED <<pendingStorage, finalityAcks>>
          \/ pendingStorage' \cup finalityAcks' \cup Held = (pendingStorage \cup finalityAcks \cup Held) \cup {dialed[s]}
        BY <1>3 DEF CacheDataset, SaveFinalityAck, Handling, asking
    <2>3. Requested' = Requested
        BY <2>1 DEF Requested
    <2>4. CASE UNCHANGED <<pendingStorage, finalityAcks>>
        BY <2>1, <2>3, <2>4 DEF Abstract!answerVars
    <2>5. CASE pendingStorage' \cup finalityAcks' \cup Held = (pendingStorage \cup finalityAcks \cup Held) \cup {dialed[s]}
        <3>1. Abstract!Fulfil(dialed[s])
            BY <2>1, <2>3, <2>5 DEF Abstract!Fulfil
        <3> QED BY <1>0, <3>1 DEF Abstract!AnswerNext
    <2> QED BY <2>2, <2>4, <2>5
<1>4. ASSUME UNCHANGED <<dialed, got, pendingStorage, finalityAcks>>
      PROVE  [Abstract!AnswerNext]_Abstract!answerVars
    BY <1>4 DEF Abstract!answerVars, Requested
<1>5. ASSUME NEW o \in Ops, DialFails(o) PROVE UNCHANGED <<dialed, got, pendingStorage, finalityAcks>>
    BY <1>5 DEF DialFails, kept
<1>6. ASSUME NEW s \in Sent, Accept(s) \/ Handle(s), ~CacheDataset(s), ~SaveFinalityAck(s)
      PROVE  UNCHANGED <<dialed, got, pendingStorage, finalityAcks>>
    BY <1>6 DEF Accept, Handle, Refuse, HandleRequest, Unread, CacheToFile, ValidateReceivedData, SignMessage,
       GetAssertion, CheckExists, SendResponse, RemoveSession, PrepareFails, HandleError, Handling, asking, kept
<1>7. ASSUME Restart PROVE UNCHANGED <<dialed, got, pendingStorage, finalityAcks>>
    BY <1>7 DEF Restart, asking
<1> QED BY <1>1, <1>2, <1>3, <1>4, <1>5, <1>6, <1>7 DEF SessionNext, Returns, Sent

LEMMA ImplementsStep ==
    SessionIInv /\ [SessionNext]_sessionVars => [Abstract!AnswerNext]_Abstract!answerVars
<1> SUFFICES ASSUME SessionIInv, [SessionNext]_sessionVars
             PROVE  [Abstract!AnswerNext]_Abstract!answerVars
    OBVIOUS
<1>1. CASE SessionNext
    BY <1>1, AbstractStep
<1>2. CASE UNCHANGED sessionVars
    BY <1>2 DEF sessionVars, Abstract!answerVars, Requested
<1> QED BY <1>1, <1>2

(* The exchange over sessions that requests of one operation share, with     *)
(* refusals, exceptions, timeouts and restarts, is a request with one answer *)
(* at most, of which a positive one is true.                                 *)
THEOREM SessionImplementsAnswer == SessionSpec => ImplementsAnswer
BY AbstractInit, ImplementsStep, SessionInductive, PTL DEF SessionSpec, ImplementsAnswer, Abstract!AnswerSpec

-----------------------------------------------------------------------------
(* The finality of a publish: its inductive invariant.  Only a node that has *)
(* stored acknowledges, over any number of handlings of the event, exceptions *)
(* and deaths of nodes; but for the publisher.  A status of COMPLETED is     *)
(* overwritten before its run ends, also when the request is sent again,     *)
(* unless the run is lost before.                                            *)

AckedIsStored ==
    /\ ackRows \subseteq (inStore \cup {Publisher}) \X {1}
    /\ \A r \in Runs :
          /\ at[r] \in {"find", "schedule", "request", "waiting", "failing"} \/ r \in onWire
                => r[1] \in inStore
          /\ finStatus[r] = "COMPLETED" => at[r] \in {"request", "waiting", "failing", "lost"}

FinIInv == FinTypeOK /\ AckedIsStored

LEMMA RunFacts ==
    ASSUME NEW r \in Runs
    PROVE  r[1] \in Shard /\ \A n \in Shard : Acknowledge(n) => ackRows' = ackRows \cup {<<n, 1>>}
BY DEF Runs, Acknowledge

LEMMA RunStepKeeps ==
    ASSUME FinIInv, NEW r \in Runs,
           HandleCreatedEvent(r) \/ RunStep(r) \/ SaveAck(r) \/ RunThrows(r)
    PROVE  FinIInv'
<1> USE FinalizationAssumption DEF files
<1>0. FinTypeOK /\ AckedIsStored /\ r[1] \in Shard /\ Publisher \in Shard
    BY RunFacts DEF FinIInv
<1>1. CASE HandleCreatedEvent(r)
    <2>1. FinTypeOK'
        BY <1>0, <1>1 DEF HandleCreatedEvent, Advance, GoesTo, FinTypeOK, Stages, FinOver
    <2>2. AckedIsStored'
        BY <1>0, <1>1 DEF HandleCreatedEvent, Advance, GoesTo, FinTypeOK, AckedIsStored
    <2> QED BY <2>1, <2>2 DEF FinIInv
<1>2. CASE ReadCachedPublishData(r)
    <2>1. FinTypeOK'
        BY <1>0, <1>2 DEF ReadCachedPublishData, Acknowledge, Advance, GoesTo, HasStatus, FinTypeOK, Stages, FinOver, Statuses
    <2>2. AckedIsStored'
        BY <1>0, <1>2 DEF ReadCachedPublishData, Acknowledge, Advance, GoesTo, HasStatus, FinTypeOK, AckedIsStored
    <2> QED BY <2>1, <2>2 DEF FinIInv
<1>3. CASE RetryRead(r)
    <2>1. readsLeft' \in [Runs -> 0 .. ReadRetries]
        <3>1. readsLeft[r] > 1 => readsLeft[r] - 1 \in 0 .. ReadRetries
            BY <1>0 DEF FinTypeOK
        <3> QED BY <1>0, <1>3, <3>1 DEF RetryRead, FinTypeOK
    <2>2. FinTypeOK'
        BY <1>0, <1>3, <2>1 DEF RetryRead, GoesTo, HasStatus, FinTypeOK, Stages, FinOver, Statuses
    <2>3. AckedIsStored'
        BY <1>0, <1>3 DEF RetryRead, GoesTo, HasStatus, FinTypeOK, AckedIsStored
    <2> QED BY <2>2, <2>3 DEF FinIInv
<1>4. CASE ValidateAssertionMetadata(r)
    <2>1. FinTypeOK'
        BY <1>0, <1>4 DEF ValidateAssertionMetadata, Advance, GoesTo, HasStatus, FinTypeOK, Stages, FinOver, Statuses
    <2>2. AckedIsStored'
        BY <1>0, <1>4 DEF ValidateAssertionMetadata, Advance, GoesTo, HasStatus, FinTypeOK, AckedIsStored
    <2> QED BY <2>1, <2>2 DEF FinIInv
<1>5. CASE StoreAssertion(r)
    <2>1. FinTypeOK'
        BY <1>0, <1>5 DEF StoreAssertion, AfterStore, Advance, GoesTo, HasStatus, FinTypeOK, Stages, FinOver, Statuses
    <2>2. AckedIsStored'
        BY <1>0, <1>5 DEF StoreAssertion, AfterStore, Advance, GoesTo, HasStatus, FinTypeOK, AckedIsStored
    <2> QED BY <2>1, <2>2 DEF FinIInv
<1>6. CASE StoreAssertionFails(r)
    <2>1. FinTypeOK'
        BY <1>0, <1>6 DEF StoreAssertionFails, Befalls, FinFault, Fates, Advance, GoesTo, HasStatus, FinTypeOK, Stages, FinOver, Statuses
    <2>2. AckedIsStored'
        BY <1>0, <1>6 DEF StoreAssertionFails, Advance, GoesTo, HasStatus, FinTypeOK, AckedIsStored
    <2> QED BY <2>1, <2>2 DEF FinIInv
<1>7. CASE NetworkFinality(r) \/ ScheduleFinality(r)
    <2>1. FinTypeOK'
        BY <1>0, <1>7 DEF NetworkFinality, ScheduleFinality, Advance, GoesTo, FinTypeOK, Stages, FinOver
    <2>2. AckedIsStored'
        BY <1>0, <1>7 DEF NetworkFinality, ScheduleFinality, Advance, GoesTo, FinTypeOK, AckedIsStored
    <2> QED BY <2>1, <2>2 DEF FinIInv
<1>8. CASE RequestFinality(r)
    <2>1. FinTypeOK'
        BY <1>0, <1>8 DEF RequestFinality, FinFault, GoesTo, FinTypeOK, Stages, FinOver
    <2>2. AckedIsStored'
        BY <1>0, <1>8 DEF RequestFinality, GoesTo, FinTypeOK, AckedIsStored
    <2> QED BY <2>1, <2>2 DEF FinIInv
<1>9. CASE FinalityTimesOut(r) \/ MarkFinalityFailed(r)
    <2>1. FinTypeOK'
        BY <1>0, <1>9 DEF FinalityTimesOut, MarkFinalityFailed, Advance, GoesTo, HasStatus, FinTypeOK, Stages, FinOver, Statuses
    <2>2. AckedIsStored'
        BY <1>0, <1>9 DEF FinalityTimesOut, MarkFinalityFailed, Advance, GoesTo, HasStatus, FinTypeOK, AckedIsStored
    <2> QED BY <2>1, <2>2 DEF FinIInv
<1>10. CASE SaveAck(r)
    <2>1. FinTypeOK'
        BY <1>0, <1>10 DEF SaveAck, Acknowledge, FinFault, FinTypeOK
    <2>2. AckedIsStored'
        BY <1>0, <1>10 DEF SaveAck, Acknowledge, AckedIsStored
    <2> QED BY <2>1, <2>2 DEF FinIInv
<1>11. CASE ReadThrows(r)
    <2>1. readsLeft' \in [Runs -> 0 .. ReadRetries]
        <3>1. readsLeft[r] > 0 => readsLeft[r] - 1 \in 0 .. ReadRetries
            BY <1>0 DEF FinTypeOK
        <3> QED BY <1>0, <1>11, <3>1 DEF ReadThrows, FinTypeOK
    <2>2. at' \in [Runs -> Stages] /\ spoiled' \subseteq Shard \X Fates
        BY <1>0, <1>11 DEF ReadThrows, GoesTo, Befalls, Fates, FinTypeOK, Stages, FinOver
    <2>3. finStatus' \in [Runs -> Statuses] /\ ackRows' \subseteq Shard \X Nat
        BY <1>0, <1>11 DEF ReadThrows, HasStatus, Acknowledge, FinTypeOK, Statuses
    <2>4. FinTypeOK'
        BY <1>0, <1>11, <2>1, <2>2, <2>3 DEF ReadThrows, FinFault, FinTypeOK
    <2>5. AckedIsStored'
        BY <1>0, <1>11 DEF ReadThrows, Acknowledge, GoesTo, HasStatus, FinTypeOK, AckedIsStored
    <2> QED BY <2>4, <2>5 DEF FinIInv
<1>12. CASE CommandThrows(r)
    <2>1. at' \in [Runs -> Stages] /\ spoiled' \subseteq Shard \X Fates
        BY <1>0, <1>12 DEF CommandThrows, GoesTo, Befalls, Fates, FinTypeOK, Stages, FinOver
    <2>2. FinTypeOK'
        <3>1. finStatus' \in [Runs -> Statuses] /\ finFaults' \in 0 .. MaxFinFaults
            BY <1>0, <1>12 DEF CommandThrows, HasStatus, FinFault, FinTypeOK, Statuses
        <3>2. inStore' \subseteq Shard /\ UNCHANGED <<readsLeft, pendingFile, agedFile, ackRows, onWire>>
            BY <1>0, <1>12 DEF CommandThrows, FinTypeOK
        <3> QED BY <1>0, <2>1, <3>1, <3>2 DEF FinTypeOK
    <2>3. AckedIsStored'
        <3>1. inStore \subseteq inStore' /\ UNCHANGED <<ackRows, onWire>>
            BY <1>12 DEF CommandThrows
        <3>2. /\ at'[r] \in {"done", "schedule", "request"} /\ finStatus'[r] = "FAILED"
              /\ at'[r] # "done" => r[1] \in inStore
            BY <1>0, <1>12 DEF CommandThrows, GoesTo, HasStatus, FinTypeOK, AckedIsStored
        <3>3. \A s \in Runs : s # r => at'[s] = at[s] /\ finStatus'[s] = finStatus[s]
            BY <1>0, <1>12 DEF CommandThrows, GoesTo, HasStatus, FinTypeOK
        <3> QED BY <1>0, <3>1, <3>2, <3>3 DEF AckedIsStored
    <2> QED BY <2>2, <2>3 DEF FinIInv
<1>13. CASE RequestThrows(r)
    <2>1. FinTypeOK'
        BY <1>0, <1>13 DEF RequestThrows, FinFault, GoesTo, HasStatus, FinTypeOK, Stages, FinOver, Statuses
    <2>2. AckedIsStored'
        BY <1>0, <1>13 DEF RequestThrows, GoesTo, HasStatus, FinTypeOK, AckedIsStored
    <2> QED BY <2>1, <2>2 DEF FinIInv
<1>14. CASE RunIsLost(r)
    <2>1. at' \in [Runs -> Stages] /\ spoiled' \subseteq Shard \X Fates
        BY <1>0, <1>14 DEF RunIsLost, GoesTo, Befalls, Fates, FinTypeOK, Stages, FinOver
    <2>2. FinTypeOK'
        BY <1>0, <1>14, <2>1 DEF RunIsLost, FinTypeOK
    <2>3. AckedIsStored'
        BY <1>0, <1>14 DEF RunIsLost, GoesTo, FinTypeOK, AckedIsStored
    <2> QED BY <2>2, <2>3 DEF FinIInv
<1> QED
    BY <1>1, <1>2, <1>3, <1>4, <1>5, <1>6, <1>7, <1>8, <1>9, <1>10, <1>11, <1>12, <1>13, <1>14
    DEF RunStep, RunThrows

LEMMA NodeStepKeeps ==
    ASSUME FinIInv, NEW n \in Shard,
           CacheInPendingStorage(n) \/ Ages(n) \/ CleanPendingStorage(n) \/ NodeDies(n)
    PROVE  FinIInv'
<1> USE FinalizationAssumption DEF files
<1>0. FinTypeOK /\ AckedIsStored
    BY DEF FinIInv
<1>1. CASE CacheInPendingStorage(n) \/ Ages(n)
    <2>1. FinTypeOK'
        BY <1>0, <1>1 DEF CacheInPendingStorage, Ages, FinFault, FinTypeOK
    <2>2. AckedIsStored'
        BY <1>0, <1>1 DEF CacheInPendingStorage, Ages, AckedIsStored
    <2> QED BY <2>1, <2>2 DEF FinIInv
<1>2. CASE CleanPendingStorage(n)
    <2>1. FinTypeOK'
        BY <1>0, <1>2 DEF CleanPendingStorage, Expired, Fates, FinTypeOK
    <2>2. AckedIsStored'
        BY <1>0, <1>2 DEF CleanPendingStorage, AckedIsStored
    <2> QED BY <2>1, <2>2 DEF FinIInv
<1>3. CASE NodeDies(n)
    <2>1. at' \in [Runs -> Stages] /\ \A r \in Runs : at'[r] \in {at[r], "lost"}
        BY <1>0, <1>3 DEF NodeDies, FinTypeOK, Stages, FinOver
    <2>2. FinTypeOK'
        BY <1>0, <1>3, <2>1 DEF NodeDies, FinFault, Fates, FinTypeOK
    <2>3. AckedIsStored'
        BY <1>0, <1>3, <2>1 DEF NodeDies, AckedIsStored
    <2> QED BY <2>2, <2>3 DEF FinIInv
<1> QED BY <1>1, <1>2, <1>3

LEMMA FinStarts == FinInit => FinIInv
BY FinalizationAssumption DEF FinInit, FinIInv, FinTypeOK, AckedIsStored, Stages, FinOver, Statuses

LEMMA FinStep == FinIInv /\ [FinNext]_finVars => FinIInv'
<1> SUFFICES ASSUME FinIInv, [FinNext]_finVars PROVE FinIInv'
    OBVIOUS
<1>1. CASE FinNext
    BY <1>1, RunStepKeeps, NodeStepKeeps DEF FinNext
<1>2. CASE UNCHANGED finVars
    BY <1>2 DEF finVars, FinIInv, FinTypeOK, AckedIsStored
<1> QED BY <1>1, <1>2

LEMMA FinHolds == FinIInv => FinalityInv
<1> SUFFICES ASSUME FinIInv PROVE FinalityInv
    OBVIOUS
<1> DEFINE stores == inStore \cup {Publisher}
           peer == [row \in ackRows |-> row[1]]
<1>1. FinTypeOK /\ AckedIsStored
    BY DEF FinIInv
<1>2. IsFiniteSet(stores)
    BY <1>1, FinalizationAssumption, FS_Subset DEF FinTypeOK
<1>3. peer \in Injection(ackRows, stores)
    <2>1. \A row \in ackRows : row = <<row[1], 1>> /\ row[1] \in stores
        BY <1>1 DEF AckedIsStored
    <2> QED BY <2>1 DEF Injection, IsInjective
<1>4. FinalityIsStored
    BY <1>2, <1>3, FS_Injection DEF FinalityIsStored
<1>5. EndsAsFailed
    BY <1>1 DEF EndsAsFailed, AckedIsStored
<1> QED BY <1>4, <1>5 DEF FinalityInv

(* The publisher never counts more acknowledgements than nodes have stored   *)
(* the collection, itself not counted; who polls a finished acknowledgement  *)
(* does not see it as completed.                                             *)
THEOREM FinalityCorrect == FinSpec => []FinalityInv
BY FinStarts, FinStep, FinHolds, PTL DEF FinSpec

-----------------------------------------------------------------------------
(* The triple store, for any number of inserts, gets, retries and failing   *)
(* queries: type correctness, and the inductive invariant behind            *)
(* StoredStays, StoredIsPublic and ReadIsWhole.                             *)


(* One query of one call gets an outcome; no other one changes.            *)
LEMMA OneQuery ==
    ASSUME StoreTypeOK, NEW i \in Inserts, NEW p \in Parts,
           NEW v \in {"none", "sent", "done", "failed"},
           query' = [query EXCEPT ![i][p] = v]
    PROVE  /\ query' \in [Inserts -> [Parts -> {"none", "sent", "done", "failed"}]]
           /\ \A j \in Inserts, q \in Parts :
                 query'[j][q] = IF j = i /\ q = p THEN v ELSE query[j][q]
<1> DEFINE Outcomes == {"none", "sent", "done", "failed"}
<1>1. query \in [Inserts -> [Parts -> Outcomes]]
    BY DEF StoreTypeOK
<1>2. query' = [query EXCEPT ![i] = [query[i] EXCEPT ![p] = v]]
    OBVIOUS
<1> HIDE DEF Outcomes
<1>3. v \in Outcomes
    BY DEF Outcomes
<1>4. query[i] \in [Parts -> Outcomes]
    BY <1>1
<1>5. [query[i] EXCEPT ![p] = v] \in [Parts -> Outcomes]
    BY <1>3, <1>4
<1>6. \A q \in Parts : [query[i] EXCEPT ![p] = v][q] = IF q = p THEN v ELSE query[i][q]
    BY <1>4
<1> QED BY <1>1, <1>2, <1>5, <1>6 DEF Outcomes

(* A query lands: its graph is written if it is done, no graph is removed.  *)
LEMMA Landed ==
    ASSUME StoreTypeOK, NEW i \in Inserts, NEW p \in Parts, Lands(i, p)
    PROVE  /\ graphs \subseteq graphs' /\ graphs' \subseteq graphs \cup {p}
           /\ query' \in [Inserts -> [Parts -> {"none", "sent", "done", "failed"}]]
           /\ query'[i][p] \in {"done", "failed"}
           /\ query'[i][p] = "done" => p \in graphs'
           /\ \A j \in Inserts, q \in Parts :
                 j # i \/ q # p => query'[j][q] = query[j][q]
           /\ storeFaults' \in 0 .. MaxStoreFaults
<1>1. PICK v \in {"done", "failed"} :
          /\ query' = [query EXCEPT ![i][p] = v]
          /\ v = "done" => p \in graphs'
    BY DEF Lands
<1>2. graphs \subseteq graphs' /\ graphs' \subseteq graphs \cup {p}
    BY DEF Lands
<1>3. storeFaults' \in 0 .. MaxStoreFaults
    BY StoreAssumption DEF StoreTypeOK, StoreFault, Lands
<1>4. /\ query' \in [Inserts -> [Parts -> {"none", "sent", "done", "failed"}]]
      /\ \A j \in Inserts, q \in Parts :
            query'[j][q] = IF j = i /\ q = p THEN v ELSE query[j][q]
    BY <1>1, OneQuery DEF StoreTypeOK
<1> QED BY <1>1, <1>2, <1>3, <1>4

(* A call that still awaits its queries has an attempt left.                *)
AttemptLeft ==
    \A i \in Inserts :
        insertAt[i] \in {"check", "send", "await"} => attempts[i] < InsertRetries

(* The types of the variables are preserved by every step.                 *)
LEMMA StoreTypeStep ==
    StoreTypeOK /\ AttemptLeft /\ [StoreNext]_storeVars => StoreTypeOK' /\ AttemptLeft'
<1> SUFFICES ASSUME StoreTypeOK, AttemptLeft, [StoreNext]_storeVars
             PROVE  StoreTypeOK' /\ AttemptLeft'
    OBVIOUS
<1> USE StoreAssumption DEF insertVars, readVars, Inserts, Reads
<1>1. ASSUME NEW i \in InsertsV8, CheckNamedGraphs(i) PROVE StoreTypeOK' /\ AttemptLeft'
    BY <1>1 DEF CheckNamedGraphs, NamedGraphsExist, InsertGoesTo, StoreTypeOK, AttemptLeft
<1>2. ASSUME NEW i \in InsertsV8, SendQueries(i) PROVE StoreTypeOK' /\ AttemptLeft'
    <2> DEFINE asked == [p \in Parts |-> IF existed[i] /\ p # Metadata THEN "none" ELSE "sent"]
    <2>1. asked \in [Parts -> {"none", "sent", "done", "failed"}]
        OBVIOUS
    <2>2. query' = [query EXCEPT ![i] = asked]
        BY <1>2 DEF SendQueries
    <2> HIDE DEF asked
    <2>3. query' \in [Inserts -> [Parts -> {"none", "sent", "done", "failed"}]]
        BY <2>1, <2>2 DEF StoreTypeOK
    <2> QED BY <1>2, <2>3 DEF SendQueries, InsertGoesTo, StoreTypeOK, AttemptLeft
<1>3. ASSUME NEW i \in InsertsV8, AllDone(i) PROVE StoreTypeOK' /\ AttemptLeft'
    BY <1>3 DEF AllDone, InsertGoesTo, StoreTypeOK, InsertOver, AttemptLeft
<1>4. ASSUME NEW i \in InsertsV8, OneFails(i) PROVE StoreTypeOK' /\ AttemptLeft'
    <2>1. attempts[i] + 1 \in 0 .. InsertRetries
        BY <1>4 DEF OneFails, StoreTypeOK, AttemptLeft
    <2>2. attempts' = [attempts EXCEPT ![i] = attempts[i] + 1]
        BY <1>4 DEF OneFails
    <2>3. attempts' \in [Inserts -> 0 .. InsertRetries]
        BY <2>1, <2>2 DEF StoreTypeOK
    <2>4. AttemptLeft'
        BY <1>4, <2>1 DEF OneFails, InsertGoesTo, StoreTypeOK, AttemptLeft
    <2> QED BY <1>4, <2>3, <2>4 DEF OneFails, InsertGoesTo, StoreTypeOK
<1>5. ASSUME NEW i \in InsertsV8, RollBack(i) PROVE StoreTypeOK' /\ AttemptLeft'
    BY <1>5 DEF RollBack, InsertGoesTo, StoreTypeOK, InsertOver, AttemptLeft
<1>6. ASSUME NEW i \in InsertsV8, NEW p \in Parts, QueryLands(i, p)
      PROVE  StoreTypeOK' /\ AttemptLeft'
    BY <1>6, Landed DEF QueryLands, StoreTypeOK, AttemptLeft
<1>7. ASSUME NEW i \in InsertsV6, CreateV6(i) PROVE StoreTypeOK' /\ AttemptLeft'
    BY <1>7, Landed
       DEF CreateV6, InsertGoesTo, AfterV6, StoreTypeOK, AttemptLeft, InsertOver, Parts,
           Public, Private, Metadata
<1>8. ASSUME NEW r \in Reads, ReadStep(r) PROVE StoreTypeOK' /\ AttemptLeft'
    <2>1. CASE BeginRead(r)
        BY <2>1 DEF BeginRead, Reported, StoreTypeOK, AttemptLeft
    <2>2. CASE GetNamedGraphs(r)
        BY <2>2 DEF GetNamedGraphs, AfterRead, StoreTypeOK, AttemptLeft
    <2>3. CASE GetMetadata(r)
        BY <2>3 DEF GetMetadata, StoreTypeOK, AttemptLeft
    <2>4. CASE ReadFails(r)
        BY <2>4 DEF ReadFails, StoreFault, StoreTypeOK, AttemptLeft
    <2> QED BY <1>8, <2>1, <2>2, <2>3, <2>4 DEF ReadStep
<1>9. CASE UNCHANGED storeVars
    BY <1>9 DEF StoreTypeOK, AttemptLeft, storeVars
<1> QED
    BY <1>1, <1>2, <1>3, <1>4, <1>5, <1>6, <1>7, <1>8, <1>9 DEF StoreNext

LEMMA StoreTypeInit == StoreInit => StoreTypeOK /\ AttemptLeft
BY StoreAssumption
   DEF StoreInit, StoreTypeOK, AttemptLeft, Reads, Inserts, Parts, InsertOver

(* The calls, their queries and the gets always have their types.          *)
THEOREM StoreTypeCorrect == StoreSpec => []StoreTypeOK
BY StoreTypeInit, StoreTypeStep, PTL DEF StoreSpec

-----------------------------------------------------------------------------
(* The inductive invariant.                                                *)

(* What a call has written or found is there: no rollback removes a graph. *)
DoneIsThere ==
    \A i \in Inserts :
        /\ existed[i] => Public \in graphs
        /\ \A p \in Parts : query[i][p] = "done" => p \in graphs

(* A call that awaits its queries sent all that what it found asks for, and *)
(* one that ended well has none left open.                                 *)
SentWhole ==
    \A i \in InsertsV8 :
        insertAt[i] \in {"await", "stored"} =>
            \A p \in Parts :
                /\ query[i][p] = "none" => existed[i] /\ p # Metadata
                /\ insertAt[i] = "stored" => query[i][p] \in {"none", "done"}

(* A call of version 6 has written what comes before the query it is at.   *)
WrittenBefore ==
    \A i \in InsertsV6 :
        /\ ~existed[i]
        /\ insertAt[i] \in InsertOver \cup Parts \cup {"none"}
        /\ insertAt[i] = Private => Public \in graphs
        /\ insertAt[i] = Metadata => {Public, Private} \subseteq graphs
        /\ insertAt[i] = "stored" => graphs = Parts

(* A get that was promised the collection finds all of it at every query.   *)
PromiseHolds ==
    \A r \in Reads : promised[r] =>
        /\ graphs = Parts
        /\ readAt[r] = "private" => r \in LocalReads /\ hasRead[r] = {Public}
        /\ readAt[r] = "end" =>
              hasRead[r] = IF r \in LocalReads THEN {Public, Private} ELSE {Public}

(* A get has read nothing before its first query.                          *)
NothingRead ==
    \A r \in Reads : readAt[r] \in {"idle", "public"} => hasRead[r] = {}

StoreIInv ==
    /\ StoreTypeOK /\ AttemptLeft
    /\ DoneIsThere /\ SentWhole /\ WrittenBefore /\ PromiseHolds /\ NothingRead

(* What the invariant says of the calls that ended well.                   *)
LEMMA StoredWhole ==
    ASSUME StoreIInv
    PROVE  StoredStays /\ StoredIsPublic
<1>1. ASSUME NEW i \in InsertsV8, insertAt[i] = "stored"
      PROVE  {Public, Metadata} \subseteq graphs /\ (~existed[i] => graphs = Parts)
    <2>1. i \in Inserts
        BY DEF Inserts
    <2>2. \A p \in Parts : query[i][p] = "done" \/ (existed[i] /\ p # Metadata)
        BY <1>1 DEF StoreIInv, SentWhole
    <2> QED BY <2>1, <2>2 DEF StoreIInv, DoneIsThere, StoreTypeOK, Parts
<1>2. ASSUME NEW i \in InsertsV6, insertAt[i] = "stored"
      PROVE  {Public, Metadata} \subseteq graphs /\ graphs = Parts
    BY <1>2 DEF StoreIInv, WrittenBefore, Parts
<1> QED BY <1>1, <1>2 DEF StoredStays, StoredIsPublic, Inserts

(* StoreIInv is inductive.                                                  *)
LEMMA StoreInvStep == StoreIInv /\ [StoreNext]_storeVars => StoreIInv'
<1> SUFFICES ASSUME StoreIInv, [StoreNext]_storeVars PROVE StoreIInv'
    OBVIOUS
<1> USE DEF StoreIInv
<1>0. StoreTypeOK' /\ AttemptLeft'
    BY StoreTypeStep
<1> USE StoreAssumption DEF insertVars, readVars, Inserts, Reads
<1>1. ASSUME NEW i \in InsertsV8, CheckNamedGraphs(i) PROVE StoreIInv'
    <2> USE <1>1 DEF CheckNamedGraphs, InsertGoesTo, NamedGraphsExist, StoreTypeOK
    <2>1. DoneIsThere'
        BY DEF DoneIsThere
    <2>2. SentWhole'
        BY DEF SentWhole
    <2>3. WrittenBefore'
        BY DEF WrittenBefore
    <2>4. PromiseHolds' /\ NothingRead'
        BY DEF PromiseHolds, NothingRead
    <2> QED BY <1>0, <2>1, <2>2, <2>3, <2>4
<1>2. ASSUME NEW i \in InsertsV8, SendQueries(i) PROVE StoreIInv'
    <2>0. \A j \in Inserts, p \in Parts :
              query'[j][p] = IF j = i THEN IF existed[i] /\ p # Metadata THEN "none" ELSE "sent"
                                      ELSE query[j][p]
        BY <1>2 DEF SendQueries, StoreTypeOK
    <2> USE <1>2 DEF SendQueries, InsertGoesTo
    <2>1. DoneIsThere'
        BY <2>0 DEF DoneIsThere
    <2>2. SentWhole'
        BY <2>0 DEF SentWhole, StoreTypeOK
    <2>3. WrittenBefore'
        BY DEF WrittenBefore, StoreTypeOK
    <2>4. PromiseHolds' /\ NothingRead'
        BY DEF PromiseHolds, NothingRead
    <2> QED BY <1>0, <2>1, <2>2, <2>3, <2>4
<1>3. ASSUME NEW i \in InsertsV8, AllDone(i) PROVE StoreIInv'
    <2> USE <1>3 DEF AllDone, InsertGoesTo
    <2>1. DoneIsThere'
        BY DEF DoneIsThere
    <2>2. SentWhole'
        BY DEF SentWhole, StoreTypeOK
    <2>3. WrittenBefore'
        BY DEF WrittenBefore, StoreTypeOK
    <2>4. PromiseHolds' /\ NothingRead'
        BY DEF PromiseHolds, NothingRead
    <2> QED BY <1>0, <2>1, <2>2, <2>3, <2>4
<1>4. ASSUME NEW i \in InsertsV8, OneFails(i) PROVE StoreIInv'
    <2> USE <1>4 DEF OneFails, InsertGoesTo
    <2>1. DoneIsThere'
        BY DEF DoneIsThere
    <2>2. SentWhole'
        BY DEF SentWhole, StoreTypeOK
    <2>3. WrittenBefore'
        BY DEF WrittenBefore, StoreTypeOK
    <2>4. PromiseHolds' /\ NothingRead'
        BY DEF PromiseHolds, NothingRead
    <2> QED BY <1>0, <2>1, <2>2, <2>3, <2>4
<1>5. ASSUME NEW i \in InsertsV8, RollBack(i) PROVE StoreIInv'
    <2>0. graphs' = graphs
        BY <1>5 DEF RollBack, Dropped, StoreTypeOK, Parts, Public, Private, Metadata
    <2> USE <1>5 DEF RollBack, InsertGoesTo
    <2>1. DoneIsThere'
        BY <2>0 DEF DoneIsThere
    <2>2. SentWhole'
        BY DEF SentWhole, StoreTypeOK
    <2>3. WrittenBefore'
        BY <2>0 DEF WrittenBefore, StoreTypeOK
    <2>4. PromiseHolds' /\ NothingRead'
        BY <2>0 DEF PromiseHolds, NothingRead
    <2> QED BY <1>0, <2>1, <2>2, <2>3, <2>4
<1>6. ASSUME NEW i \in InsertsV8, NEW p \in Parts, QueryLands(i, p) PROVE StoreIInv'
    <2>0. /\ graphs \subseteq graphs' /\ graphs' \subseteq Parts
          /\ query[i][p] = "sent" /\ query'[i][p] \in {"done", "failed"}
          /\ query'[i][p] = "done" => p \in graphs'
          /\ \A j \in Inserts, q \in Parts :
                j # i \/ q # p => query'[j][q] = query[j][q]
        BY <1>6, Landed DEF QueryLands, StoreTypeOK
    <2> USE <1>6 DEF QueryLands
    <2>1. DoneIsThere'
        BY <2>0 DEF DoneIsThere
    <2>2. SentWhole'
        BY <2>0 DEF SentWhole
    <2>3. WrittenBefore'
        BY <2>0 DEF WrittenBefore
    <2>4. PromiseHolds' /\ NothingRead'
        BY <2>0 DEF PromiseHolds, NothingRead
    <2> QED BY <1>0, <2>1, <2>2, <2>3, <2>4
<1>7. ASSUME NEW i \in InsertsV6, CreateV6(i) PROVE StoreIInv'
    <2>1. PICK p \in Parts :
              /\ insertAt[i] = p /\ Lands(i, p)
              /\ insertAt' = [insertAt EXCEPT
                                ![i] = IF query'[i][p] = "done" THEN AfterV6(p) ELSE "thrown"]
              /\ UNCHANGED <<existed, attempts, readVars>>
        BY <1>7 DEF CreateV6, InsertGoesTo
    <2>0. /\ graphs \subseteq graphs' /\ graphs' \subseteq Parts
          /\ query'[i][p] = "done" => p \in graphs'
          /\ \A j \in Inserts, q \in Parts :
                j # i \/ q # p => query'[j][q] = query[j][q]
        BY <2>1, Landed DEF StoreTypeOK
    <2>2. DoneIsThere'
        BY <2>0, <2>1 DEF DoneIsThere
    <2>3. SentWhole'
        BY <2>0, <2>1 DEF SentWhole, StoreTypeOK
    <2>4. WrittenBefore'
        BY <2>0, <2>1 DEF WrittenBefore, StoreTypeOK, AfterV6, Parts, InsertOver,
                          Public, Private, Metadata
    <2>5. PromiseHolds' /\ NothingRead'
        BY <2>0, <2>1 DEF PromiseHolds, NothingRead
    <2> QED BY <1>0, <2>2, <2>3, <2>4, <2>5
<1>8. ASSUME NEW r \in Reads, ReadStep(r) PROVE StoreIInv'
    <2>1. DoneIsThere' /\ SentWhole' /\ WrittenBefore'
        <3>1. UNCHANGED <<graphs, insertVars>>
            BY <1>8 DEF ReadStep, BeginRead, GetNamedGraphs, GetMetadata, ReadFails
        <3> QED BY <3>1 DEF insertVars, DoneIsThere, SentWhole, WrittenBefore
    <2>2. CASE BeginRead(r)
        <3>1. Reported => graphs = Parts
            BY StoredWhole DEF Reported, StoredStays
        <3>2. PromiseHolds'
            BY <2>2, <3>1 DEF BeginRead, PromiseHolds, StoreTypeOK
        <3>3. NothingRead'
            BY <2>2 DEF BeginRead, NothingRead, StoreTypeOK
        <3> QED BY <1>0, <2>1, <3>2, <3>3
    <2>3. CASE GetNamedGraphs(r)
        <3>1. PromiseHolds'
            <4>1. graphs' = graphs /\ promised' = promised
                BY <2>3 DEF GetNamedGraphs
            <4>2. \A q \in Reads \ {r} : readAt'[q] = readAt[q] /\ hasRead'[q] = hasRead[q]
                BY <2>3 DEF GetNamedGraphs, StoreTypeOK
            <4>3. CASE readAt[r] = "public"
                <5>1. hasRead[r] = {} /\ hasRead'[r] = graphs \cap {Public}
                      /\ readAt'[r] = IF r \in LocalReads THEN "private" ELSE "end"
                    BY <2>3, <4>3 DEF GetNamedGraphs, AfterRead, NothingRead, StoreTypeOK
                <5> QED BY <4>1, <4>2, <5>1 DEF PromiseHolds, Parts
            <4>4. CASE readAt[r] = "private"
                <5>1. hasRead'[r] = hasRead[r] \cup (graphs \cap {Private}) /\ readAt'[r] = "end"
                    BY <2>3, <4>4 DEF GetNamedGraphs, AfterRead, StoreTypeOK, Public, Private
                <5> QED BY <4>1, <4>2, <4>4, <5>1 DEF PromiseHolds, Parts
            <4> QED BY <2>3, <4>3, <4>4 DEF GetNamedGraphs
        <3>2. NothingRead'
            BY <2>3 DEF GetNamedGraphs, AfterRead, NothingRead, StoreTypeOK
        <3> QED BY <1>0, <2>1, <3>1, <3>2
    <2>4. CASE GetMetadata(r)
        BY <1>0, <2>1, <2>4 DEF GetMetadata, PromiseHolds, NothingRead
    <2>5. CASE ReadFails(r)
        BY <1>0, <2>1, <2>5 DEF ReadFails, PromiseHolds, NothingRead, StoreTypeOK
    <2> QED BY <1>8, <2>2, <2>3, <2>4, <2>5 DEF ReadStep
<1>9. CASE UNCHANGED storeVars
    BY <1>0, <1>9 DEF storeVars, DoneIsThere, SentWhole, WrittenBefore, PromiseHolds, NothingRead
<1> QED
    BY <1>1, <1>2, <1>3, <1>4, <1>5, <1>6, <1>7, <1>8, <1>9 DEF StoreNext

LEMMA StoreInvInit == StoreInit => StoreIInv
<1> SUFFICES ASSUME StoreInit PROVE StoreIInv
    OBVIOUS
<1> USE StoreAssumption DEF Inserts, Reads
<1>1. DoneIsThere /\ SentWhole
    BY DEF StoreInit, DoneIsThere, SentWhole, Parts, Public, Private, Metadata
<1>2. WrittenBefore
    BY DEF StoreInit, WrittenBefore, Parts, InsertOver, Public, Private, Metadata
<1>3. PromiseHolds /\ NothingRead
    BY DEF StoreInit, PromiseHolds, NothingRead
<1> QED BY <1>1, <1>2, <1>3, StoreTypeInit DEF StoreIInv

LEMMA StoreHolds == StoreIInv => StoreInv
BY StoredWhole DEF StoreIInv, StoreInv, PromiseHolds, ReadIsWhole

(* What a call reported as stored is there whatever the other calls do, and  *)
(* a get that began afterwards has all of it that it asks for.               *)
THEOREM StoredIsThere == StoreSpec => []StoreInv
BY StoreInvInit, StoreInvStep, StoreHolds, PTL DEF StoreSpec

-----------------------------------------------------------------------------
(* All of them together: a step of one leaves the others as they were.      *)

RequestsIInv == SessionIInv /\ FinIInv /\ StoreIInv /\ CacheIInv /\ ApiIInv

LEMMA PartSteps ==
    [RequestsNext]_allVars =>
        /\ [SessionNext]_sessionVars /\ [FinNext]_finVars /\ [StoreNext]_storeVars
        /\ [CacheNext]_cacheVars /\ [ApiNext]_apiVars
BY DEF RequestsNext, InSessions, InFinalization, InStore, InCache, InApi, allVars, partVars

LEMMA RequestsStart == RequestsInit => RequestsIInv
BY SessionInitial, FinStarts, StoreInvInit, CacheStarts, ApiStarts DEF RequestsInit, RequestsIInv

LEMMA RequestsStep == RequestsIInv /\ [RequestsNext]_allVars => RequestsIInv'
BY PartSteps, SessionStep, FinStep, StoreInvStep, CacheStep, ApiKept DEF RequestsIInv

(* The types of the components that serve requests, each as its module has  *)
(* them, also when the others go on beside it.                              *)
THEOREM RequestsTypeCorrect == RequestsSpec => []RequestsTypeOK
<1>1. RequestsIInv => RequestsTypeOK
    BY ApiTypesHold DEF RequestsIInv, RequestsTypeOK, SessionIInv, FinIInv, StoreIInv, CacheIInv
<1> QED BY <1>1, RequestsStart, RequestsStep, PTL DEF RequestsSpec

(* What the components promise they also promise together.                  *)
THEOREM RequestsCorrect ==
    RequestsSpec => [](SessionInv /\ FinalityInv /\ StoreInv /\ CacheInv /\ ApiInv)
<1>1. RequestsIInv => SessionInv /\ FinalityInv /\ StoreInv /\ CacheInv /\ ApiInv
    BY SessionHolds, FinHolds, StoreHolds, CacheHolds, ApiInvHolds DEF RequestsIInv
<1> QED BY <1>1, RequestsStart, RequestsStep, PTL DEF RequestsSpec

(* Whatever else the node serves, a message between nodes goes the way of
   RequestAnswer, and a verdict a client was told stays. *)
THEOREM RequestsKeepTheirWord == RequestsSpec => ImplementsAnswer /\ VerdictStays
<1>1. RequestsInit => Abstract!AnswerInit
    BY AbstractInit DEF RequestsInit
<1>2. RequestsIInv /\ [RequestsNext]_allVars => [Abstract!AnswerNext]_Abstract!answerVars
    BY PartSteps, ImplementsStep DEF RequestsIInv
<1>3. RequestsIInv /\ [RequestsNext]_allVars =>
        [\A o \in Operations :
          HasVerdict(idStatus[o]) /\ idStatus'[o] # idStatus[o] =>
            /\ requested[o] \in {"get", "ask"}
            /\ controller'[o] # controller[o] \/ caught[o]]_apiVars
    BY PartSteps, VerdictStep DEF RequestsIInv
<1> QED BY <1>1, <1>2, <1>3, RequestsStart, RequestsStep, PTL
        DEF RequestsSpec, ImplementsAnswer, Abstract!AnswerSpec, VerdictStays
=============================================================================
