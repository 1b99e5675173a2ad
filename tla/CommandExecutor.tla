--------------------------- MODULE CommandExecutor ---------------------------
(***************************************************************************)
(* The command executor of the OT-node                                     *)
(* (src/ot-node/src/commands/command-executor.js), the `commands` table it *)
(* persists every command in, and the two kinds of commands the node runs: *)
(*                                                                         *)
(*   - operation commands: a root command is added by an API or RPC        *)
(*     controller; each command of its sequence is inserted as a child of  *)
(*     the previous one (parentId) and pushed when that one is COMPLETED;  *)
(*   - listener commands: the permanent eventListenerCommand keeps adding  *)
(*     one *blocking* blockchainEventListenerCommand per blockchain.       *)
(*                                                                         *)
(* A command is a row of the table (status, chain, parent, steps, retries) *)
(* and, while the process knows it, an in-memory object (pc).  A restart   *)
(* loses every pc and replays what replayOldCommands finds in the table.   *)
(* Steps are cut where the code awaits the database, and any of its calls  *)
(* may throw: _handleError then retries, fails or repeats the command, and *)
(* when a call of its own throws as well the command is let go of with its *)
(* row as it was (the catch at the end of _execute).  What throws outside  *)
(* of all this ends the process, which is a Restart.                       *)
(***************************************************************************)
EXTENDS Integers, FiniteSets

CONSTANTS
    Ids,              \* command ids (UUIDs, an id is reused once nothing names it)
    NoId,             \* "no parent"
    Chains,           \* blockchain ids: the data of a listener command
    NoChain,          \* the chain of an operation command, which is not blocking
    ListenerRetries,  \* MAXIMUM_FETCH_EVENTS_FAILED_COUNT
    OpRetries,        \* retries of an operation command
    SeqLen,           \* length of the sequence of a root command
    Parallelism,      \* COMMAND_QUEUE_PARALLELISM
    CleanBatch,       \* REPOSITORY_ROWS_FOR_REMOVAL_MAX_NUMBER
    MaxOpRows,        \* bound: operation commands in the table, or named by it
    MaxFaults,        \* bound: exceptions thrown by handlers or by the database
    MaxRestarts       \* bound: restarts of the process

ASSUME IdsAssumption == NoId \notin Ids /\ NoChain \notin Chains
ASSUME BoundsAssumption ==
    /\ ListenerRetries \in Nat /\ OpRetries \in Nat /\ SeqLen \in Nat
    /\ Parallelism \in Nat \ {0} /\ CleanBatch \in Nat \ {0}
    /\ MaxOpRows \in Nat /\ MaxFaults \in Nat /\ MaxRestarts \in Nat

VARIABLES
    status,    \* status column; "ABSENT" when there is no such row
    chain,     \* data column of a listener command, NoChain for the others
    parent,    \* parentId column
    steps,     \* length of the sequence column
    retries,   \* retries column
    pc,        \* where the in-memory object of the command is
    producer,  \* the add() of eventListenerCommand, one per blockchain
    producing, \* the permanent eventListenerCommand itself
    replay,    \* rows replayOldCommands read and has not added yet
    paused,    \* the queue is paused (boot)
    faults, restarts

columns == <<status, chain, parent, steps, retries>>
bounds == <<faults, restarts>>
vars == <<status, chain, parent, steps, retries, pc, producer, producing, replay,
          paused, faults, restarts>>

(* COMMAND_STATUS; no command has a deadline and every name resolves, so    *)
(* EXPIRED and UNKNOWN are never written.                                  *)
Finalized == {"COMPLETED", "FAILED"}
Unfinalized == {"PENDING", "STARTED", "REPEATING"}
Statuses == Finalized \cup Unfinalized \cup {"ABSENT"}

(* none      - the process does not hold the command                       *)
(* created   - inserted as a child, pushed when its parent completes       *)
(* waiting   - in a timer or in the priority queue; what is taken out      *)
(*             before readyAt + delay is put back                          *)
(* executing - handler.execute is running                                  *)
(* inserted  - its child is inserted, its own COMPLETED is not written     *)
(* failed    - FAILED is written, handler.recover is running               *)
(* readding  - add(command, delay, false) of a blocking command is about   *)
(*             to read the table; any other is put back without an await   *)
(* erring    - it threw, _handleError has not written its row yet          *)
(* requeuing - as readding, called while an exception is handled           *)
(* lost      - an exception while one was handled: nothing runs it again   *)
(*             before the next boot, its row is not finalized              *)
Places == {"none", "created", "waiting", "executing", "inserted", "failed",
           "readding", "erring", "requeuing", "lost"}
Running == {"executing", "inserted", "failed", "readding", "erring", "requeuing"}

IsBlocking(c) == chain[c] # NoChain

(* Mutant: the query forgets the REPEATING commands.                       *)
UnfinalizedOf_NoRepeating(b) ==
    {c \in Ids : chain[c] = b /\ status[c] \in {"PENDING", "STARTED"}}

(* The rows findUnfinalizedCommandsByName returns for one blockchain.      *)
UnfinalizedOf(b) == {c \in Ids : chain[c] = b /\ status[c] \in Unfinalized}

(* An UPDATE ... WHERE id = c changes nothing when the row was removed.    *)
Updated(c, s) ==
    [status EXCEPT ![c] = IF @ = "ABSENT" THEN "ABSENT" ELSE s]

(* A fresh UUID is nobody's row, object or parent.                         *)
Fresh(c) ==
    /\ status[c] = "ABSENT" /\ pc[c] = "none"
    /\ \A d \in Ids : status[d] # "ABSENT" => parent[d] # c

Init ==
    /\ status = [c \in Ids |-> "ABSENT"]
    /\ chain = [c \in Ids |-> NoChain]
    /\ parent = [c \in Ids |-> NoId]
    /\ steps = [c \in Ids |-> 0]
    /\ retries = [c \in Ids |-> 0]
    /\ pc = [c \in Ids |-> "none"]
    /\ producer = [b \in Chains |-> "idle"]
    /\ producing = "repeating"
    /\ replay = {}
    /\ paused = TRUE
    /\ faults = 0 /\ restarts = 0

-----------------------------------------------------------------------------
(* Adding commands                                                         *)

Insert(c, b, p, n, r) ==
    /\ Fresh(c)
    /\ status' = [status EXCEPT ![c] = "PENDING"]
    /\ chain' = [chain EXCEPT ![c] = b]
    /\ parent' = [parent EXCEPT ![c] = p]
    /\ steps' = [steps EXCEPT ![c] = n]
    /\ retries' = [retries EXCEPT ![c] = r]

(* The bound on the table: a real one grows, and a root command that a      *)
(* restart dropped stays in it for good.  An id that a row names as its    *)
(* parent is taken, also when the parent's row is gone.                    *)
RoomForOperation ==
    Cardinality({d \in Ids :
        \/ status[d] # "ABSENT" /\ ~IsBlocking(d)
        \/ \E e \in Ids : status[e] # "ABSENT" /\ parent[e] = d}) < MaxOpRows

(* A controller adds a root command: insert, then push.                    *)
AddOperation(c) ==
    /\ RoomForOperation
    /\ Insert(c, NoChain, NoId, SeqLen, OpRetries)
    /\ pc' = [pc EXCEPT ![c] = "waiting"]
    /\ UNCHANGED <<producer, producing, replay, paused, bounds>>

(* eventListenerCommand adds the blocking command of b: add() first reads  *)
(* the table and skips when an unfinalized instance is there ...           *)
CheckListener(b) ==
    /\ ~paused
    /\ producing = "repeating"
    /\ producer[b] = "idle"
    /\ UnfinalizedOf(b) = {}
    /\ producer' = [producer EXCEPT ![b] = "checked"]
    /\ UNCHANGED <<columns, pc, producing, replay, paused, bounds>>

(* ... and inserts and pushes it in a later step.                          *)
InsertListener(b, c) ==
    /\ producer[b] = "checked"
    /\ Insert(c, b, NoId, 0, ListenerRetries)
    /\ pc' = [pc EXCEPT ![c] = "waiting"]
    /\ producer' = [producer EXCEPT ![b] = "idle"]
    /\ UNCHANGED <<producing, replay, paused, bounds>>

(* The query or the insert of that add() throws, or a write of the row of  *)
(* eventListenerCommand does; it has no retries, so that it is FAILED and  *)
(* its recover() repeats it ...                                            *)
ProducerThrows(b) ==
    /\ ~paused
    /\ faults < MaxFaults
    /\ faults' = faults + 1
    /\ producer' = [producer EXCEPT ![b] = "idle"]
    /\ producing' = IF producing = "repeating" THEN "erring" ELSE producing
    /\ UNCHANGED <<columns, pc, replay, paused, restarts>>

ProducerRecovers ==
    /\ producing = "erring"
    /\ producing' = "repeating"
    /\ UNCHANGED <<columns, pc, producer, replay, paused, bounds>>

(* ... unless FAILED or REPEATING cannot be written either.                *)
ProducerLost ==
    /\ producing = "erring"
    /\ faults < MaxFaults
    /\ faults' = faults + 1
    /\ producing' = "lost"
    /\ UNCHANGED <<columns, pc, producer, replay, paused, restarts>>

(* Mutant: the check does not pass over the command itself.                *)
Admitted_NotItself(c) ==
    IF IsBlocking(c) /\ UnfinalizedOf(chain[c]) # {} THEN "none" ELSE "waiting"

(* add(command, delay, false): a blocking command is skipped when another  *)
(* unfinalized instance of it exists, any other is pushed.                 *)
Admitted(c) ==
    IF IsBlocking(c) /\ UnfinalizedOf(chain[c]) \ {c} # {}
    THEN "none" ELSE "waiting"

ReAdd(c) ==
    /\ pc[c] \in {"readding", "requeuing"}
    /\ pc' = [pc EXCEPT ![c] = Admitted(c)]
    /\ UNCHANGED <<columns, producer, producing, replay, paused, bounds>>

-----------------------------------------------------------------------------
(* _execute                                                                *)

Start(c) ==
    /\ ~paused
    /\ pc[c] = "waiting"
    /\ Cardinality({d \in Ids : pc[d] \in Running}) < Parallelism
    /\ status' = Updated(c, "STARTED")
    /\ pc' = [pc EXCEPT ![c] = "executing"]
    /\ UNCHANGED <<chain, parent, steps, retries, producer, producing, replay, paused, bounds>>

(* The handler returned Command.empty(), or Command.retry() when no retry  *)
(* is left: retryFinished runs and the command completes without children. *)
Finish(c) ==
    /\ pc[c] = "executing"
    /\ status' = Updated(c, "COMPLETED")
    /\ pc' = [pc EXCEPT ![c] = "none"]
    /\ UNCHANGED <<chain, parent, steps, retries, producer, producing, replay, paused, bounds>>

(* continueSequence: the next command is inserted with parentId = p ...    *)
Continue(p, c) ==
    /\ pc[p] = "executing"
    /\ steps[p] > 0
    /\ RoomForOperation
    /\ Insert(c, NoChain, p, steps[p] - 1, OpRetries)
    /\ pc' = [pc EXCEPT ![p] = "inserted", ![c] = "created"]
    /\ UNCHANGED <<producer, producing, replay, paused, bounds>>

(* ... and pushed once p is COMPLETED.                                     *)
Complete(p) ==
    /\ pc[p] = "inserted"
    /\ status' = Updated(p, "COMPLETED")
    /\ pc' = [d \in Ids |->
                IF d = p THEN "none"
                ELSE IF parent[d] = p /\ pc[d] = "created" THEN "waiting"
                ELSE pc[d]]
    /\ UNCHANGED <<chain, parent, steps, retries, producer, producing, replay, paused, bounds>>

(* The handler returned Command.retry() and retries are left.              *)
Retry(c) ==
    /\ pc[c] = "executing"
    /\ ~IsBlocking(c)
    /\ retries[c] > 1
    /\ status' = Updated(c, "PENDING")
    /\ retries' = [retries EXCEPT ![c] = @ - 1]
    /\ pc' = [pc EXCEPT ![c] = "waiting"]
    /\ UNCHANGED <<chain, parent, steps, producer, producing, replay, paused, bounds>>

(* The listener's transaction was rolled back: it returned Command.repeat() *)
Repeat(c) ==
    /\ pc[c] = "executing"
    /\ IsBlocking(c)
    /\ status' = Updated(c, "REPEATING")
    /\ pc' = [pc EXCEPT ![c] = "readding"]
    /\ UNCHANGED <<chain, parent, steps, retries, producer, producing, replay, paused, bounds>>

-----------------------------------------------------------------------------
(* Exceptions                                                              *)

(* The STARTED update, the handler, an INSERT, the COMPLETED update or, for *)
(* a listener that repeats, the query of add() threw: _execute catches it. *)
(* A child that was inserted stays in the table, its object is dropped.    *)
Throw(c) ==
    /\ \/ pc[c] \in {"executing", "inserted"}
       \/ pc[c] = "readding"
       \/ /\ pc[c] = "waiting" /\ ~paused
          /\ Cardinality({d \in Ids : pc[d] \in Running}) < Parallelism
    /\ faults < MaxFaults
    /\ faults' = faults + 1
    /\ pc' = [d \in Ids |-> IF d = c THEN "erring"
                            ELSE IF parent[d] = c /\ pc[d] = "created" THEN "none"
                            ELSE pc[d]]
    /\ UNCHANGED <<columns, producer, producing, replay, paused, restarts>>

(* What the row has one retry less by: an operation command whose update to *)
(* PENDING threw in _handleRetry has taken one off in memory before.       *)
Spent(c) ==
    IF ~IsBlocking(c) /\ status[c] = "STARTED" /\ retries[c] > 1 THEN {1, 2} ELSE {1}

(* Mutant: `retries >= 0` instead of `retries > 0`.                        *)
HandleError_OneTooMany(c) ==
    /\ pc[c] = "erring"
    /\ retries' = [retries EXCEPT ![c] = @ - 1]
    /\ pc' = [pc EXCEPT ![c] = "waiting"]
    /\ UNCHANGED <<status, chain, parent, steps, producer, producing, replay, paused,
                   bounds>>

(* _handleError: a retry is taken off the row and the command added again,  *)
(* or FAILED is written and recover() called.                              *)
HandleError(c) ==
    /\ pc[c] = "erring"
    /\ \/ /\ retries[c] > 0
          /\ \E n \in Spent(c) : retries' = [retries EXCEPT ![c] = @ - n]
          /\ pc' = [pc EXCEPT ![c] = IF IsBlocking(c) THEN "requeuing" ELSE "waiting"]
          /\ UNCHANGED status
       \/ /\ retries[c] = 0
          /\ status' = Updated(c, "FAILED")
          /\ pc' = [pc EXCEPT ![c] = "failed"]
          /\ UNCHANGED retries
    /\ UNCHANGED <<chain, parent, steps, producer, producing, replay, paused, bounds>>

(* recover() of an operation command returns Command.empty() and leaves the *)
(* row FAILED, that of a listener command returns Command.repeat().        *)
Recover(c) ==
    /\ pc[c] = "failed"
    /\ \/ /\ ~IsBlocking(c)
          /\ pc' = [pc EXCEPT ![c] = "none"]
          /\ UNCHANGED status
       \/ /\ IsBlocking(c)
          /\ status' = Updated(c, "REPEATING")
          /\ pc' = [pc EXCEPT ![c] = "requeuing"]
    /\ UNCHANGED <<chain, parent, steps, retries, producer, producing, replay, paused,
                   bounds>>

(* One of the writes above, or the query of add() after them, throws: the  *)
(* exception is logged and nothing else happens to the command.            *)
HandlingFails(c) ==
    /\ pc[c] \in {"erring", "requeuing"} \/ (pc[c] = "failed" /\ IsBlocking(c))
    /\ faults < MaxFaults
    /\ faults' = faults + 1
    /\ pc' = [pc EXCEPT ![c] = IF status[c] \in Unfinalized THEN "lost" ELSE "none"]
    /\ UNCHANGED <<columns, producer, producing, replay, paused, restarts>>

-----------------------------------------------------------------------------
(* The commands cleaner, crash and restart                                 *)

(* commandsCleanerCommand removes the finalized rows in pages of CleanBatch. *)
Clean ==
    /\ ~paused
    /\ \E S \in SUBSET {c \in Ids : status[c] \in Finalized} :
          /\ Cardinality(S) = CleanBatch
          /\ status' = [c \in Ids |-> IF c \in S THEN "ABSENT" ELSE status[c]]
    /\ UNCHANGED <<chain, parent, steps, retries, pc, producer, producing, replay, paused, bounds>>

(* Mutants: the replay ignores the status of the parent; reads commands of *)
(* any status; needs the row of the parent; knows only children.           *)
Replayable_AnyParent(c) ==
    status[c] \in Unfinalized /\ (IsBlocking(c) \/ parent[c] # NoId)
Replayable_AnyStatus(c) ==
    /\ status[c] # "ABSENT"
    /\ IsBlocking(c) \/ (parent[c] # NoId /\ status[parent[c]] = "COMPLETED")
Replayable_ParentKept(c) ==
    /\ status[c] \in Unfinalized
    /\ IsBlocking(c) \/ (parent[c] # NoId /\ status[parent[c]] = "COMPLETED")
Replayable_ChildrenOnly(c) ==
    /\ status[c] \in Unfinalized
    /\ parent[c] # NoId /\ status[parent[c]] \in {"ABSENT", "COMPLETED"}

(* The rows replayOldCommands adds again: the blocking ones, and those     *)
(* whose parent is COMPLETED or gone; a root command is not replayed.      *)
Replayable(c) ==
    /\ status[c] \in Unfinalized
    /\ \/ IsBlocking(c)
       \/ /\ parent[c] # NoId
          /\ status[parent[c]] \in {"ABSENT", "COMPLETED"}

(* The process dies and boots: everything in memory is lost, the queue is  *)
(* paused, the permanent commands are created anew, and replayOldCommands  *)
(* reads the table before anything runs.                                   *)
Restart ==
    /\ restarts < MaxRestarts
    /\ restarts' = restarts + 1
    /\ pc' = [c \in Ids |-> "none"]
    /\ producer' = [b \in Chains |-> "idle"]
    /\ producing' = "repeating"
    /\ paused' = TRUE
    /\ replay' = {c \in Ids : Replayable(c)}
    /\ UNCHANGED <<columns, faults>>

ReplayAdd(c) ==
    /\ c \in replay
    /\ replay' = replay \ {c}
    /\ pc' = [pc EXCEPT ![c] = Admitted(c)]
    /\ UNCHANGED <<columns, producer, producing, paused, bounds>>

(* ot-node.js resumes the queue without waiting for the replay.            *)
Resume ==
    /\ paused
    /\ paused' = FALSE
    /\ UNCHANGED <<columns, pc, producer, producing, replay, bounds>>

-----------------------------------------------------------------------------
(* How the handler of c ends when nothing throws.                          *)
HandlerEnds(c) ==
    \/ Finish(c)
    \/ \E d \in Ids : Continue(c, d)
    \/ Retry(c)
    \/ Repeat(c)

Next ==
    \/ \E c \in Ids :
          \/ AddOperation(c) \/ ReAdd(c) \/ Start(c) \/ HandlerEnds(c)
          \/ Complete(c) \/ Throw(c) \/ HandleError(c) \/ Recover(c)
          \/ HandlingFails(c) \/ ReplayAdd(c)
    \/ \E b \in Chains :
          \/ CheckListener(b) \/ ProducerThrows(b)
          \/ \E c \in Ids : InsertListener(b, c)
    \/ ProducerRecovers \/ ProducerLost \/ Clean \/ Restart \/ Resume

Spec == Init /\ [][Next]_vars

(* Timers fire, handlers end, database calls return, eventListenerCommand  *)
(* and the cleaner repeat (a cleaner that is lost leaves rows behind, of   *)
(* which a real table has room for more); nothing forces a request, a      *)
(* fault or a restart.                                                     *)
Fairness ==
    /\ \A c \in Ids :
          /\ WF_vars(ReAdd(c)) /\ SF_vars(Start(c)) /\ WF_vars(HandlerEnds(c))
          /\ WF_vars(Complete(c)) /\ WF_vars(HandleError(c)) /\ WF_vars(Recover(c))
          /\ WF_vars(ReplayAdd(c))
    /\ \A b \in Chains :
          /\ WF_vars(CheckListener(b))
          /\ SF_vars(\E c \in Ids : InsertListener(b, c))
    /\ WF_vars(ProducerRecovers) /\ WF_vars(Resume) /\ WF_vars(Clean)

FairSpec == Spec /\ Fairness

-----------------------------------------------------------------------------
(* Properties                                                              *)

TypeOK ==
    /\ status \in [Ids -> Statuses]
    /\ chain \in [Ids -> Chains \cup {NoChain}]
    /\ parent \in [Ids -> Ids \cup {NoId}]
    /\ steps \in [Ids -> Nat]
    /\ retries \in [Ids -> Nat]
    /\ pc \in [Ids -> Places]
    /\ producer \in [Chains -> {"idle", "checked"}]
    /\ producing \in {"repeating", "erring", "lost"}
    /\ replay \in SUBSET Ids
    /\ paused \in BOOLEAN
    /\ faults \in Nat /\ restarts \in Nat

Existing(c) == status[c] # "ABSENT"

(* A command of a sequence runs, or is about to, only after the command    *)
(* before it is COMPLETED (its row may have been cleaned since): neither a *)
(* retry of the parent nor a replay of an orphan child runs it early.      *)
ParentFirst ==
    \A c \in Ids :
        (Existing(c) /\ parent[c] # NoId
            /\ (c \in replay \/ pc[c] \in Places \ {"none", "created"}))
        => status[parent[c]] \in {"COMPLETED", "ABSENT"}

(* A COMPLETED command is over: the process holds no object that could run *)
(* it again or overwrite its status, and no replay has read it as pending. *)
CompletedIsOver ==
    \A c \in Ids : status[c] = "COMPLETED" => pc[c] = "none" /\ c \notin replay

(* The retries of c are used up, so it may go through FAILED and back.     *)
Exhausted(c) == retries[c] = 0

(* The blocking check of add() keeps one instance of the listener of a     *)
(* blockchain, in the table or in memory, across retries and restarts, as  *)
(* long as none has used up its retries.                                   *)
OneListener ==
    \A c, d \in Ids :
        (/\ c # d /\ IsBlocking(c) /\ chain[c] = chain[d]
         /\ status[c] \in Unfinalized \/ pc[c] # "none"
         /\ status[d] \in Unfinalized \/ pc[d] # "none")
        => Exhausted(c) \/ Exhausted(d)

(* Outside of a restart the process lets go of a command only when the     *)
(* command is finalized, with two exceptions.  A listener that shares its  *)
(* blockchain with one that used up its retries may be skipped with its    *)
(* row left pending.  And while an exception is handled another one may    *)
(* lose the command: never a single exception, and a listener or a child   *)
(* that is lost has a row that the next boot replays.                      *)
NoSilentDrop ==
    [][\A c \in Ids :
          (/\ pc[c] \in Places \ {"none", "created", "lost"} /\ pc'[c] \in {"none", "lost"}
           /\ restarts' = restarts)
          => \/ status'[c] \in Finalized \cup {"ABSENT"}
             \/ IsBlocking(c) /\ \E d \in Ids : chain[d] = chain[c] /\ Exhausted(d)
             \/ /\ pc[c] \in {"erring", "requeuing"} /\ faults' > faults
                /\ IsBlocking(c) \/ parent[c] # NoId => Replayable(c)']_vars

(* A sequence survives restarts and exceptions: a child whose parent has   *)
(* completed, and which is in memory or waits to be replayed, is finalized *)
(* in the end, unless an exception during the handling of another one      *)
(* loses it; and after the restart that follows it is owed again.  (A      *)
(* child of an execution that did not complete has no such claim: its      *)
(* parent inserted, or will insert, another one.)                          *)
Owed(c) ==
    /\ Existing(c) /\ parent[c] # NoId
    /\ c \in replay \/ pc[c] \in Places \ {"none", "created", "lost"}
SequenceGoesOn ==
    \A c \in Ids :
        Owed(c) ~> (status[c] \in Finalized \cup {"ABSENT"} \/ pc[c] = "lost")

(* What a second exception has cut off until the next boot: the listener   *)
(* command of b, or eventListenerCommand while b has none.                 *)
CutOff(b) ==
    \/ \E c \in Ids : chain[c] = b /\ pc[c] = "lost"
    \/ producing = "lost" /\ \A c \in Ids : chain[c] = b => pc[c] = "none"

(* Every blockchain keeps being listened to: its listener command runs     *)
(* again and again, across exceptions, retries and restarts, as long as    *)
(* none has used up its retries and it is not cut off for good.            *)
ListenersKeepRunning ==
    \A b \in Chains :
        [](\A c \in Ids : chain[c] = b => ~Exhausted(c))
            => []<>(CutOff(b) \/ \E c \in Ids : chain[c] = b /\ pc[c] = "executing")

(* The same for a blockchain that is never cut off, without the proviso    *)
(* about retries: after the last one recover(), "Recover system from       *)
(* failure" (blockchain-event-listener-command.js), lets the listener      *)
(* command repeat, so its blockchain is still listened to.                 *)
AlwaysListening ==
    \A b \in Chains :
        []~CutOff(b)
            => []<>(\E c \in Ids : chain[c] = b /\ pc[c] = "executing")
=============================================================================
