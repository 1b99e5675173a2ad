------------------------ MODULE CommandExecutorProofs ------------------------
(***************************************************************************)
(* Proofs about CommandExecutor, for every value of its constants: type    *)
(* correctness, and the inductive invariant behind ParentFirst,            *)
(* CompletedIsOver, OneListener and NoSilentDrop.                          *)
(***************************************************************************)
EXTENDS CommandExecutor, TLAPS

(* Every action that adds a row only changes the columns of that row.      *)
LEMMA InsertTypes ==
    ASSUME TypeOK, NEW c \in Ids, NEW b \in Chains \cup {NoChain},
           NEW p \in Ids \cup {NoId}, NEW n \in Nat, NEW r \in Nat,
           Insert(c, b, p, n, r)
    PROVE  /\ status' \in [Ids -> Statuses]
           /\ chain' \in [Ids -> Chains \cup {NoChain}]
           /\ parent' \in [Ids -> Ids \cup {NoId}]
           /\ steps' \in [Ids -> Nat]
           /\ retries' \in [Ids -> Nat]
BY DEF TypeOK, Insert, Statuses, Unfinalized

(* The updates of one status column stay within the statuses.              *)
LEMMA UpdatedTypes ==
    ASSUME TypeOK, NEW c \in Ids, NEW s \in Statuses
    PROVE  Updated(c, s) \in [Ids -> Statuses]
BY DEF TypeOK, Updated, Statuses

(* The types of the variables are preserved by every step.                 *)
LEMMA TypeStep == TypeOK /\ [Next]_vars => TypeOK'
<1> SUFFICES ASSUME TypeOK, [Next]_vars PROVE TypeOK'
    OBVIOUS
<1> USE IdsAssumption, BoundsAssumption
<1>1. ASSUME NEW c \in Ids, AddOperation(c) PROVE TypeOK'
    <2>1. Insert(c, NoChain, NoId, SeqLen, OpRetries)
        BY <1>1 DEF AddOperation
    <2> QED BY <1>1, <2>1, InsertTypes DEF AddOperation, TypeOK, Places, bounds
<1>2. ASSUME NEW b \in Chains, CheckListener(b) PROVE TypeOK'
    BY <1>2 DEF CheckListener, TypeOK, columns, bounds
<1>3. ASSUME NEW b \in Chains, NEW c \in Ids, InsertListener(b, c) PROVE TypeOK'
    <2>1. Insert(c, b, NoId, 0, ListenerRetries)
        BY <1>3 DEF InsertListener
    <2> QED BY <1>3, <2>1, InsertTypes DEF InsertListener, TypeOK, Places, bounds
<1>4. ASSUME NEW c \in Ids, ReAdd(c) PROVE TypeOK'
    BY <1>4 DEF ReAdd, Admitted, TypeOK, Places, columns, bounds
<1>5. ASSUME NEW c \in Ids, Start(c) PROVE TypeOK'
    BY <1>5, UpdatedTypes DEF Start, TypeOK, Places, Statuses, Unfinalized, bounds
<1>6. ASSUME NEW b \in Chains, ProducerThrows(b) PROVE TypeOK'
    BY <1>6 DEF ProducerThrows, TypeOK, columns
<1>6a. ASSUME ProducerRecovers PROVE TypeOK'
    BY <1>6a DEF ProducerRecovers, TypeOK, columns, bounds
<1>6b. ASSUME ProducerLost PROVE TypeOK'
    BY <1>6b DEF ProducerLost, TypeOK, columns
<1>7. ASSUME NEW c \in Ids, Finish(c) PROVE TypeOK'
    BY <1>7, UpdatedTypes DEF Finish, TypeOK, Places, Statuses, Finalized, bounds
<1>8. ASSUME NEW p \in Ids, NEW c \in Ids, Continue(p, c) PROVE TypeOK'
    <2>1. Insert(c, NoChain, p, steps[p] - 1, OpRetries)
        BY <1>8 DEF Continue
    <2>2. steps[p] - 1 \in Nat
        BY <1>8 DEF Continue, TypeOK
    <2> QED BY <1>8, <2>1, <2>2, InsertTypes DEF Continue, TypeOK, Places, bounds
<1>9. ASSUME NEW c \in Ids, Complete(c) PROVE TypeOK'
    BY <1>9, UpdatedTypes DEF Complete, TypeOK, Places, Statuses, Finalized, bounds
<1>10. ASSUME NEW c \in Ids, Retry(c) PROVE TypeOK'
    BY <1>10, UpdatedTypes DEF Retry, TypeOK, Places, Statuses, Unfinalized, bounds
<1>11. ASSUME NEW c \in Ids, Repeat(c) PROVE TypeOK'
    BY <1>11, UpdatedTypes DEF Repeat, TypeOK, Places, Statuses, Unfinalized, bounds
<1>12. ASSUME NEW c \in Ids, Throw(c) PROVE TypeOK'
    BY <1>12 DEF Throw, TypeOK, Places, columns
<1>12a. ASSUME NEW c \in Ids, HandleError(c) PROVE TypeOK'
    <2>1. pc' \in [Ids -> Places]
        BY <1>12a DEF HandleError, TypeOK, Places
    <2>2. CASE /\ retries[c] > 0 /\ status' = status
               /\ \E n \in Spent(c) : retries' = [retries EXCEPT ![c] = @ - n]
        <3>1. PICK n \in Spent(c) : retries' = [retries EXCEPT ![c] = @ - n]
            BY <2>2
        <3>2. retries[c] \in Nat /\ n \in {1, 2} /\ (n = 2 => retries[c] > 1)
            BY DEF Spent, TypeOK
        <3>3. retries[c] - n \in Nat
            BY <2>2, <3>2
        <3> QED BY <1>12a, <2>1, <2>2, <3>1, <3>3 DEF HandleError, TypeOK, bounds
    <2>3. CASE retries' = retries /\ status' = Updated(c, "FAILED")
        <3>1. status' \in [Ids -> Statuses]
            BY <2>3, UpdatedTypes DEF Statuses, Finalized
        <3> QED BY <1>12a, <2>1, <2>3, <3>1 DEF HandleError, TypeOK, bounds
    <2> QED BY <1>12a, <2>2, <2>3 DEF HandleError
<1>12b. ASSUME NEW c \in Ids, HandlingFails(c) PROVE TypeOK'
    BY <1>12b DEF HandlingFails, TypeOK, Places, columns
<1>13. ASSUME NEW c \in Ids, Recover(c) PROVE TypeOK'
    <2>1. status' \in [Ids -> Statuses]
        BY <1>13, UpdatedTypes DEF Recover, TypeOK, Statuses, Unfinalized
    <2>2. pc' \in [Ids -> Places]
        BY <1>13 DEF Recover, TypeOK, Places
    <2> QED BY <1>13, <2>1, <2>2 DEF Recover, TypeOK, bounds
<1>14. ASSUME Clean PROVE TypeOK'
    BY <1>14 DEF Clean, TypeOK, Statuses, bounds
<1>15. ASSUME Restart PROVE TypeOK'
    BY <1>15 DEF Restart, TypeOK, Places, columns
<1>16. ASSUME NEW c \in Ids, ReplayAdd(c) PROVE TypeOK'
    BY <1>16 DEF ReplayAdd, Admitted, TypeOK, Places, columns, bounds
<1>17. ASSUME Resume PROVE TypeOK'
    BY <1>17 DEF Resume, TypeOK, columns, bounds
<1>18. CASE UNCHANGED vars
    BY <1>18 DEF TypeOK, vars
<1> QED
    BY <1>1, <1>2, <1>3, <1>4, <1>5, <1>6, <1>6a, <1>6b, <1>7, <1>8, <1>9, <1>10,
       <1>11, <1>12, <1>12a, <1>12b, <1>13, <1>14, <1>15, <1>16, <1>17, <1>18
       DEF Next, HandlerEnds

(* The variables of the executor always have their types.                  *)
THEOREM TypeCorrect == Spec => []TypeOK
<1>1. Init => TypeOK
    BY IdsAssumption DEF Init, TypeOK, Statuses, Places
<1> QED BY <1>1, TypeStep, PTL DEF Spec

-----------------------------------------------------------------------------
(* The inductive invariant.                                                *)

(* A row that waits to be replayed is unfinalized and in nobody's memory.  *)
ReplayPending ==
    \A c \in replay : status[c] \in Unfinalized /\ pc[c] = "none"

(* Listener commands are root commands.                                    *)
ListenersAreRoots == \A c \in Ids : IsBlocking(c) => parent[c] = NoId

(* A command whose recover() runs has FAILED in its row, if it has a row,   *)
(* and the process holds no other command whose row says so.               *)
FailedIsWritten ==
    \A c \in Ids :
        /\ pc[c] = "failed" => status[c] \in {"FAILED", "ABSENT"}
        /\ status[c] = "FAILED" => pc[c] \in {"failed", "none"}

Present(c) == status[c] \in Unfinalized \/ pc[c] # "none"

(* A listener the process holds although its row is finalized (or cleaned)  *)
(* went through FAILED, so it has used up its retries.                     *)
RecoveringExhausted ==
    \A c \in Ids :
        IsBlocking(c) /\ pc[c] # "none" /\ status[c] \notin Unfinalized
        => Exhausted(c)

(* Between the check and the insert of a listener command no other one of  *)
(* its blockchain appears, except those that used up their retries.        *)
CheckedAlone ==
    \A b \in Chains : producer[b] = "checked" =>
        \A c \in Ids : chain[c] = b /\ Present(c) => Exhausted(c)

IInv ==
    /\ TypeOK
    /\ ParentFirst /\ CompletedIsOver /\ ReplayPending /\ ListenersAreRoots
    /\ FailedIsWritten /\ RecoveringExhausted /\ CheckedAlone /\ OneListener

(* IInv is inductive.                                                      *)
LEMMA InvStep == IInv /\ [Next]_vars => IInv'
<1> SUFFICES ASSUME IInv, [Next]_vars PROVE IInv'
    OBVIOUS
<1> USE IdsAssumption DEF IInv
<1>1. TypeOK'
    BY TypeStep
<1>2. ASSUME NEW c \in Ids, AddOperation(c) PROVE IInv'
    <2>1. ParentFirst'
        BY <1>2 DEF AddOperation, Insert, ParentFirst, Existing, Fresh, TypeOK
    <2>2. CompletedIsOver'
        BY <1>2 DEF AddOperation, Insert, CompletedIsOver, TypeOK
    <2>3. ReplayPending'
        BY <1>2 DEF AddOperation, Insert, ReplayPending, Fresh, Unfinalized
    <2>4. ListenersAreRoots'
        BY <1>2 DEF AddOperation, Insert, ListenersAreRoots, IsBlocking
    <2>5. FailedIsWritten'
        BY <1>2 DEF AddOperation, Insert, FailedIsWritten, TypeOK
    <2>6. RecoveringExhausted'
        BY <1>2 DEF AddOperation, Insert, RecoveringExhausted, IsBlocking,
           Exhausted, TypeOK
    <2>7. CheckedAlone'
        BY <1>2 DEF AddOperation, Insert, CheckedAlone, Present, Exhausted, TypeOK
    <2>8. OneListener'
        BY <1>2 DEF AddOperation, Insert, OneListener, IsBlocking, Exhausted,
           TypeOK
    <2> QED BY <1>1, <2>1, <2>2, <2>3, <2>4, <2>5, <2>6, <2>7, <2>8
<1>3. ASSUME NEW b \in Chains, CheckListener(b) PROVE IInv'
    <2>1. ParentFirst'
        BY <1>3 DEF CheckListener, UnfinalizedOf, ParentFirst, Existing, columns
    <2>2. CompletedIsOver'
        BY <1>3 DEF CheckListener, UnfinalizedOf, CompletedIsOver, columns
    <2>3. ReplayPending'
        BY <1>3 DEF CheckListener, UnfinalizedOf, ReplayPending, columns
    <2>4. ListenersAreRoots'
        BY <1>3 DEF CheckListener, UnfinalizedOf, ListenersAreRoots, IsBlocking,
           columns
    <2>5. FailedIsWritten'
        BY <1>3 DEF CheckListener, UnfinalizedOf, FailedIsWritten, columns
    <2>6. RecoveringExhausted'
        BY <1>3 DEF CheckListener, UnfinalizedOf, RecoveringExhausted, IsBlocking,
           Exhausted, columns
    <2>7. CheckedAlone'
        BY <1>3 DEF CheckListener, UnfinalizedOf, CheckedAlone, Present, Exhausted,
           RecoveringExhausted, IsBlocking, columns
    <2>8. OneListener'
        BY <1>3 DEF CheckListener, UnfinalizedOf, OneListener, IsBlocking,
           Exhausted, columns
    <2> QED BY <1>1, <2>1, <2>2, <2>3, <2>4, <2>5, <2>6, <2>7, <2>8
<1>4. ASSUME NEW b \in Chains, NEW c \in Ids, InsertListener(b, c) PROVE IInv'
    <2>1. ParentFirst'
        BY <1>4 DEF InsertListener, Insert, ParentFirst, Existing, Fresh, TypeOK
    <2>2. CompletedIsOver'
        BY <1>4 DEF InsertListener, Insert, CompletedIsOver, TypeOK
    <2>3. ReplayPending'
        BY <1>4 DEF InsertListener, Insert, ReplayPending, Fresh, Unfinalized
    <2>4. ListenersAreRoots'
        BY <1>4 DEF InsertListener, Insert, ListenersAreRoots, IsBlocking, TypeOK
    <2>5. FailedIsWritten'
        BY <1>4 DEF InsertListener, Insert, FailedIsWritten, TypeOK
    <2>6. RecoveringExhausted'
        BY <1>4 DEF InsertListener, Insert, RecoveringExhausted, IsBlocking,
           Exhausted, TypeOK, Unfinalized
    <2>7. CheckedAlone'
        BY <1>4 DEF InsertListener, Insert, CheckedAlone, Present, Exhausted,
           TypeOK
    <2>8. OneListener'
        BY <1>4 DEF InsertListener, Insert, OneListener, IsBlocking, Exhausted,
           CheckedAlone, Present, TypeOK
    <2> QED BY <1>1, <2>1, <2>2, <2>3, <2>4, <2>5, <2>6, <2>7, <2>8
<1>5. ASSUME NEW c \in Ids, ReAdd(c) PROVE IInv'
    <2>1. ParentFirst'
        BY <1>5 DEF ReAdd, Admitted, ParentFirst, Existing, Places, columns
    <2>2. CompletedIsOver'
        BY <1>5 DEF ReAdd, Admitted, CompletedIsOver, columns
    <2>3. ReplayPending'
        BY <1>5 DEF ReAdd, Admitted, ReplayPending, columns
    <2>4. ListenersAreRoots'
        BY <1>5 DEF ReAdd, Admitted, ListenersAreRoots, IsBlocking, columns
    <2>5. FailedIsWritten'
        BY <1>5 DEF ReAdd, Admitted, FailedIsWritten, columns
    <2>6. RecoveringExhausted'
        BY <1>5 DEF ReAdd, Admitted, RecoveringExhausted, IsBlocking, Exhausted,
           columns
    <2>7. CheckedAlone'
        BY <1>5 DEF ReAdd, Admitted, CheckedAlone, Present, Exhausted, columns
    <2>8. OneListener'
        BY <1>5 DEF ReAdd, Admitted, OneListener, IsBlocking, Exhausted, columns
    <2> QED BY <1>1, <2>1, <2>2, <2>3, <2>4, <2>5, <2>6, <2>7, <2>8
<1>6. ASSUME NEW c \in Ids, Start(c) PROVE IInv'
    <2>1. ParentFirst'
        BY <1>6 DEF Start, Updated, ParentFirst, Existing, CompletedIsOver, Places
    <2>2. CompletedIsOver'
        BY <1>6 DEF Start, Updated, CompletedIsOver
    <2>3. ReplayPending'
        BY <1>6 DEF Start, Updated, ReplayPending
    <2>4. ListenersAreRoots'
        BY <1>6 DEF Start, Updated, ListenersAreRoots, IsBlocking
    <2>5. FailedIsWritten'
        BY <1>6 DEF Start, Updated, FailedIsWritten
    <2>6. RecoveringExhausted'
        BY <1>6 DEF Start, Updated, RecoveringExhausted, IsBlocking, Exhausted,
           Unfinalized
    <2>7. CheckedAlone'
        BY <1>6 DEF Start, Updated, CheckedAlone, Present, Exhausted
    <2>8. OneListener'
        BY <1>6 DEF Start, Updated, OneListener, IsBlocking, Exhausted
    <2> QED BY <1>1, <2>1, <2>2, <2>3, <2>4, <2>5, <2>6, <2>7, <2>8
<1>7. ASSUME NEW b \in Chains, ProducerThrows(b) PROVE IInv'
    <2>1. ParentFirst'
        BY <1>7 DEF ProducerThrows, ParentFirst, Existing, Places, columns
    <2>2. CompletedIsOver'
        BY <1>7 DEF ProducerThrows, CompletedIsOver, columns
    <2>3. ReplayPending'
        BY <1>7 DEF ProducerThrows, ReplayPending, columns
    <2>4. ListenersAreRoots'
        BY <1>7 DEF ProducerThrows, ListenersAreRoots, IsBlocking, columns
    <2>5. FailedIsWritten'
        BY <1>7 DEF ProducerThrows, FailedIsWritten, columns
    <2>6. RecoveringExhausted'
        BY <1>7 DEF ProducerThrows, RecoveringExhausted, IsBlocking, Exhausted, columns
    <2>7. CheckedAlone'
        BY <1>7 DEF ProducerThrows, CheckedAlone, Present, Exhausted, TypeOK, columns
    <2>8. OneListener'
        BY <1>7 DEF ProducerThrows, OneListener, IsBlocking, Exhausted, columns
    <2> QED BY <1>1, <2>1, <2>2, <2>3, <2>4, <2>5, <2>6, <2>7, <2>8
<1>7a. ASSUME ProducerRecovers PROVE IInv'
    <2>1. ParentFirst'
        BY <1>7a DEF ProducerRecovers, ParentFirst, Existing, Places, columns
    <2>2. CompletedIsOver'
        BY <1>7a DEF ProducerRecovers, CompletedIsOver, columns
    <2>3. ReplayPending'
        BY <1>7a DEF ProducerRecovers, ReplayPending, columns
    <2>4. ListenersAreRoots'
        BY <1>7a DEF ProducerRecovers, ListenersAreRoots, IsBlocking, columns
    <2>5. FailedIsWritten'
        BY <1>7a DEF ProducerRecovers, FailedIsWritten, columns
    <2>6. RecoveringExhausted'
        BY <1>7a DEF ProducerRecovers, RecoveringExhausted, IsBlocking, Exhausted, columns
    <2>7. CheckedAlone'
        BY <1>7a DEF ProducerRecovers, CheckedAlone, Present, Exhausted, columns
    <2>8. OneListener'
        BY <1>7a DEF ProducerRecovers, OneListener, IsBlocking, Exhausted, columns
    <2> QED BY <1>1, <2>1, <2>2, <2>3, <2>4, <2>5, <2>6, <2>7, <2>8
<1>7b. ASSUME ProducerLost PROVE IInv'
    <2>1. ParentFirst'
        BY <1>7b DEF ProducerLost, ParentFirst, Existing, Places, columns
    <2>2. CompletedIsOver'
        BY <1>7b DEF ProducerLost, CompletedIsOver, columns
    <2>3. ReplayPending'
        BY <1>7b DEF ProducerLost, ReplayPending, columns
    <2>4. ListenersAreRoots'
        BY <1>7b DEF ProducerLost, ListenersAreRoots, IsBlocking, columns
    <2>5. FailedIsWritten'
        BY <1>7b DEF ProducerLost, FailedIsWritten, columns
    <2>6. RecoveringExhausted'
        BY <1>7b DEF ProducerLost, RecoveringExhausted, IsBlocking, Exhausted, columns
    <2>7. CheckedAlone'
        BY <1>7b DEF ProducerLost, CheckedAlone, Present, Exhausted, columns
    <2>8. OneListener'
        BY <1>7b DEF ProducerLost, OneListener, IsBlocking, Exhausted, columns
    <2> QED BY <1>1, <2>1, <2>2, <2>3, <2>4, <2>5, <2>6, <2>7, <2>8
<1>8. ASSUME NEW c \in Ids, Finish(c) PROVE IInv'
    <2>1. ParentFirst'
        BY <1>8 DEF Finish, Updated, ParentFirst, Existing
    <2>2. CompletedIsOver'
        BY <1>8 DEF Finish, Updated, CompletedIsOver, ReplayPending, TypeOK
    <2>3. ReplayPending'
        BY <1>8 DEF Finish, Updated, ReplayPending
    <2>4. ListenersAreRoots'
        BY <1>8 DEF Finish, Updated, ListenersAreRoots, IsBlocking
    <2>5. FailedIsWritten'
        BY <1>8 DEF Finish, Updated, FailedIsWritten
    <2>6. RecoveringExhausted'
        BY <1>8 DEF Finish, Updated, RecoveringExhausted, IsBlocking, Exhausted,
           TypeOK
    <2>7. CheckedAlone'
        BY <1>8 DEF Finish, Updated, CheckedAlone, Present, Exhausted
    <2>8. OneListener'
        BY <1>8 DEF Finish, Updated, OneListener, IsBlocking, Exhausted
    <2> QED BY <1>1, <2>1, <2>2, <2>3, <2>4, <2>5, <2>6, <2>7, <2>8
<1>9. ASSUME NEW p \in Ids, NEW c \in Ids, Continue(p, c) PROVE IInv'
    <2>1. ParentFirst'
        BY <1>9 DEF Continue, Insert, ParentFirst, Existing, ReplayPending, Fresh,
           TypeOK, Unfinalized
    <2>2. CompletedIsOver'
        BY <1>9 DEF Continue, Insert, CompletedIsOver, TypeOK
    <2>3. ReplayPending'
        BY <1>9 DEF Continue, Insert, ReplayPending, Fresh, TypeOK, Unfinalized
    <2>4. ListenersAreRoots'
        BY <1>9 DEF Continue, Insert, ListenersAreRoots, IsBlocking, TypeOK
    <2>5. FailedIsWritten'
        BY <1>9 DEF Continue, Insert, FailedIsWritten, TypeOK
    <2>6. RecoveringExhausted'
        BY <1>9 DEF Continue, Insert, RecoveringExhausted, IsBlocking, Exhausted,
           TypeOK
    <2>7. CheckedAlone'
        BY <1>9 DEF Continue, Insert, CheckedAlone, Present, Exhausted, TypeOK
    <2>8. OneListener'
        BY <1>9 DEF Continue, Insert, OneListener, IsBlocking, Exhausted, TypeOK
    <2> QED BY <1>1, <2>1, <2>2, <2>3, <2>4, <2>5, <2>6, <2>7, <2>8
<1>10. ASSUME NEW c \in Ids, Complete(c) PROVE IInv'
    <2>1. ParentFirst'
        BY <1>10 DEF Complete, Updated, ParentFirst, Existing, TypeOK
    <2>2. CompletedIsOver'
        BY <1>10 DEF Complete, Updated, CompletedIsOver, ReplayPending
    <2>3. ReplayPending'
        BY <1>10 DEF Complete, Updated, ReplayPending, TypeOK
    <2>4. ListenersAreRoots'
        BY <1>10 DEF Complete, Updated, ListenersAreRoots, IsBlocking
    <2>5. FailedIsWritten'
        BY <1>10 DEF Complete, Updated, FailedIsWritten
    <2>6. RecoveringExhausted'
        BY <1>10 DEF Complete, Updated, RecoveringExhausted, IsBlocking, Exhausted
    <2>7. CheckedAlone'
        BY <1>10 DEF Complete, Updated, CheckedAlone, Present, Exhausted
    <2>8. OneListener'
        BY <1>10 DEF Complete, Updated, OneListener, IsBlocking, Exhausted
    <2> QED BY <1>1, <2>1, <2>2, <2>3, <2>4, <2>5, <2>6, <2>7, <2>8
<1>11. ASSUME NEW c \in Ids, Retry(c) PROVE IInv'
    <2>1. ParentFirst'
        BY <1>11 DEF Retry, Updated, ParentFirst, Existing, CompletedIsOver, Places
    <2>2. CompletedIsOver'
        BY <1>11 DEF Retry, Updated, CompletedIsOver
    <2>3. ReplayPending'
        BY <1>11 DEF Retry, Updated, ReplayPending
    <2>4. ListenersAreRoots'
        BY <1>11 DEF Retry, Updated, ListenersAreRoots, IsBlocking
    <2>5. FailedIsWritten'
        BY <1>11 DEF Retry, Updated, FailedIsWritten
    <2>6. RecoveringExhausted'
        BY <1>11 DEF Retry, Updated, RecoveringExhausted, IsBlocking, Exhausted
    <2>7. CheckedAlone'
        BY <1>11 DEF Retry, Updated, CheckedAlone, Present, Exhausted
    <2>8. OneListener'
        BY <1>11 DEF Retry, Updated, OneListener, IsBlocking, Exhausted
    <2> QED BY <1>1, <2>1, <2>2, <2>3, <2>4, <2>5, <2>6, <2>7, <2>8
<1>12. ASSUME NEW c \in Ids, Repeat(c) PROVE IInv'
    <2>1. ParentFirst'
        BY <1>12 DEF Repeat, Updated, ParentFirst, Existing, CompletedIsOver,
           Places
    <2>2. CompletedIsOver'
        BY <1>12 DEF Repeat, Updated, CompletedIsOver
    <2>3. ReplayPending'
        BY <1>12 DEF Repeat, Updated, ReplayPending
    <2>4. ListenersAreRoots'
        BY <1>12 DEF Repeat, Updated, ListenersAreRoots, IsBlocking
    <2>5. FailedIsWritten'
        BY <1>12 DEF Repeat, Updated, FailedIsWritten
    <2>6. RecoveringExhausted'
        BY <1>12 DEF Repeat, Updated, RecoveringExhausted, IsBlocking, Exhausted,
           Unfinalized
    <2>7. CheckedAlone'
        BY <1>12 DEF Repeat, Updated, CheckedAlone, Present, Exhausted
    <2>8. OneListener'
        BY <1>12 DEF Repeat, Updated, OneListener, IsBlocking, Exhausted
    <2> QED BY <1>1, <2>1, <2>2, <2>3, <2>4, <2>5, <2>6, <2>7, <2>8
<1>13. ASSUME NEW c \in Ids, Throw(c) PROVE IInv'
    <2>1. ParentFirst'
        BY <1>13 DEF Throw, ParentFirst, Existing, Places, TypeOK, columns
    <2>2. CompletedIsOver'
        BY <1>13 DEF Throw, CompletedIsOver, TypeOK, columns
    <2>3. ReplayPending'
        BY <1>13 DEF Throw, ReplayPending, TypeOK, columns
    <2>4. ListenersAreRoots'
        BY <1>13 DEF Throw, ListenersAreRoots, IsBlocking, TypeOK, columns
    <2>5. FailedIsWritten'
        BY <1>13 DEF Throw, FailedIsWritten, TypeOK, columns
    <2>6. RecoveringExhausted'
        BY <1>13 DEF Throw, RecoveringExhausted, IsBlocking, Exhausted, TypeOK, columns
    <2>7. CheckedAlone'
        BY <1>13 DEF Throw, CheckedAlone, Present, Exhausted, TypeOK, columns
    <2>8. OneListener'
        BY <1>13 DEF Throw, OneListener, IsBlocking, Exhausted, TypeOK, columns
    <2> QED BY <1>1, <2>1, <2>2, <2>3, <2>4, <2>5, <2>6, <2>7, <2>8
<1>13a. ASSUME NEW c \in Ids, HandleError(c) PROVE IInv'
    <2>1. /\ pc[c] = "erring" /\ UNCHANGED <<chain, parent, producer, replay>>
          /\ \/ /\ status' = status /\ retries[c] > 0
                /\ \A d \in Ids : d # c => retries'[d] = retries[d]
                /\ pc' = [pc EXCEPT ![c] = IF IsBlocking(c) THEN "requeuing"
                                                       ELSE "waiting"]
             \/ /\ status' = Updated(c, "FAILED") /\ retries[c] = 0 /\ retries' = retries
                /\ pc' = [pc EXCEPT ![c] = "failed"]
        BY <1>13a DEF HandleError, TypeOK
    <2>2. ParentFirst'
        BY <2>1 DEF ParentFirst, Existing, CompletedIsOver, Updated, TypeOK, Places
    <2>3. CompletedIsOver'
        BY <2>1 DEF CompletedIsOver, Updated, TypeOK
    <2>4. ReplayPending'
        BY <2>1 DEF ReplayPending, Updated, TypeOK
    <2>5. ListenersAreRoots'
        BY <2>1 DEF ListenersAreRoots, IsBlocking
    <2>6. FailedIsWritten'
        BY <2>1 DEF FailedIsWritten, Updated, TypeOK
    <2>7. RecoveringExhausted'
        BY <2>1 DEF RecoveringExhausted, IsBlocking, Exhausted, Updated, TypeOK
    <2>8. CheckedAlone'
        BY <2>1 DEF CheckedAlone, Present, Exhausted, Updated, TypeOK
    <2>9. OneListener'
        BY <2>1 DEF OneListener, IsBlocking, Exhausted, Updated, TypeOK
    <2> QED BY <1>1, <2>2, <2>3, <2>4, <2>5, <2>6, <2>7, <2>8, <2>9
<1>13b. ASSUME NEW c \in Ids, HandlingFails(c) PROVE IInv'
    <2>1. ParentFirst'
        BY <1>13b DEF HandlingFails, ParentFirst, Existing, Places, TypeOK, columns
    <2>2. CompletedIsOver'
        BY <1>13b DEF HandlingFails, CompletedIsOver, TypeOK, columns
    <2>3. ReplayPending'
        BY <1>13b DEF HandlingFails, ReplayPending, TypeOK, columns
    <2>4. ListenersAreRoots'
        BY <1>13b DEF HandlingFails, ListenersAreRoots, IsBlocking, TypeOK, columns
    <2>5. FailedIsWritten'
        BY <1>13b DEF HandlingFails, FailedIsWritten, Unfinalized, TypeOK, columns
    <2>6. RecoveringExhausted'
        BY <1>13b DEF HandlingFails, RecoveringExhausted, IsBlocking, Exhausted, TypeOK, columns
    <2>7. CheckedAlone'
        BY <1>13b DEF HandlingFails, CheckedAlone, Present, Exhausted, TypeOK, columns
    <2>8. OneListener'
        BY <1>13b DEF HandlingFails, OneListener, IsBlocking, Exhausted, TypeOK, columns
    <2> QED BY <1>1, <2>1, <2>2, <2>3, <2>4, <2>5, <2>6, <2>7, <2>8
<1>14. ASSUME NEW c \in Ids, Recover(c) PROVE IInv'
    <2>1. ParentFirst'
        BY <1>14 DEF Recover, Updated, ParentFirst, Existing, CompletedIsOver,
           TypeOK
    <2>2. CompletedIsOver'
        BY <1>14 DEF Recover, Updated, CompletedIsOver, TypeOK
    <2>3. ReplayPending'
        BY <1>14 DEF Recover, Updated, ReplayPending, TypeOK
    <2>4. ListenersAreRoots'
        BY <1>14 DEF Recover, Updated, ListenersAreRoots, IsBlocking
    <2>5. FailedIsWritten'
        BY <1>14 DEF Recover, Updated, FailedIsWritten, TypeOK
    <2>6. RecoveringExhausted'
        BY <1>14 DEF Recover, Updated, RecoveringExhausted, IsBlocking, Exhausted,
           TypeOK, Unfinalized
    <2>7. CheckedAlone'
        BY <1>14 DEF Recover, Updated, CheckedAlone, Present, Exhausted, TypeOK
    <2>8. OneListener'
        BY <1>14 DEF Recover, Updated, OneListener, IsBlocking, Exhausted, TypeOK
    <2> QED BY <1>1, <2>1, <2>2, <2>3, <2>4, <2>5, <2>6, <2>7, <2>8
<1>15. ASSUME Clean PROVE IInv'
    <2>1. ParentFirst'
        BY <1>15 DEF Clean, ParentFirst, Existing, TypeOK
    <2>2. CompletedIsOver'
        BY <1>15 DEF Clean, CompletedIsOver
    <2>3. ReplayPending'
        BY <1>15 DEF Clean, ReplayPending, TypeOK, Finalized, Unfinalized
    <2>4. ListenersAreRoots'
        BY <1>15 DEF Clean, ListenersAreRoots, IsBlocking
    <2>5. FailedIsWritten'
        BY <1>15 DEF Clean, FailedIsWritten
    <2>6. RecoveringExhausted'
        BY <1>15 DEF Clean, RecoveringExhausted, IsBlocking, Exhausted, Finalized,
           Unfinalized
    <2>7. CheckedAlone'
        BY <1>15 DEF Clean, CheckedAlone, Present, Exhausted, Unfinalized
    <2>8. OneListener'
        BY <1>15 DEF Clean, OneListener, IsBlocking, Exhausted, Unfinalized
    <2> QED BY <1>1, <2>1, <2>2, <2>3, <2>4, <2>5, <2>6, <2>7, <2>8
<1>16. ASSUME Restart PROVE IInv'
    <2>1. ParentFirst'
        BY <1>16 DEF Restart, Replayable, ParentFirst, Existing, ListenersAreRoots,
           columns
    <2>2. CompletedIsOver'
        BY <1>16 DEF Restart, Replayable, CompletedIsOver, Unfinalized, columns
    <2>3. ReplayPending'
        BY <1>16 DEF Restart, Replayable, ReplayPending, columns
    <2>4. ListenersAreRoots'
        BY <1>16 DEF Restart, Replayable, ListenersAreRoots, IsBlocking, columns
    <2>5. FailedIsWritten'
        BY <1>16 DEF Restart, Replayable, FailedIsWritten
    <2>6. RecoveringExhausted'
        BY <1>16 DEF Restart, Replayable, RecoveringExhausted, IsBlocking,
           Exhausted
    <2>7. CheckedAlone'
        BY <1>16 DEF Restart, Replayable, CheckedAlone, Present, Exhausted
    <2>8. OneListener'
        BY <1>16 DEF Restart, Replayable, OneListener, IsBlocking, Exhausted,
           columns
    <2> QED BY <1>1, <2>1, <2>2, <2>3, <2>4, <2>5, <2>6, <2>7, <2>8
<1>17. ASSUME NEW c \in Ids, ReplayAdd(c) PROVE IInv'
    <2>1. ParentFirst'
        BY <1>17 DEF ReplayAdd, Admitted, ParentFirst, Existing, columns
    <2>2. CompletedIsOver'
        BY <1>17 DEF ReplayAdd, Admitted, CompletedIsOver, columns
    <2>3. ReplayPending'
        BY <1>17 DEF ReplayAdd, Admitted, ReplayPending, columns
    <2>4. ListenersAreRoots'
        BY <1>17 DEF ReplayAdd, Admitted, ListenersAreRoots, IsBlocking, columns
    <2>5. FailedIsWritten'
        BY <1>17 DEF ReplayAdd, Admitted, FailedIsWritten, ReplayPending,
           Unfinalized, TypeOK, columns
    <2>6. RecoveringExhausted'
        BY <1>17 DEF ReplayAdd, Admitted, RecoveringExhausted, IsBlocking,
           Exhausted, ReplayPending, columns
    <2>7. CheckedAlone'
        BY <1>17 DEF ReplayAdd, Admitted, CheckedAlone, Present, Exhausted,
           ReplayPending, columns
    <2>8. OneListener'
        BY <1>17 DEF ReplayAdd, Admitted, OneListener, IsBlocking, Exhausted,
           ReplayPending, columns
    <2> QED BY <1>1, <2>1, <2>2, <2>3, <2>4, <2>5, <2>6, <2>7, <2>8
<1>18. ASSUME Resume PROVE IInv'
    <2>1. ParentFirst'
        BY <1>18 DEF Resume, ParentFirst, Existing, columns
    <2>2. CompletedIsOver'
        BY <1>18 DEF Resume, CompletedIsOver, columns
    <2>3. ReplayPending'
        BY <1>18 DEF Resume, ReplayPending, columns
    <2>4. ListenersAreRoots'
        BY <1>18 DEF Resume, ListenersAreRoots, IsBlocking, columns
    <2>5. FailedIsWritten'
        BY <1>18 DEF Resume, FailedIsWritten, columns
    <2>6. RecoveringExhausted'
        BY <1>18 DEF Resume, RecoveringExhausted, IsBlocking, Exhausted, columns
    <2>7. CheckedAlone'
        BY <1>18 DEF Resume, CheckedAlone, Present, Exhausted, columns
    <2>8. OneListener'
        BY <1>18 DEF Resume, OneListener, IsBlocking, Exhausted, columns
    <2> QED BY <1>1, <2>1, <2>2, <2>3, <2>4, <2>5, <2>6, <2>7, <2>8
<1>19. CASE UNCHANGED vars
    BY <1>1, <1>19 DEF vars, ParentFirst, Existing, CompletedIsOver, ReplayPending,
       ListenersAreRoots, FailedIsWritten, RecoveringExhausted, CheckedAlone, OneListener,
       IsBlocking, Present, Exhausted
<1> QED
    BY <1>2, <1>3, <1>4, <1>5, <1>6, <1>7, <1>7a, <1>7b, <1>8, <1>9, <1>10, <1>11,
       <1>12, <1>13, <1>13a, <1>13b, <1>14, <1>15, <1>16, <1>17, <1>18, <1>19
       DEF Next, HandlerEnds

(* The initial state satisfies the invariant.                              *)
LEMMA InvInit == Init => IInv
BY IdsAssumption DEF Init, IInv, TypeOK, Statuses, Places, ParentFirst, Existing,
   CompletedIsOver, ReplayPending, ListenersAreRoots, FailedIsWritten, IsBlocking,
   RecoveringExhausted, CheckedAlone, OneListener

LEMMA Invariant == Spec => []IInv
BY InvInit, InvStep, PTL DEF Spec

(* No command of a sequence runs before the one it follows is completed.   *)
THEOREM ParentFirstAlways == Spec => []ParentFirst
<1>1. IInv => ParentFirst
    BY DEF IInv
<1> QED BY <1>1, Invariant, PTL

(* A completed command is neither run again nor replayed.                  *)
THEOREM CompletedIsOverAlways == Spec => []CompletedIsOver
<1>1. IInv => CompletedIsOver
    BY DEF IInv
<1> QED BY <1>1, Invariant, PTL

(* Two listener commands of a blockchain never live at once, unless one of *)
(* them has used up its retries.                                           *)
THEOREM OneListenerAlways == Spec => []OneListener
<1>1. IInv => OneListener
    BY DEF IInv
<1> QED BY <1>1, Invariant, PTL

(* The commands that a step other than a restart lets go of.               *)
Dropped(c) ==
    /\ pc[c] \in Places \ {"none", "created", "lost"} /\ pc'[c] \in {"none", "lost"}
    /\ restarts' = restarts

(* A command is let go of at its end, by a blocking check that meets an    *)
(* instance with no retries left, or by a second exception.                *)
LetGo(c) ==
    \/ status'[c] \in Finalized \cup {"ABSENT"}
    \/ IsBlocking(c) /\ \E d \in Ids : chain[d] = chain[c] /\ Exhausted(d)
    \/ /\ pc[c] \in {"erring", "requeuing"} /\ faults' > faults
       /\ IsBlocking(c) \/ parent[c] # NoId => Replayable(c)'

(* What a second exception loses is unfinalized, and its parent completed,  *)
(* so that the next boot replays it.                                       *)
LEMMA LostStep ==
    ASSUME IInv, NEW e \in Ids, HandlingFails(e), NEW c \in Ids, Dropped(c)
    PROVE  LetGo(c)
<1> USE DEF IInv
<1>1. c = e /\ UNCHANGED columns /\ faults' = faults + 1 /\ faults \in Nat
    BY DEF HandlingFails, Dropped, TypeOK
<1>2. CASE status[c] \notin Unfinalized
    BY <1>1, <1>2 DEF LetGo, columns, TypeOK, Statuses
<1>3. CASE status[c] \in Unfinalized
    <2>1. pc[c] \in {"erring", "requeuing"}
        BY <1>1, <1>3 DEF HandlingFails, FailedIsWritten, Unfinalized
    <2>2. faults' > faults
        BY <1>1
    <2>3. IsBlocking(c) \/ parent[c] # NoId => Replayable(c)'
        BY <1>1, <1>3, <2>1 DEF ParentFirst, Existing, Unfinalized, Places, Replayable,
           IsBlocking, columns
    <2> QED BY <2>1, <2>2, <2>3 DEF LetGo
<1> QED BY <1>2, <1>3

LEMMA DropStep ==
    ASSUME IInv, [Next]_vars, NEW c \in Ids, Dropped(c)
    PROVE  LetGo(c)
<1> USE DEF Dropped, IInv
<1>1. ASSUME NEW e \in Ids, ReAdd(e) PROVE LetGo(c)
    <2>1. /\ e = c /\ IsBlocking(c)
          /\ \E d \in Ids \ {c} : chain[d] = chain[c] /\ status[d] \in Unfinalized
        BY <1>1 DEF ReAdd, Admitted, UnfinalizedOf, TypeOK
    <2>2. pc[c] # "none"
        OBVIOUS
    <2> QED BY <2>1, <2>2 DEF OneListener, LetGo
<1>2. ASSUME NEW e \in Ids, Finish(e) \/ Complete(e) PROVE LetGo(c)
    BY <1>2 DEF Finish, Complete, Updated, Finalized, TypeOK, LetGo
<1>3. ASSUME NEW e \in Ids, Recover(e) PROVE LetGo(c)
    BY <1>3 DEF Recover, FailedIsWritten, Finalized, TypeOK, LetGo
<1>4. ASSUME NEW e \in Ids, Throw(e) \/ HandleError(e) PROVE LetGo(c)
    BY <1>4 DEF Throw, HandleError, TypeOK
<1>5. ASSUME NEW e \in Ids, ReplayAdd(e) PROVE LetGo(c)
    BY <1>5 DEF ReplayAdd, ReplayPending, TypeOK
<1>6. ASSUME NEW e \in Ids, AddOperation(e) \/ Start(e) \/ Retry(e) \/ Repeat(e)
      PROVE LetGo(c)
    BY <1>6 DEF AddOperation, Start, Retry, Repeat, TypeOK
<1>7. ASSUME NEW e \in Ids, NEW d \in Ids, Continue(e, d) PROVE LetGo(c)
    BY <1>7 DEF Continue, TypeOK
<1>8. ASSUME NEW b \in Chains,
             CheckListener(b) \/ ProducerThrows(b) \/ \E e \in Ids : InsertListener(b, e)
      PROVE LetGo(c)
    BY <1>8 DEF CheckListener, ProducerThrows, InsertListener, TypeOK
<1>9. ASSUME ProducerRecovers \/ ProducerLost \/ Clean \/ Resume \/ UNCHANGED vars
      PROVE LetGo(c)
    BY <1>9 DEF ProducerRecovers, ProducerLost, Clean, Resume, vars
<1>10. ASSUME Restart PROVE LetGo(c)
    BY <1>10 DEF Restart, TypeOK
<1>11. ASSUME NEW e \in Ids, HandlingFails(e) PROVE LetGo(c)
    BY <1>11, LostStep
<1> QED
    BY <1>1, <1>2, <1>3, <1>4, <1>5, <1>6, <1>7, <1>8, <1>9, <1>10, <1>11
       DEF Next, HandlerEnds

(* Outside of a restart the executor never loses a command silently: it is *)
(* finalized, shares its blockchain with a listener that used up its       *)
(* retries, or met a second exception while one was handled, and then it   *)
(* is replayed by the next boot if it is a listener or a child.            *)
THEOREM NoSilentDropAlways == Spec => NoSilentDrop
<1>1. IInv /\ [Next]_vars =>
        [\A c \in Ids :
          (/\ pc[c] \in Places \ {"none", "created", "lost"} /\ pc'[c] \in {"none", "lost"}
           /\ restarts' = restarts)
          => \/ status'[c] \in Finalized \cup {"ABSENT"}
             \/ IsBlocking(c) /\ \E d \in Ids : chain[d] = chain[c] /\ Exhausted(d)
             \/ /\ pc[c] \in {"erring", "requeuing"} /\ faults' > faults
                /\ IsBlocking(c) \/ parent[c] # NoId => Replayable(c)']_vars
    BY DropStep DEF Dropped, LetGo
<1> QED BY <1>1, Invariant, PTL DEF Spec, NoSilentDrop
=============================================================================
