---------------------------- MODULE RecordCleaner ----------------------------
(***************************************************************************)
(* The cleaner commands (commands/cleaners/cleaner-command.js): rows that  *)
(* are old are written to an archive file and deleted, in full batches.    *)
(*                                                                         *)
(* One table stands for those of the events, the operations and their      *)
(* responses: an event may go when it is processed and is made unfinished, *)
(* the others may go by age alone and are made finished.  (Commands are    *)
(* taken by the time they started instead.)  An archive is named by the    *)
(* times of its first and last row, and a file of the same name is         *)
(* overwritten (writeContentsToFile, flag 'w').                            *)
(***************************************************************************)
EXTENDS Naturals, Sequences, FiniteSets

CONSTANTS
    RemovalMax,         \* REPOSITORY_ROWS_FOR_REMOVAL_MAX_NUMBER, 10000
    CleanupDelay,       \* ..._CLEANUP_TIME_DELAY, in ticks
    MaxRows, MaxClock, MaxCleanFaults       \* bounds

ASSUME CleanerAssumption ==
    /\ RemovalMax \in Nat \ {0} /\ CleanupDelay \in Nat
    /\ MaxRows \in Nat /\ MaxClock \in Nat /\ MaxCleanFaults \in Nat

VARIABLES
    clock,
    table,          \* the rows: their id, createdAt, and whether they are finished
    archives,       \* the files: the times in their name, the ids of their rows
    cleanAt, before, batch,     \* execute(): its place, cutoff and rowsForRemoval
    made,           \* ghost: createdAt of every row ever made
    cleanFaults

cleanVars == <<clock, table, archives, cleanAt, before, batch, made, cleanFaults>>

CleanInit ==
    /\ clock = 0 /\ table = {} /\ archives = {} /\ made = <<>>
    /\ cleanAt = "idle" /\ before = 0 /\ batch = {} /\ cleanFaults = 0

Ids(rows) == {r.id : r \in rows}

-----------------------------------------------------------------------------
ClockTicks ==
    /\ clock < MaxClock /\ clock' = clock + 1
    /\ UNCHANGED <<table, archives, cleanAt, before, batch, made, cleanFaults>>

RowIsMade ==
    /\ Len(made) < MaxRows
    /\ made' = Append(made, clock)
    /\ \E finished \in BOOLEAN :
           table' = table \cup {[id |-> Len(made'), at |-> clock, finished |-> finished]}
    /\ UNCHANGED <<clock, archives, cleanAt, before, batch, cleanFaults>>

RowFinishes ==
    /\ \E r \in table : ~r.finished /\ table' = (table \ {r}) \cup {[r EXCEPT !.finished = TRUE]}
    /\ UNCHANGED <<clock, archives, cleanAt, before, batch, made, cleanFaults>>

-----------------------------------------------------------------------------
(* Mutant: rows that are not finished are taken, too. *)
Removable_Any(time) == {r \in table : r.at <= time}

Removable(time) == {r \in table : r.finished /\ r.at <= time}

(* The first of them, by createdAt; of those with the same time any. *)
RowsForRemoval(time) ==
    {rows \in SUBSET Removable(time) :
        /\ Cardinality(rows) = RemovalMax \/ (rows = Removable(time)
                                              /\ Cardinality(rows) < RemovalMax)
        /\ \A r \in rows, s \in Removable(time) \ rows : r.at <= s.at}

FirstTime(rows) == CHOOSE t \in {r.at : r \in rows} : \A r \in rows : t <= r.at
LastTime(rows) == CHOOSE t \in {r.at : r \in rows} : \A r \in rows : t >= r.at

(* Only full batches are worth an archive. *)
FindRows ==
    /\ cleanAt \in {"idle", "again"}
    /\ cleanAt = "idle" => clock >= CleanupDelay
    /\ before' = IF cleanAt = "idle" THEN clock - CleanupDelay ELSE before
    /\ \E rows \in RowsForRemoval(before') :
           IF Cardinality(rows) >= RemovalMax
           THEN batch' = rows /\ cleanAt' = "archive"
           ELSE batch' = {} /\ cleanAt' = "idle"
    /\ UNCHANGED <<clock, table, archives, made, cleanFaults>>

ArchiveName(rows) == <<FirstTime(rows), LastTime(rows)>>

ArchiveData ==
    /\ cleanAt = "archive"
    /\ archives' = {a \in archives : a.name # ArchiveName(batch)}
                   \cup {[name |-> ArchiveName(batch), ids |-> Ids(batch)]}
    /\ cleanAt' = "delete"
    /\ UNCHANGED <<clock, table, before, batch, made, cleanFaults>>

DeleteRows ==
    /\ cleanAt = "delete"
    /\ table' = {r \in table : r.id \notin Ids(batch)}
    /\ cleanAt' = "again" /\ batch' = {}
    /\ UNCHANGED <<clock, archives, before, made, cleanFaults>>

(* A query or the file fails, or the process dies: it starts anew next time. *)
CleanerFails ==
    /\ cleanAt # "idle" /\ cleanFaults < MaxCleanFaults
    /\ cleanFaults' = cleanFaults + 1
    /\ cleanAt' = "idle" /\ batch' = {}
    /\ UNCHANGED <<clock, table, archives, before, made>>

CleanerStep == (cleanAt # "idle" /\ FindRows) \/ ArchiveData \/ DeleteRows

CleanNext ==
    \/ ClockTicks \/ RowIsMade \/ RowFinishes
    \/ FindRows \/ ArchiveData \/ DeleteRows \/ CleanerFails

CleanSpec == CleanInit /\ [][CleanNext]_cleanVars /\ WF_cleanVars(CleanerStep)

-----------------------------------------------------------------------------
CleanTypeOK ==
    /\ clock \in 0..MaxClock /\ before \in 0..MaxClock
    /\ table \subseteq [id : 1..MaxRows, at : 0..MaxClock, finished : BOOLEAN]
    /\ batch \subseteq [id : 1..MaxRows, at : 0..MaxClock, finished : {TRUE}]
    /\ \A a \in archives : a.ids \subseteq 1..MaxRows
    /\ cleanAt \in {"idle", "archive", "delete", "again"}
    /\ cleanFaults \in 0..MaxCleanFaults

Deleted == (1..Len(made)) \ Ids(table)

(* What was deleted was archived first, even if the cleaner failed between the
   two or found other rows the next time: it is in a file, or in its place is a
   later file of the same name, for the times it was made between.  (A row that
   is finished late can make a batch with the times of an earlier one.) *)
DeletedIsArchived ==
    \A i \in Deleted : \E a \in archives :
        i \in a.ids \/ (a.name[1] <= made[i] /\ made[i] <= a.name[2])

(* A run of the cleaner comes to an end though rows are made and finished
   meanwhile. *)
CleanerEnds == cleanAt # "idle" ~> cleanAt = "idle"

(* No row is deleted before it was finished for the table's time. *)
DeletedWasDue ==
    [][\A r \in table : r.id \notin Ids(table')
          => r.finished /\ r.at + CleanupDelay <= clock]_cleanVars

(* A cleaner takes what is due only, and archives what it takes. *)
RowsKept == []DeletedIsArchived /\ DeletedWasDue
=============================================================================
