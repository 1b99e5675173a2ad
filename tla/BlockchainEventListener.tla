----------------------- MODULE BlockchainEventListener -----------------------
(***************************************************************************)
(* The listener of blockchain events of a node                             *)
(* (src/ot-node/src/commands/blockchain-event-listener).  One command per  *)
(* chain reads the block number, fetches the events since the block it     *)
(* checked last, stores them and the block number in one transaction,      *)
(* handles every stored event that is not processed, commits, and then     *)
(* marks the events of the chain as processed in a second write.           *)
(*                                                                         *)
(* The handler object is a singleton (service/dependency-injection.js):    *)
(* currentBlock, events and fresh are its fields, shared by the commands   *)
(* of all chains, which run concurrently.                                  *)
(*                                                                         *)
(* Chains are external: a block holds at most one monitored event, and the *)
(* blocks that hold none are left out.  "changed" is the Hub's word that   *)
(* the storage contract was replaced, "created" an event of the storage    *)
(* contract that is registered at that block.  Contract addresses are      *)
(* numbered: version v is the address after v changes.                     *)
(*                                                                         *)
(* invalidatedContracts and removeContractEventsAfterBlock have no effect  *)
(* and no definition here: the set holds addresses in the Hub's mixed case *)
(* and is asked (line 145) for one in the lower case of a log, and the     *)
(* removal (line 261) asks for rows of the replaced contract that carry    *)
(* the address of the Hub.  CONTRACT_INDEPENDENT_EVENTS is empty, so every *)
(* event is a dependent one.                                               *)
(***************************************************************************)
EXTENDS Integers, FiniteSets, Sequences, SequencesExt

CONSTANTS
    Chains,
    Kinds,          \* kinds of events the chains emit
    MaxBlocks,      \* bound: blocks of a chain
    Confirmations,  \* blocks behind the head that are not looked at
    SyncWindow,     \* _getMaxNumberOfHistoricalBlocksForSync
    MaxFaults       \* bound: exceptions, failed requests and crashes

ASSUME ListenerAssumption ==
    /\ IsFiniteSet(Chains) /\ Kinds \subseteq {"created", "changed"}
    /\ MaxBlocks \in Nat /\ Confirmations \in Nat
    /\ SyncWindow \in Nat \ {0} /\ MaxFaults \in Nat

Event == Chains \X (1 .. MaxBlocks)

VARIABLES
    log,            \* the events a chain emitted, by block
    last, rows, done,   \* tables: lastCheckedBlock; rows with processed =
                        \* FALSE, by chain; processed events
    handled,        \* events whose handler ended (its commands are queued)
    addr,           \* storage contract in the memory of the events service
    currentBlock, events, fresh,    \* fields of the handler object:
                                    \* currentBlock, (new)dependentEvents
    pc, upto, got, cur, index,      \* a command: where it awaits, the last
                                    \* block it asked for, events it got,
                                    \* the event it handles and its index
    tx, txLast,     \* its transaction: inserted rows by chain,
                    \* lastCheckedBlock
    dropped,        \* history: events lost by a failed request, or by a
                    \* handler that threw: its own and those it left
    refetched,      \* history: events fetched because a contract changed
    faults

vars == <<log, last, rows, done, handled, addr, currentBlock, events, fresh, pc,
          upto, got, cur, index, tx, txLast, dropped, refetched, faults>>
tables == <<last, rows, done>>
memory == <<addr, currentBlock, events, fresh>>
transaction == <<tx, txLast>>
history == <<dropped, refetched>>

Fetching == {"queued", "reading", "fetching", "storing", "listing"}
Handling == {"adding", "passing", "replacing", "inserting"}
Places == Fetching \cup Handling \cup {"idle", "committing", "marking"}

NoRows == [c \in Chains |-> <<>>]

Init ==
    /\ log = [c \in Chains |-> <<>>]
    /\ last = [c \in Chains |-> 0] /\ rows = NoRows /\ done = {} /\ handled = {}
    /\ addr = [c \in Chains |-> 0]
    /\ currentBlock = 0 /\ events = <<>> /\ fresh = <<>>
    /\ pc = [c \in Chains |-> "idle"]
    /\ upto = [c \in Chains |-> 0] /\ got = [c \in Chains |-> <<>>]
    /\ cur = [c \in Chains |-> <<>>] /\ index = [c \in Chains |-> 0]
    /\ tx = [c \in Chains |-> NoRows] /\ txLast = [c \in Chains |-> 0]
    /\ dropped = {} /\ refetched = {} /\ faults = 0

Changed(e) == log[e[1]][e[2]] = "changed"

(* The storage contract the Hub has registered at a block.                 *)
Registered(c, b) == Cardinality({k \in 1 .. b : log[c][k] = "changed"})

InRange(c, from, to) == {e \in {c} \X (1 .. Len(log[c])) : from < e[2] /\ e[2] <= to}

(* What a chain answers for the contracts: hub (or not) and the version v; *)
(* in any order, since it is sorted before somebody looks.                 *)
Emitted(c, v, hub, from, to) ==
    SetToSeq({e \in InRange(c, from, to) : IF Changed(e) THEN hub
                                           ELSE Registered(c, e[2]) = v})

(* Mutant: the latest event first.                                         *)
Rank_Latest(s, i) ==
    Cardinality({j \in DOMAIN s : s[j][2] > s[i][2] \/ (s[j][2] = s[i][2] /\ j <= i)})

(* The place of the i-th event in the array sorted by blocks (sort() is    *)
(* stable).                                                                *)
Rank(s, i) ==
    Cardinality({j \in DOMAIN s : s[j][2] < s[i][2] \/ (s[j][2] = s[i][2] /\ j <= i)})
Sorted(s) == [k \in DOMAIN s |-> s[CHOOSE i \in DOMAIN s : Rank(s, i) = k]]

-----------------------------------------------------------------------------
(* The environment: a block; the period of eventListenerCommand, which     *)
(* adds a command for a chain that has none (the command is blocking).     *)

Emit(c, kind) ==
    /\ Len(log[c]) < MaxBlocks
    /\ log' = [log EXCEPT ![c] = Append(@, kind)]
    /\ UNCHANGED <<tables, handled, memory, pc, upto, got, cur, index, transaction,
                   history, faults>>

Tick(c) ==
    /\ pc[c] = "idle"
    /\ pc' = [pc EXCEPT ![c] = "queued"]
    /\ UNCHANGED <<log, tables, handled, memory, upto, got, cur, index, transaction,
                   history, faults>>

-----------------------------------------------------------------------------
(* Fetching and storing                                                    *)

Confirmed(c) == Len(log[c]) - Confirmations
GetBlock(c) ==
    /\ pc[c] = "queued"
    /\ currentBlock' = Confirmed(c)
    /\ pc' = [pc EXCEPT ![c] = "reading"]
    /\ UNCHANGED <<log, tables, handled, addr, events, fresh, upto, got, cur, index,
                   transaction, history, faults>>

(* The last checked block is read; the field is read for the request.      *)
ReadLast(c) ==
    /\ pc[c] = "reading"
    /\ upto' = [upto EXCEPT ![c] = currentBlock]
    /\ pc' = [pc EXCEPT ![c] = "fetching"]
    /\ UNCHANGED <<log, tables, handled, memory, got, cur, index, transaction,
                   history, faults>>

(* getPastEvents from the block after from: nothing when too many blocks   *)
(* are missing (eventsMissed), a part when a request fails.  The error is  *)
(* logged and the caller cannot tell.                                      *)
GetPastEvents(c, chain, v, hub, from, to) ==
    LET Part(end) ==
            /\ got' = [got EXCEPT ![c] = Emitted(chain, v, hub, from, end)]
            /\ dropped' = dropped \cup InRange(chain, end, to)
    IN  IF to - from > SyncWindow
        THEN Part(from) /\ UNCHANGED faults
        ELSE \/ Part(to) /\ UNCHANGED faults
             \/ \E end \in from .. (to - 1) :
                    /\ faults < MaxFaults /\ faults' = faults + 1
                    /\ Part(end)

Fetch(c) ==
    /\ pc[c] = "fetching"
    /\ GetPastEvents(c, c, addr[c], TRUE, last[c], upto[c])
    /\ pc' = [pc EXCEPT ![c] = "storing"]
    /\ UNCHANGED <<log, tables, handled, memory, upto, cur, index, transaction, refetched>>

(* insertBlockchainEvents, then updateLastCheckedBlock with the field.     *)
(* Mutant: the block number is read anew.                                  *)
CheckedBlock_Anew(c) == Len(log[c]) - Confirmations
CheckedBlock(c) == currentBlock
Store(c) ==
    /\ pc[c] = "storing"
    /\ tx' = [tx EXCEPT ![c][c] = got[c]]
    /\ txLast' = [txLast EXCEPT ![c] = CheckedBlock(c)]
    /\ got' = [got EXCEPT ![c] = <<>>] /\ upto' = [upto EXCEPT ![c] = 0]
    /\ pc' = [pc EXCEPT ![c] = "listing"]
    /\ UNCHANGED <<log, tables, handled, memory, cur, index, history, faults>>

-----------------------------------------------------------------------------
(* Handling the events one by one                                          *)

(* The event names another storage contract than the one in memory.        *)
Replaces(ev) == Changed(ev) /\ addr[ev[1]] # Registered(ev[1], ev[2])

(* The loop of processDependentEvents on the array evs, from index i up to *)
(* the next await: new are the newDependentEvents.  The event is taken     *)
(* before they are merged into the rest of the array.                      *)
Merged(evs, i, new) ==
    IF new = <<>> THEN evs
    ELSE SubSeq(evs, 1, i - 1) \o Sorted(SubSeq(evs, i, Len(evs)) \o new)

Loop(c, evs, i, new) ==
    IF i > Len(evs)
    THEN /\ events' = evs /\ fresh' = new
         /\ cur' = [cur EXCEPT ![c] = <<>>] /\ index' = [index EXCEPT ![c] = 0]
         /\ pc' = [pc EXCEPT ![c] = "committing"]
         /\ UNCHANGED addr
    ELSE LET ev == evs[i]
             replaced == Replaces(ev)
         IN  /\ events' = Merged(evs, i, new) /\ fresh' = <<>>
             /\ cur' = [cur EXCEPT ![c] = ev]
             /\ index' = [index EXCEPT ![c] = i]
             /\ addr' = IF replaced
                        THEN [addr EXCEPT ![ev[1]] = Registered(ev[1], ev[2])]
                        ELSE addr
             /\ pc' = [pc EXCEPT ![c] = IF replaced THEN "replacing"
                                        ELSE IF Changed(ev) THEN "passing" ELSE "adding"]

(* The unprocessed rows of the chain become the events to handle.          *)
Unprocessed(c) == Sorted(rows[c] \o tx[c][c])
List(c) ==
    /\ pc[c] = "listing"
    /\ Loop(c, Unprocessed(c), 1, fresh)
    /\ UNCHANGED <<log, tables, handled, currentBlock, upto, got, transaction,
                   history, faults>>

NextIndex(c) == index[c] + 1

(* The handler of cur[c] returned: the loop goes on with the array that    *)
(* the field holds now.                                                    *)
Handled(c) ==
    /\ pc[c] \in {"adding", "passing"}
    /\ handled' = handled \cup {cur[c]}
    /\ Loop(c, events, NextIndex(c), fresh)
    /\ UNCHANGED <<log, tables, currentBlock, upto, got, transaction, history, faults>>

(* It threw: processEvent logs the error, and the event will be marked as  *)
(* processed.  With one of the Hub the address has changed already, and    *)
(* what the new contract emitted since then is not stored: the removal,    *)
(* the fetch or the insert threw.  A handler that finds the contract known *)
(* awaits nothing.                                                         *)
Unstored(c) ==
    LET chain == cur[c][1] IN
    CASE pc[c] = "replacing" ->
            Range(Emitted(chain, addr[chain], FALSE, cur[c][2], currentBlock))
      [] pc[c] = "inserting" -> Range(got[c])
      [] OTHER -> {}

HandlerFails(c) ==
    /\ pc[c] \in Handling \ {"passing"} /\ (pc[c] = "inserting" => got[c] # <<>>)
    /\ faults < MaxFaults /\ faults' = faults + 1
    /\ dropped' = dropped \cup {cur[c]} \cup Unstored(c)
    /\ got' = [got EXCEPT ![c] = <<>>]
    /\ Loop(c, events, NextIndex(c), fresh)
    /\ UNCHANGED <<log, tables, handled, currentBlock, upto, transaction, refetched>>

(* The contract changed: its events since then are fetched ...             *)
Refetch(c) ==
    LET chain == cur[c][1] IN
    /\ pc[c] = "replacing"
    /\ GetPastEvents(c, chain, addr[chain], FALSE, cur[c][2], currentBlock)
    /\ pc' = [pc EXCEPT ![c] = "inserting"]
    /\ UNCHANGED <<log, tables, handled, memory, upto, cur, index, transaction, refetched>>

(* ... stored, and left for the loop.                                      *)
Inserted(c) ==
    /\ pc[c] = "inserting"
    /\ tx' = [tx EXCEPT ![c][cur[c][1]] = @ \o got[c]]
    /\ refetched' = refetched \cup Range(got[c])
    /\ handled' = handled \cup {cur[c]}
    /\ got' = [got EXCEPT ![c] = <<>>]
    /\ Loop(c, events, NextIndex(c), IF got[c] = <<>> THEN fresh ELSE got[c])
    /\ UNCHANGED <<log, tables, currentBlock, upto, txLast, dropped, faults>>

-----------------------------------------------------------------------------
(* The end of a command, errors and crashes                                *)

Commit(c) ==
    /\ pc[c] = "committing"
    /\ rows' = [d \in Chains |-> rows[d] \o tx[c][d]]
    /\ last' = [last EXCEPT ![c] = txLast[c]]
    /\ tx' = [tx EXCEPT ![c] = NoRows] /\ txLast' = [txLast EXCEPT ![c] = 0]
    /\ pc' = [pc EXCEPT ![c] = "marking"]
    /\ UNCHANGED <<log, done, handled, memory, upto, got, cur, index, history, faults>>

(* markAllBlockchainEventsAsProcessed                                      *)
Mark(c) ==
    /\ pc[c] = "marking"
    /\ done' = done \cup Range(rows[c])
    /\ rows' = [rows EXCEPT ![c] = <<>>]
    /\ pc' = [pc EXCEPT ![c] = "idle"]
    /\ UNCHANGED <<log, last, handled, memory, upto, got, cur, index, transaction,
                   history, faults>>

(* An error before the commit rolls the transaction back and the command   *)
(* repeats; one of the last write makes the executor retry it.  The memory *)
(* keeps what the handlers changed.                                        *)
RunFails(c) ==
    /\ pc[c] \in Fetching \cup {"committing", "marking"}
    /\ faults < MaxFaults /\ faults' = faults + 1
    /\ tx' = [tx EXCEPT ![c] = NoRows] /\ txLast' = [txLast EXCEPT ![c] = 0]
    /\ got' = [got EXCEPT ![c] = <<>>] /\ upto' = [upto EXCEPT ![c] = 0]
    /\ pc' = [pc EXCEPT ![c] = "queued"]
    /\ UNCHANGED <<log, tables, handled, memory, cur, index, history>>

(* The node restarts: the contracts are read from the Hub, and unfinished  *)
(* commands, which are blocking ones, are replayed.                        *)
Crash ==
    /\ faults < MaxFaults /\ faults' = faults + 1
    /\ addr' = [c \in Chains |-> Registered(c, Len(log[c]))]
    /\ currentBlock' = 0 /\ events' = <<>> /\ fresh' = <<>>
    /\ pc' = [c \in Chains |-> IF pc[c] = "idle" THEN "idle" ELSE "queued"]
    /\ tx' = [c \in Chains |-> NoRows] /\ txLast' = [c \in Chains |-> 0]
    /\ got' = [c \in Chains |-> <<>>] /\ upto' = [c \in Chains |-> 0]
    /\ cur' = [c \in Chains |-> <<>>] /\ index' = [c \in Chains |-> 0]
    /\ UNCHANGED <<log, tables, handled, history>>

Step(c) ==
    \/ Tick(c) \/ GetBlock(c) \/ ReadLast(c) \/ Fetch(c) \/ Store(c) \/ List(c)
    \/ Handled(c) \/ Refetch(c) \/ Inserted(c) \/ Commit(c) \/ Mark(c)

Next ==
    \/ \E c \in Chains :
        \/ \E kind \in Kinds : Emit(c, kind)
        \/ Step(c) \/ HandlerFails(c) \/ RunFails(c)
    \/ Crash

Spec == Init /\ [][Next]_vars

(* Every command the executor runs goes on: requests, writes and handlers  *)
(* return, and eventListenerCommand repeats.                               *)
FairSpec == Spec /\ \A c \in Chains : WF_vars(Step(c))

-----------------------------------------------------------------------------
(* Properties                                                              *)

(* No contract was replaced so far.                                        *)
Changeless == \A c \in Chains : \A b \in DOMAIN log[c] : ~Changed(<<c, b>>)

(* Types.                                                                  *)
TypeOK ==
    /\ log \in [Chains -> Seq(Kinds)] /\ \A c \in Chains : Len(log[c]) <= MaxBlocks
    /\ last \in [Chains -> (0 - Confirmations) .. MaxBlocks]
    /\ txLast \in [Chains -> (0 - Confirmations) .. MaxBlocks]
    /\ upto \in [Chains -> (0 - Confirmations) .. MaxBlocks]
    /\ currentBlock \in (0 - Confirmations) .. MaxBlocks
    /\ rows \in [Chains -> Seq(Event)] /\ events \in Seq(Event) /\ fresh \in Seq(Event)
    /\ tx \in [Chains -> [Chains -> Seq(Event)]] /\ got \in [Chains -> Seq(Event)]
    /\ done \in SUBSET Event /\ handled \in SUBSET Event
    /\ dropped \in SUBSET Event /\ refetched \in SUBSET Event
    /\ addr \in [Chains -> 0 .. MaxBlocks] /\ index \in [Chains -> Nat]
    /\ pc \in [Chains -> Places] /\ faults \in 0 .. MaxFaults
    /\ cur \in [Chains -> Event \cup {<<>>}]

(* An event is marked as processed (line 47) only when its handler ran to  *)
(* its end or threw, a crash between the two writes and a rollback         *)
(* included.  What a change of the contract fetched is excepted: see       *)
(* RefetchedWasHandled.                                                    *)
MarkedWasHandled == done \subseteq handled \cup dropped \cup refetched

(* Events fetched because a contract changed are handled before they are   *)
(* marked: "Adding n new dependent events before processing" (line 158).   *)
RefetchedWasHandled == done \cap refetched \subseteq handled \cup dropped

(* The last checked block never passes an event that is not in the table,  *)
(* unless a request or a handler lost it.  With changes of a contract this *)
(* needs that there was no error and that no change was missed: the        *)
(* address in memory is not rolled back, a restart reads the latest one    *)
(* from the Hub, and a node that missed a change goes on with the contract *)
(* it knows.                                                               *)
NoChangeMissed == faults = 0 /\ \A e \in dropped : ~Changed(e)
NothingSkipped ==
    Changeless \/ NoChangeMissed =>
        \A c \in Chains : InRange(c, 0, last[c]) \subseteq Range(rows[c]) \cup done \cup dropped

(* When a chain has no command running, its events are fetched from the    *)
(* contract registered at the last checked block, or a later one.          *)
AddressFollows ==
    \A c \in Chains : pc[c] = "idle" =>
        \A e \in InRange(c, 0, last[c]) \ dropped : Changed(e) => addr[c] >= Registered(c, e[2])

(* While no contract changes, the first time an event is handled all       *)
(* earlier events of its chain have been (line 111 sorts them).            *)
HandledInOrder ==
    [][Changeless' => \A e \in handled' \ handled :
                        InRange(e[1], 0, e[2]) \subseteq handled' \cup dropped']_vars

(* An event of a chain whose contract never changes is handled in the end, *)
(* unless a request or a handler lost it: its block is confirmed, the      *)
(* listener runs again, and a crash or rollback makes it run again.        *)
EventuallyHandled ==
    \A e \in Event : Len(log[e[1]]) >= e[2] + Confirmations
                        ~> (e \in handled \cup dropped \/ ~Changeless)

(* No event is lost between the chain, the table and the handlers, through  *)
(* rollbacks and crashes, and the listener follows the contract.  Lost are   *)
(* exactly those in dropped: what a request did not return, what a handler   *)
(* threw at, and what the failed handling of a change did not fetch.         *)
ListenerInv == MarkedWasHandled /\ NothingSkipped /\ AddressFollows
=============================================================================
