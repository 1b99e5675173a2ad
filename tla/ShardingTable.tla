---------------------------- MODULE ShardingTable ----------------------------
(***************************************************************************)
(* The node's copy of the sharding table of one blockchain                 *)
(* (sharding-table-service.js): shardingTableCheckCommand pulls it anew    *)
(* from the contract when the lengths differ, in one transaction, and      *)
(* dialPeersCommand keeps in touch with the peers in it.                   *)
(*                                                                         *)
(* The contract's table is a list that nodes join and leave at any time,   *)
(* also between two of the calls that a pull reads it with.  Time passes   *)
(* in units of PEER_RECORD_UPDATE_DELAY, half of MIN_DIAL_FREQUENCY_MILLIS.*)
(***************************************************************************)
EXTENDS Naturals, Sequences, SequencesExt, FiniteSets

CONSTANTS
    Nodes,                  \* who may be in the table
    TablePage, DialLimit,   \* pageSize and DIAL_PEERS_CONCURRENCY, 10 in the code
    MaxChanges, MaxTableFaults      \* bounds: of the contract's table; failures

ASSUME TableAssumption ==
    /\ Nodes # {} /\ IsFiniteSet(Nodes)
    /\ TablePage \in Nat /\ TablePage > 1 /\ DialLimit \in Nat \ {0}
    /\ MaxChanges \in Nat /\ MaxTableFaults \in Nat

VARIABLES
    onChain,            \* the contract's table
    changes, tableFaults,
    shard,              \* the rows of the table shard, as committed
    pullAt, length, from, slice, pulled,    \* pullBlockchainShardingTable
    stable,             \* ghost: the contract's table is the one it began with
    lastDialed,         \* the nodes of the rows, the one that was updated longest ago first
    age,                \* of that update, in units, 2 for all beyond
    knownDialed, knownSeen,     \* memoryCachedPeerIds: who was updated in this unit
    dialing             \* the peers that dialPeersCommand awaits

pullVars == <<pullAt, length, from, slice, pulled, stable>>
peerVars == <<lastDialed, age, knownDialed, knownSeen, dialing>>
tableVars == <<onChain, changes, tableFaults, shard, pullVars, peerVars>>

TableInit ==
    /\ \E members \in (SUBSET Nodes) \ {{}} : onChain \in SetToSeqs(members)
    /\ changes = 0 /\ tableFaults = 0
    /\ shard = {}
    /\ pullAt = "idle" /\ length = 0 /\ from = 0 /\ slice = 0 /\ pulled = <<>>
    /\ stable = FALSE
    /\ lastDialed = <<>> /\ age = [n \in Nodes |-> 2]
    /\ knownDialed = {} /\ knownSeen = {} /\ dialing = {}

-----------------------------------------------------------------------------
(* The contract. *)
TableChanges ==
    /\ changes < MaxChanges /\ changes' = changes + 1
    /\ \/ \E n \in Nodes \ Range(onChain), i \in 1..Len(onChain) + 1 :
              onChain' = InsertAt(onChain, i, n)
       \/ \E i \in 1..Len(onChain) : Len(onChain) > 1 /\ onChain' = RemoveAt(onChain, i)
    /\ stable' = FALSE
    /\ UNCHANGED <<tableFaults, shard, pullAt, length, from, slice, pulled,
                   peerVars>>

(* getShardingTable(start, n), for a start that is in the table. *)
Page(start) ==
    LET i == CHOOSE j \in 1..Len(onChain) : onChain[j] = start
    IN SubSeq(onChain, i, IF i + TablePage - 1 < Len(onChain) THEN i + TablePage - 1
                                                              ELSE Len(onChain))

-----------------------------------------------------------------------------
(* The locals of a pull that has ended. *)
PullForgotten ==
    pullAt' = "idle" /\ length' = 0 /\ from' = 0 /\ slice' = 0 /\ pulled' = <<>>
    /\ stable' = FALSE

(* shardingTableCheckCommand compares the lengths and nothing else. *)
CheckShardingTable ==
    /\ pullAt = "idle" /\ Len(onChain) # Cardinality(shard)
    /\ pullAt' = "remove" /\ stable' = TRUE
    /\ UNCHANGED <<onChain, changes, tableFaults, shard, length, from, slice,
                   pulled, peerVars>>

RemovePeerRecords ==
    /\ pullAt = "remove"
    /\ pullAt' = "length"
    /\ UNCHANGED <<onChain, changes, tableFaults, shard, length, from, slice, pulled,
                   stable, peerVars>>

ReadLength ==
    /\ pullAt = "length"
    /\ length' = Len(onChain) /\ pullAt' = "head"
    /\ UNCHANGED <<onChain, changes, tableFaults, shard, from, slice, pulled,
                   stable, peerVars>>

ReadHead ==
    /\ pullAt = "head"
    /\ from' = Head(onChain) /\ slice' = 0 /\ pulled' = <<>> /\ pullAt' = "page"
    /\ UNCHANGED <<onChain, changes, tableFaults, shard, length, stable,
                   peerVars>>

(* Mutant: one node short. *)
PulledAll_Early == Len(pulled) + 1 >= length

PulledAll == Len(pulled) >= length

(* The next page begins with the last node of this one. *)
Sliced(page) == SubSeq(page, slice + 1, Len(page))

(* While fewer nodes came than the contract counted.  After a node has left
   the last page comes back for ever, until another one joins. *)
ReadPage ==
    /\ pullAt = "page" /\ ~PulledAll /\ from \in Range(onChain)
    /\ pulled' = pulled \o Sliced(Page(from))
    /\ slice' = 1 /\ from' = Last(Page(from))
    /\ UNCHANGED <<onChain, changes, tableFaults, shard, pullAt, length,
                   stable, peerVars>>

(* Rows that are made anew were never dialled: they come in any order. *)
CreatePeerRecords ==
    /\ pullAt = "page" /\ PulledAll
    /\ shard' = Range(pulled) /\ PullForgotten
    /\ lastDialed' \in SetToSeqs(shard')
    /\ age' = [n \in Nodes |-> IF n \in shard' THEN 2 ELSE age[n]]
    /\ UNCHANGED <<onChain, changes, tableFaults,
                   knownDialed, knownSeen, dialing>>

(* A call fails, as it does when its start has left: rollback, and repeat. *)
PullFails ==
    /\ pullAt # "idle"
    /\ \/ tableFaults < MaxTableFaults /\ tableFaults' = tableFaults + 1
       \/ pullAt = "page" /\ from \notin Range(onChain) /\ UNCHANGED tableFaults
    /\ PullForgotten
    /\ UNCHANGED <<onChain, changes, shard, peerVars>>

-----------------------------------------------------------------------------
(* The rows with the oldest lastDialed of those not dialled for two units. *)
ToDial ==
    LET due == {i \in 1..Len(lastDialed) : age[lastDialed[i]] = 2}
    IN {lastDialed[i] : i \in {j \in due : Cardinality({k \in due : k < j}) < DialLimit}}

DialPeers ==
    /\ dialing = {} /\ ToDial # {}
    /\ dialing' = ToDial
    /\ UNCHANGED <<onChain, changes, tableFaults, shard, pullVars, lastDialed, age,
                   knownDialed, knownSeen>>

(* Not if memory says it was done in this unit, whatever the row says; only
   what was written to a row is remembered. *)
UpdateLastDialed(p, seen) ==
    IF p \in shard /\ (p \notin knownDialed \/ (seen /\ p \notin knownSeen))
    THEN /\ age' = [age EXCEPT ![p] = 0]
         /\ \E i \in 1..Len(lastDialed) :
                lastDialed[i] = p /\ lastDialed' = Append(RemoveAt(lastDialed, i), p)
         /\ knownDialed' = knownDialed \cup {p}
         /\ knownSeen' = IF seen THEN knownSeen \cup {p} ELSE knownSeen
    ELSE UNCHANGED <<age, lastDialed, knownDialed, knownSeen>>

(* The peer answers; or it has no address, or cannot be reached. *)
Dial(p) ==
    /\ p \in dialing
    /\ \E seen \in BOOLEAN : UpdateLastDialed(p, seen)
    /\ dialing' = dialing \ {p}
    /\ UNCHANGED <<onChain, changes, tableFaults, shard, pullVars>>

(* A peer that connects by itself. *)
PeerConnects(p) ==
    /\ UpdateLastDialed(p, TRUE)
    /\ UNCHANGED <<onChain, changes, tableFaults, shard, pullVars, dialing>>

TimePasses ==
    /\ age' = [n \in Nodes |-> IF age[n] < 2 THEN age[n] + 1 ELSE 2]
    /\ knownDialed' = {} /\ knownSeen' = {}
    /\ UNCHANGED <<onChain, changes, tableFaults, shard, pullVars, lastDialed, dialing>>

TableStep == \/ CheckShardingTable \/ RemovePeerRecords \/ ReadLength \/ ReadHead
             \/ ReadPage \/ CreatePeerRecords \/ PullFails
DialStep == DialPeers \/ \E p \in Nodes : Dial(p)

TableNext ==
    \/ TableChanges \/ TableStep \/ DialStep \/ TimePasses
    \/ \E p \in Nodes : PeerConnects(p)

TableSpec ==
    /\ TableInit /\ [][TableNext]_tableVars
    /\ WF_tableVars(TableStep) /\ WF_tableVars(DialStep) /\ WF_tableVars(TimePasses)

-----------------------------------------------------------------------------
TableTypeOK ==
    /\ Range(onChain) \subseteq Nodes /\ Len(onChain) = Cardinality(Range(onChain))
    /\ shard \subseteq Nodes /\ stable \in BOOLEAN
    /\ pullAt \in {"idle", "remove", "length", "head", "page"}
    /\ length \in 0..Cardinality(Nodes) /\ from \in Nodes \cup {0} /\ slice \in {0, 1}
    /\ Range(pulled) \subseteq Nodes
    /\ age \in [Nodes -> 0..2] /\ Range(lastDialed) = shard
    /\ knownSeen \subseteq knownDialed /\ dialing \subseteq Nodes
    /\ changes \in 0..MaxChanges /\ tableFaults \in 0..MaxTableFaults

(* No operation finds the table empty or half filled while it is pulled anew:
   once there, the rows stay until other rows take their place. *)
NeverEmptied == [][shard # {} => shard' # {}]_tableVars

(* The pages of a pull put together are the contract's table, no node twice and
   none left out, if it does not change meanwhile: at whatever page it ends. *)
PulledIsWhole ==
    [][shard' # shard /\ stable => shard' = Range(onChain)]_tableVars

(* Every peer in the table is dialled or heard of again and again: the limit
   of a round, peers that never answer, pulls that make the rows anew and the
   memory of earlier updates do not starve one. *)
DialledAgain == \A p \in Nodes : []<>(p \notin shard \/ age[p] < 2)

(* What operations read of the table is a whole one, before and after a pull. *)
TableKept == NeverEmptied /\ PulledIsWhole
=============================================================================
