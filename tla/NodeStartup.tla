----------------------------- MODULE NodeStartup -----------------------------
(***************************************************************************)
(* OTNode.start() (ot-node.js): the modules, the key of the node, the      *)
(* paranets it is to keep a copy of, and on every blockchain the profile   *)
(* of the node, found or created; then the commands, the routers and the   *)
(* network.                                                                *)
(*                                                                         *)
(* The profiles of the blockchains are made concurrently; a blockchain     *)
(* whose profile cannot be had is removed and the node goes on without it. *)
(* The process may die anywhere and is started again: the key file and the *)
(* contracts outlive it.  Reads of a contract return its current state.    *)
(***************************************************************************)
EXTENDS Sequences, SequencesExt, FiniteSets, Integers

CONSTANTS
    StartChains,        \* the configured blockchains
    WalletsOf,          \* by blockchain: how many operational wallets it has
    CreateTries,        \* 3 in the code
    Paranets,           \* assetSync.syncParanets, as the contract has them
    MaxKeys, MaxStartFaults     \* bounds: keys generated; failures and deaths

ASSUME StartAssumption ==
    /\ IsFiniteSet(StartChains) /\ WalletsOf \in [StartChains -> Nat \ {0}]
    /\ CreateTries \in Nat \ {0} /\ MaxStartFaults \in Nat
    /\ MaxKeys \in Nat /\ MaxKeys > MaxStartFaults      \* no run lacks a key
    /\ Len(Paranets) \in Nat /\ DOMAIN Paranets = 1..Len(Paranets)
    /\ \A k \in DOMAIN Paranets :
           /\ DOMAIN Paranets[k] = {"chain", "access", "members"}
           /\ Paranets[k].access \in {"none", "open", "curated"}
           /\ 0 \notin Paranets[k].members     \* it is no identity

Foreign == MaxKeys + 1          \* the peer id of another node
BrokenKey == -1                 \* a key file that was not written to its end
Identities == {1, 2}            \* two wallets may belong to two identities

VARIABLES
    keyFile, keys,      \* the private key on disk, 0 for none; keys made so far
    identityOf,         \* contracts: by blockchain and wallet its identity, or 0
    nodeId,             \* contracts: by blockchain and identity the peer id
    stage,              \* how far start() is; "off" when no process runs
    peerId,
    registered,         \* the implementations of the blockchain module
    wallets, identity,  \* operationalWallets and identityId of an implementation
    profileAt, createTry,       \* createProfiles, by blockchain
    publicCurrent,      \* the configuration has the repository of version 6
    paranet, paranetStep,       \* the paranet that is looked at, and how far
    validParanets,      \* those that are synced
    toRecord, paranetRecords,   \* rows on their way to the table, and in it
    startFaults

chainState == <<keyFile, keys, identityOf, nodeId>>
loaded == <<peerId, registered, wallets, identity, profileAt, createTry>>
paranetVars == <<publicCurrent, paranet, paranetStep, validParanets, toRecord,
                 paranetRecords>>
startVars == <<chainState, stage, loaded, paranetVars, startFaults>>

StartFault == startFaults < MaxStartFaults /\ startFaults' = startFaults + 1

(* A node that never ran, or one that has its key, with whatever its wallets
   already have on the blockchains: nothing, its own profile, or another's. *)
StartInit ==
    /\ keyFile \in {0, 1} /\ keys = keyFile
    /\ identityOf \in {f \in [StartChains ->
                              UNION {[1..WalletsOf[c] -> 0..2] : c \in StartChains}] :
           \A c \in StartChains : DOMAIN f[c] = 1..WalletsOf[c]}
    /\ nodeId \in {f \in [StartChains -> [Identities -> {0, keyFile, Foreign}]] :
           \A c \in StartChains :
               /\ f[c][2] = Foreign
               /\ f[c][1] = 0 <=> \A w \in 1..WalletsOf[c] : identityOf[c][w] # 1}
    /\ stage = "off" /\ startFaults = 0
    /\ peerId = 0 /\ registered = {} /\ wallets = [c \in StartChains |-> <<>>]
    /\ identity = [c \in StartChains |-> 0] /\ createTry = identity
    /\ profileAt = [c \in StartChains |-> "exists"]
    /\ publicCurrent \in BOOLEAN /\ paranetRecords = {}
    /\ paranet = 1 /\ paranetStep = "read" /\ validParanets = {} /\ toRecord = {}

-----------------------------------------------------------------------------
(* index.js: a process with empty memory. *)
ProcessStarts ==
    /\ stage = "off"
    /\ stage' = "key"
    /\ peerId' = 0 /\ registered' = StartChains
    /\ wallets' = [c \in StartChains |-> [w \in 1..WalletsOf[c] |-> w]]
    /\ identity' = [c \in StartChains |-> 0] /\ createTry' = identity'
    /\ profileAt' = [c \in StartChains |-> "exists"]
    /\ paranet' = 1 /\ paranetStep' = "read" /\ validParanets' = {} /\ toRecord' = {}
    /\ UNCHANGED <<chainState, publicCurrent, paranetRecords, startFaults>>

(* stop(1), an error that nothing catches, or the end of the process; during a
   write of the key file half of it may be left. *)
StartEndsEarly ==
    /\ stage # "off" /\ StartFault
    /\ stage' = "off"
    /\ \/ UNCHANGED keyFile
       \/ stage = "save" /\ keyFile' = BrokenKey
    /\ UNCHANGED <<keys, identityOf, nodeId, loaded, paranetVars>>

(* The network module: its key from the file, or a new one. *)
ReadPrivateKey ==
    /\ stage = "key" /\ keyFile # BrokenKey
    /\ IF keyFile = 0
       THEN keys' = keys + 1 /\ peerId' = keys' /\ stage' = "save"
       ELSE peerId' = keyFile /\ stage' = "modules" /\ UNCHANGED keys
    /\ UNCHANGED <<keyFile, identityOf, nodeId, registered, wallets, identity,
                   profileAt, createTry, paranetVars, startFaults>>

(* Mutant: a key that was made is not saved. *)
SavePrivateKey_Not ==
    /\ stage = "save"
    /\ stage' = "modules"
    /\ UNCHANGED <<chainState, loaded, paranetVars, startFaults>>

SavePrivateKey ==
    /\ stage = "save"
    /\ keyFile' = peerId /\ stage' = "modules"
    /\ UNCHANGED <<keys, identityOf, nodeId, loaded, paranetVars, startFaults>>

(* A file that holds no key stops the node, each time. *)
KeyIsBroken ==
    /\ stage = "key" /\ keyFile = BrokenKey
    /\ stage' = "off"
    /\ UNCHANGED <<chainState, loaded, paranetVars, startFaults>>

Following == [modules |-> "events", events |-> "sharding", sharding |-> "paranets",
              executor |-> "routers", routers |-> "network",
              network |-> "up"]

(* The steps that start() takes one after the other; a failure of one ends the
   process (StartEndsEarly). *)
StageDone ==
    /\ stage \in DOMAIN Following
    /\ stage' = Following[stage]
    /\ UNCHANGED <<chainState, loaded, paranetVars, startFaults>>

-----------------------------------------------------------------------------
(* What the wallets' identities say: the first that is one is the node's. *)
Identified(c) == {k \in 1..Len(wallets[c]) : identityOf[c][wallets[c][k]] # 0}
FirstIdentity(c) ==
    LET first == CHOOSE k \in Identified(c) : \A j \in Identified(c) : k <= j
    IN IF Identified(c) = {} THEN 0 ELSE identityOf[c][wallets[c][first]]

Resolved(c) == IF identity[c] # 0 THEN identity[c] ELSE FirstIdentity(c)

Dropped(c, i) == {w \in Range(wallets[c]) : identityOf[c][w] # i}

(* For every wallet of another identity or of none, one is taken off the list:
   find() returns the wallet, which is no index, and splice takes the first. *)
KeepWallets(c, i) ==
    wallets' = [wallets EXCEPT ![c] =
        IF i = 0 \/ identity[c] # 0 THEN @
        ELSE SubSeq(@, Cardinality(Dropped(c, i)) + 1, Len(@))]

IdentityRead(c) ==
    identity' = [identity EXCEPT ![c] = Resolved(c)] /\ KeepWallets(c, Resolved(c))

-----------------------------------------------------------------------------
(* initializeParanets, one after the other: an error ends the process. *)

ParanetGoes(step) ==
    /\ paranetStep' = step /\ paranet' = IF step = "read" THEN paranet + 1 ELSE paranet
    /\ UNCHANGED <<keyFile, keys, identityOf, nodeId, peerId, registered, profileAt,
                   createTry, publicCurrent, startFaults>>

ParanetAt(step) ==
    stage = "paranets" /\ paranet \in DOMAIN Paranets /\ paranetStep = step

(* One that is not a UAL, of a blockchain the node does not have, or that the
   contract does not have is left out. *)
ExamineParanet ==
    /\ ParanetAt("read")
    /\ LET p == Paranets[paranet] IN
       ParanetGoes(IF p.chain \notin registered \/ p.access = "none" THEN "read"
                   ELSE IF p.access = "curated" THEN "identity" ELSE "repository")
    /\ UNCHANGED <<stage, wallets, identity, validParanets, toRecord, paranetRecords>>

(* The identity is asked for before createProfiles has looked for it or made
   one; a node that has none yet is no member. *)
CheckCurated ==
    /\ ParanetAt("identity")
    /\ LET p == Paranets[paranet] IN
       /\ IdentityRead(p.chain)
       /\ ParanetGoes(IF Resolved(p.chain) \in p.members THEN "repository" ELSE "read")
    /\ UNCHANGED <<stage, validParanets, toRecord, paranetRecords>>

(* initializeParanetRepository takes the address of the repository of version
   6, and throws if the configuration does not have it. *)
InitializeParanetRepository ==
    /\ ParanetAt("repository")
    /\ validParanets' = validParanets \cup {paranet}
    /\ stage' = IF publicCurrent THEN stage ELSE "off"
    /\ ParanetGoes("record")
    /\ UNCHANGED <<wallets, identity, toRecord, paranetRecords>>

(* initializeParanetRecord: nobody waits for the row that is made. *)
InitializeParanetRecord ==
    /\ ParanetAt("record")
    /\ toRecord' = toRecord \cup ({paranet} \ paranetRecords)
    /\ ParanetGoes("read")
    /\ UNCHANGED <<stage, wallets, identity, validParanets, paranetRecords>>

RecordLands(k) ==
    /\ stage # "off" /\ k \in toRecord
    /\ toRecord' = toRecord \ {k} /\ paranetRecords' = paranetRecords \cup {k}
    /\ UNCHANGED <<chainState, stage, loaded, publicCurrent, paranet, paranetStep,
                   validParanets, startFaults>>

ParanetsDone ==
    /\ stage = "paranets" /\ paranet \notin DOMAIN Paranets
    /\ stage' = "profiles"
    /\ UNCHANGED <<chainState, loaded, paranetVars, startFaults>>

(* startParanetSyncCommands, once the commands run: resolveUAL gives no
   tokenId, the id of the paranet cannot be made of it, and nothing catches
   the error of the callback. *)
StartParanetSync ==
    /\ stage = "up" /\ validParanets # {}
    /\ stage' = "off"
    /\ UNCHANGED <<chainState, loaded, paranetVars, startFaults>>

ParanetStep ==
    \/ ExamineParanet \/ CheckCurated \/ InitializeParanetRepository
    \/ InitializeParanetRecord \/ ParanetsDone \/ StartParanetSync
    \/ \E k \in DOMAIN Paranets : RecordLands(k)

-----------------------------------------------------------------------------
(* createProfiles, for each blockchain on its own. *)

Goes(c, step) == profileAt' = [profileAt EXCEPT ![c] = step]

(* The only one left is removed whatever name is given. *)
RemoveImplementation(c) ==
    registered' = IF Cardinality(registered) = 1 THEN {} ELSE registered \ {c}

ProfileFails(c) ==
    /\ stage = "profiles" /\ profileAt[c] \notin {"done", "removed"}
    /\ StartFault /\ RemoveImplementation(c) /\ Goes(c, "removed")
    /\ UNCHANGED <<chainState, stage, peerId, wallets, identity, createTry,
                   paranetVars>>

GetIdentityId(c) ==
    /\ stage = "profiles" /\ profileAt[c] \in {"exists", "identity"}
    /\ IdentityRead(c)
    /\ Goes(c, IF profileAt[c] = "identity" THEN "done"
               ELSE IF Resolved(c) = 0 THEN "create" ELSE "check")
    /\ UNCHANGED <<chainState, stage, peerId, registered, createTry, paranetVars,
                   startFaults>>

-----------------------------------------------------------------------------
(* What the contract does with createProfile: identity 1 for all wallets. *)
Created(c) ==
    /\ identityOf' = [identityOf EXCEPT ![c] = [w \in DOMAIN @ |-> 1]]
    /\ nodeId' = [nodeId EXCEPT ![c][1] = peerId]

NotCreated == UNCHANGED <<identityOf, nodeId>>
Exists(c) == \E w \in DOMAIN identityOf[c] : identityOf[c][w] # 0

CreateProfile(c) ==
    /\ stage = "profiles" /\ profileAt[c] = "create"
    /\ IF Exists(c) THEN NotCreated ELSE Created(c)     \* "Profile already exists"
    /\ Goes(c, "identity")
    /\ UNCHANGED <<keyFile, keys, stage, peerId, registered, wallets, identity,
                   createTry, paranetVars, startFaults>>

TryAgain(c) == createTry[c] + 1 < CreateTries

(* An error, whether the transaction was mined or not: wait and try again, or
   do without the blockchain.  A transaction that was mined and failed, but
   whose call then passes, goes for a created profile. *)
CreateProfileFails(c) ==
    /\ stage = "profiles" /\ profileAt[c] = "create" /\ StartFault
    /\ \/ /\ NotCreated \/ (~Exists(c) /\ Created(c))
          /\ IF TryAgain(c)
             THEN /\ createTry' = [createTry EXCEPT ![c] = @ + 1]
                  /\ UNCHANGED <<profileAt, registered>>
             ELSE /\ Goes(c, "removed") /\ RemoveImplementation(c)
                  /\ UNCHANGED createTry
       \/ NotCreated /\ Goes(c, "identity") /\ UNCHANGED <<createTry, registered>>
    /\ UNCHANGED <<keyFile, keys, stage, peerId, wallets, identity, paranetVars>>

CheckNodeId(c) ==
    /\ stage = "profiles" /\ profileAt[c] = "check"
    /\ IF nodeId[c][identity[c]] = peerId
       THEN Goes(c, "done") /\ UNCHANGED registered
       ELSE Goes(c, "removed") /\ RemoveImplementation(c)
    /\ UNCHANGED <<chainState, stage, peerId, wallets, identity, createTry,
                   paranetVars, startFaults>>

(* Mutant: a blockchain that was removed is waited for. *)
ProfilesDone_All ==
    /\ stage = "profiles"
    /\ \A c \in StartChains : profileAt[c] = "done"
    /\ stage' = "executor"
    /\ UNCHANGED <<chainState, loaded, paranetVars, startFaults>>

ProfilesDone ==
    /\ stage = "profiles"
    /\ \A c \in StartChains : profileAt[c] \in {"done", "removed"}
    /\ stage' = IF registered = {} THEN "off" ELSE "executor"
    /\ UNCHANGED <<chainState, loaded, paranetVars, startFaults>>

ChainStep(c) == \/ GetIdentityId(c) \/ CreateProfile(c) \/ CreateProfileFails(c)
                \/ CheckNodeId(c) \/ ProfileFails(c)

StartStep ==
    \/ ReadPrivateKey \/ SavePrivateKey \/ KeyIsBroken \/ StageDone \/ ParanetStep
    \/ ProfilesDone
    \/ \E c \in StartChains : ChainStep(c)

StartNext == ProcessStarts \/ StartEndsEarly \/ StartStep

StartSpec == StartInit /\ [][StartNext]_startVars /\ WF_startVars(StartStep)

-----------------------------------------------------------------------------
StartTypeOK ==
    /\ keyFile \in -1..MaxKeys /\ keys \in 0..MaxKeys /\ peerId \in 0..MaxKeys
    /\ \A c \in StartChains :
           /\ identityOf[c] \in [1..WalletsOf[c] -> 0..2]
           /\ Range(wallets[c]) \subseteq 1..WalletsOf[c]
    /\ nodeId \in [StartChains -> [Identities -> 0..Foreign]]
    /\ registered \subseteq StartChains
    /\ identity \in [StartChains -> 0..2]
    /\ createTry \in [StartChains -> 0..CreateTries - 1]
    /\ profileAt \in [StartChains -> {"exists", "create", "identity", "check",
                                      "done", "removed"}]
    /\ stage \in {"off", "key", "save", "paranets", "profiles", "up"} \cup DOMAIN Following
    /\ publicCurrent \in BOOLEAN /\ paranet \in 1..Len(Paranets) + 1
    /\ paranetStep \in {"read", "identity", "repository", "record"}
    /\ validParanets \cup toRecord \cup paranetRecords \subseteq DOMAIN Paranets
    /\ startFaults \in 0..MaxStartFaults

Started == stage \in {"executor", "routers", "network", "up"}

(* A node that starts serves a blockchain only under a profile with its own
   peer id: whatever its wallets had on it, whichever attempts to create the
   profile failed or were lost, and however often the process died between. *)
UpIsOurs ==
    Started => /\ registered # {}
               /\ \A c \in registered : identity[c] # 0 => nodeId[c][identity[c]] = peerId

(* The blockchains that are removed are those whose profile could not be had,
   and no other: they are removed while the others are still at work. *)
RemovedAreTheFailed ==
    stage = "profiles" \/ Started => registered = {c \in StartChains : profileAt[c] # "removed"}

(* A key that a profile was made with is the key on disk: a node that dies at
   any step of its first start is the same node when it starts again. *)
KeyOutlivesProfile ==
    \A c \in StartChains : nodeId[c][1] \in 1..MaxKeys => nodeId[c][1] = keyFile

(* As many wallets sign for the node as have its identity.  (Which ones is
   another matter: see KeepWallets.) *)
WalletsCounted ==
    Started => \A c \in registered :
        identity[c] # 0 => Len(wallets[c])
            = Cardinality({w \in DOMAIN identityOf[c] : identityOf[c][w] = identity[c]})

(* The identity that was let into a curated paranet is the one the node serves
   its blockchain under, though it was asked for before the profiles were made,
   and what the paranet needs is there or on its way. *)
SyncedAsMember ==
    Started => \A k \in validParanets :
        /\ publicCurrent /\ k \in toRecord \cup paranetRecords
        /\ LET p == Paranets[k] IN
           p.access = "curated" /\ p.chain \in registered => identity[p.chain] \in p.members

(* A start comes to an end: the node is up or the process is gone. *)
StartReturns == (stage = "key") ~> (stage \in {"up", "off"})

(* What a node that is up believes of its key, profiles, wallets and
   blockchains is so. *)
StartInv == /\ UpIsOurs /\ RemovedAreTheFailed /\ KeyOutlivesProfile /\ WalletsCounted
            /\ SyncedAsMember
=============================================================================
