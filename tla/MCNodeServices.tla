--------------------------- MODULE MCNodeServices ---------------------------
(***************************************************************************)
(* What runs beside the requests of a node: the blockchain listener, the   *)
(* sharding table, the cleaners, the data migration, the update, the boot  *)
(* and the start of the node, and its database over the releases; and two  *)
(* programs of the platform, the chat relay of the portal and the scraping *)
(* of the companion app.  They share no variable: every behaviour is that  *)
(* of the one in focus, as in MCNodeRequests.                              *)
(***************************************************************************)
EXTENDS BlockchainEventListener, ShardingTable, RecordCleaner, V8DataMigration,
        AutoUpdate, NodeBoot, NodeStartup, Platform, DatabaseSchema

(* One blockchain with two wallets, one with one.                          *)
MCWalletsOf == "c1" :> 2 @@ "c2" :> 1

(* A curated paranet, and one of a blockchain the node does not have.      *)
MCParanets == << [chain |-> "c1", access |-> "curated", members |-> {1}],
                 [chain |-> "c3", access |-> "open", members |-> {}] >>

(* The page of the request is also one of the results.                     *)
MCPageOf == "r1" :> "a"

(* The tokens of the migration: those the database lists, which leave out  *)
(* one, how many were minted, and what each holds; the newest is           *)
(* unreadable or not.                                                      *)
MCListed == <<{1, 3}, {1}>>
MCMinted == <<4, 2>>
MCReadable ==
    <<1, 1>> :> "public" @@ <<1, 2>> :> "private" @@ <<1, 3>> :> "illegal" @@
    <<1, 4>> :> "absent" @@ <<2, 1>> :> "absent" @@ <<2, 2>> :> "public"
MCContents == {MCReadable, [MCReadable EXCEPT ![<<2, 2>>] = "unreadable"]}

(* The release that is started adds two migrations to the first.            *)
MCMigrations == <<"create", "transaction", "alter">>
MCBootChains == <<"c1">>

VARIABLE focus

allVars == <<focus, vars, tableVars, cleanVars, migVars, updVars, bootVars, startVars,
             chatVars, companionVars, databaseVars>>

Components == {"listener", "table", "cleaner", "migration", "update", "boot", "startup",
               "chat", "companion", "database"}

(* Of what is not in focus, one initial state is enough; nodes of the        *)
(* contract's table are alike, but for their order.                        *)
OneOfMany ==
    /\ onChain \in IF focus = "table" THEN {<<1>>, <<1, 2>>, <<1, 2, 3>>} ELSE {<<1>>}
    /\ focus # "migration" => holds = MCReadable
    /\ recorded = {1} /\ configFile = "old" /\ there = {}
    /\ focus # "database" => release = AllMigrations

OneStart ==
    focus # "startup" =>
        keyFile = 0 /\ ~publicCurrent /\ \A c \in StartChains : \A w \in 1..WalletsOf[c] : identityOf[c][w] = 0

ServicesInit ==
    /\ focus \in Components
    /\ Init /\ TableInit /\ CleanInit /\ MigInit /\ UpdInit /\ BootInit
    /\ ChatInit /\ CompanionInit /\ DatabaseInit /\ OneOfMany
    /\ StartInit /\ OneStart

Keep(others) == UNCHANGED <<focus, others>>

ServicesNext ==
    \/ /\ focus = "listener" /\ Next
       /\ Keep(<<tableVars, cleanVars, migVars, updVars, bootVars,
                 startVars, chatVars, companionVars, databaseVars>>)
    \/ /\ focus = "table" /\ TableNext
       /\ Keep(<<vars, cleanVars, migVars, updVars, bootVars,
                 startVars, chatVars, companionVars, databaseVars>>)
    \/ /\ focus = "cleaner" /\ CleanNext
       /\ Keep(<<vars, tableVars, migVars, updVars, bootVars,
                 startVars, chatVars, companionVars, databaseVars>>)
    \/ /\ focus = "migration" /\ MigNext
       /\ Keep(<<vars, tableVars, cleanVars, updVars, bootVars,
                 startVars, chatVars, companionVars, databaseVars>>)
    \/ /\ focus = "update" /\ UpdNext
       /\ Keep(<<vars, tableVars, cleanVars, migVars, bootVars,
                 startVars, chatVars, companionVars, databaseVars>>)
    \/ /\ focus = "boot" /\ BootNext
       /\ Keep(<<vars, tableVars, cleanVars, migVars, updVars,
                 startVars, chatVars, companionVars, databaseVars>>)
    \/ /\ focus = "startup" /\ StartNext
       /\ Keep(<<vars, tableVars, cleanVars, migVars, updVars,
                 bootVars, chatVars, companionVars, databaseVars>>)
    \/ /\ focus = "chat" /\ ChatNext
       /\ Keep(<<vars, tableVars, cleanVars, migVars, updVars,
                 bootVars, startVars, companionVars, databaseVars>>)
    \/ /\ focus = "companion" /\ CompanionNext
       /\ Keep(<<vars, tableVars, cleanVars, migVars, updVars,
                 bootVars, startVars, chatVars, databaseVars>>)
    \/ /\ focus = "database" /\ DatabaseNext
       /\ Keep(<<vars, tableVars, cleanVars, migVars, updVars,
                 bootVars, startVars, chatVars, companionVars>>)

ServicesFairness ==
    /\ \A c \in Chains : WF_vars(focus = "listener" /\ Step(c))
    /\ WF_tableVars(focus = "table" /\ TableStep)
    /\ WF_tableVars(focus = "table" /\ DialStep)
    /\ WF_tableVars(focus = "table" /\ TimePasses)
    /\ WF_cleanVars(focus = "cleaner" /\ CleanerStep)
    /\ WF_migVars(focus = "migration" /\ MigStep)
    /\ WF_bootVars(focus = "boot" /\ BootStep)
    /\ WF_startVars(focus = "startup" /\ StartStep)
    /\ \A c \in Chats : WF_chatVars(focus = "chat" /\ ChatStep(c))

ServicesSpec == ServicesInit /\ [][ServicesNext]_allVars /\ ServicesFairness

(* The type invariants of the components. *)
ServicesTypeOK ==
    /\ TypeOK /\ TableTypeOK /\ CleanTypeOK /\ MigTypeOK /\ UpdTypeOK /\ BootTypeOK
    /\ StartTypeOK /\ ChatTypeOK /\ CompanionTypeOK /\ DatabaseTypeOK

(* No service starves and none stops halfway: events are handled, peers     *)
(* dialled, cleaners end, the migration and the start of a node get through *)
(* their failures, and a question is answered.                              *)
ServicesGoOn ==
    /\ EventuallyHandled /\ DialledAgain /\ CleanerEnds /\ MigrationEnds /\ BootEnds
    /\ StartReturns /\ ChatReturns
=============================================================================
