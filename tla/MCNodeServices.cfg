SPECIFICATION ServicesSpec
CONSTANTS
    Chains = {"c1"}
    Kinds = {"created", "changed"}
    MaxBlocks = 4
    Confirmations = 1
    SyncWindow = 2
    MaxFaults = 1
    Nodes = {1, 2, 3}
    TablePage = 2
    DialLimit = 1
    MaxChanges = 1
    MaxTableFaults = 1
    RemovalMax = 2
    CleanupDelay = 1
    MaxRows = 3
    MaxClock = 3
    MaxCleanFaults = 1
    MigChains = 2
    Listed <- MCListed
    Minted <- MCMinted
    Contents <- MCContents
    BatchSize = 2
    ConnectRetries = 1
    TripleStore = "ot-graphdb"
    MaxMigFaults = 3
    Newest = 3
    MaxUpdFaults = 2
    Migrations <- MCMigrations
    BootChains <- MCBootChains
    Endpoints = 1
    Repositories = {"dkg"}
    TripleStoreRetries = 1
    MaxBootFaults = 2
    StartChains = {"c1", "c2"}
    WalletsOf <- MCWalletsOf
    CreateTries = 3
    Paranets <- MCParanets
    MaxKeys = 4
    MaxStartFaults = 2
    Chats = {"w1", "w2"}
    MaxMessages = 4
    MaxChatFaults = 1
    Pages = {"a", "b"}
    Requests = {"r1"}
    PageOf <- MCPageOf
    MaxChunks = 2
    MaxSecond = 1
    Releases = {46, 60}
    MaxDatabaseFaults = 2
INVARIANTS ServicesTypeOK ListenerInv MigInv BootInv StartInv PlatformInv DatabaseInv
PROPERTIES HandledInOrder TableKept RowsKept UpdateKept ServicesGoOn
CHECK_DEADLOCK FALSE
