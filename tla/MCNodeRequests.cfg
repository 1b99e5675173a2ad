SPECIFICATION RequestsSpec
CONSTANTS
    StoreOps = {"publish"}
    GetOps = {"get", "absent"}
    AskOps = {"ask"}
    FinalityOps = {"finality"}
    V6Stored = {}
    V8Stored = {"get"}
    HandlerRetries = 1
    MaxStreams = 2
    MaxSessionFaults = 1
    Shard = {"p", "n"}
    Publisher = "p"
    Mismatched = {"n"}
    ReadRetries = 2
    MaxHandled <- MCMaxHandled
    MaxFinFaults = 2
    InsertsV8 = {"a", "b"}
    InsertsV6 = {"c"}
    LocalReads = {"g"}
    RemoteReads = {"h"}
    InsertRetries = 2
    MaxStoreFaults = 1
    Queries = {"q"}
    Expiry = 1
    MaxTime = 3
    MaxRestarts = 1
    MaxCacheFaults = 1
    Operations = {"o1", "o2"}
    RequestsOf <- MCRequestsOf
    MaxApiFaults = 1
INVARIANTS RequestsTypeOK SessionInv FinalityInv StoreInv CacheInv ApiInv
PROPERTIES ImplementsAnswer CachedIsStored VerdictStays RequestsGoOn
CHECK_DEADLOCK FALSE
