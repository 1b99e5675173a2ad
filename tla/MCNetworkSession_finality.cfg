SPECIFICATION SessionSpec
CONSTANTS
    StoreOps = {"publish"}
    GetOps = {}
    AskOps = {}
    FinalityOps = {"finality"}
    V6Stored = {}
    V8Stored = {}
    HandlerRetries = 1
    MaxStreams = 2
    MaxSessionFaults = 1
INVARIANTS FinalityIsAnswered
CHECK_DEADLOCK FALSE
