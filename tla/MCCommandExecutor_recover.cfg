SPECIFICATION FairSpec
CONSTANTS
    Ids = {c1, c2, c3}
    NoId = NoId
    Chains = {b1}
    NoChain = NoChain
    ListenerRetries = 1
    OpRetries = 1
    SeqLen = 0
    Parallelism = 1
    CleanBatch = 1
    MaxOpRows = 0
    MaxFaults = 2
    MaxRestarts = 1
PROPERTIES AlwaysListening
CHECK_DEADLOCK FALSE
