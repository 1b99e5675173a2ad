SPECIFICATION FairSpec
CONSTANTS
    Ids = {c1, c2, c3}
    NoId = NoId
    Chains = {b1}
    NoChain = NoChain
    ListenerRetries = 2
    OpRetries = 1
    SeqLen = 1
    Parallelism = 1
    CleanBatch = 1
    MaxOpRows = 2
    MaxFaults = 2
    MaxRestarts = 1
PROPERTIES SequenceGoesOn ListenersKeepRunning
CHECK_DEADLOCK FALSE
