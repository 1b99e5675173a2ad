SPECIFICATION Spec
CONSTANTS
    Ids = {c1, c2, c3, c4}
    NoId = NoId
    Chains = {b1}
    NoChain = NoChain
    ListenerRetries = 1
    OpRetries = 2
    SeqLen = 2
    Parallelism = 2
    CleanBatch = 1
    MaxOpRows = 3
    MaxFaults = 2
    MaxRestarts = 1
SYMMETRY IdSymmetry
INVARIANTS TypeOK ParentFirst CompletedIsOver OneListener
PROPERTIES NoSilentDrop
CHECK_DEADLOCK FALSE
