SPECIFICATION Spec
CONSTANTS
    Chains = {c1, c2}
    Kinds = {"created"}
    MaxBlocks = 2
    Confirmations = 0
    SyncWindow = 3
    MaxFaults = 0
INVARIANTS MarkedWasHandled
