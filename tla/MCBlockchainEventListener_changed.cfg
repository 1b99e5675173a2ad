SPECIFICATION Spec
CONSTANTS
    Chains = {c1}
    Kinds = {"created", "changed"}
    MaxBlocks = 3
    Confirmations = 0
    SyncWindow = 3
    MaxFaults = 0
INVARIANTS RefetchedWasHandled
