SPECIFICATION FairSpec
CONSTANTS
    MaxOthers = 3
    Membership = {TRUE, FALSE}
    BatchSize = 2
    MinAck = 1
    OtherMinima = {}
    Retries = 2
    MaxCopies = 2
    MaxFaults = 1
INVARIANTS TypeOK GetInv
PROPERTIES ImplementsVerdict GetDecided
CHECK_DEADLOCK FALSE
