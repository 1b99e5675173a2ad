SPECIFICATION FairSpec
CONSTANTS
    MaxOthers = 3
    Membership = {TRUE}
    BatchSize = 2
    MinAck = 1
    OtherMinima = {}
    Retries = 0
    MaxCopies = 2
    MaxFaults = 0
PROPERTIES EventuallyDecided
CHECK_DEADLOCK FALSE
