SPECIFICATION Spec
CONSTANTS
    MaxOthers = 4
    Membership = {FALSE}
    BatchSize = 2
    MinAck = 2
    OtherMinima = {}
    Retries = 0
    MaxCopies = 2
    MaxFaults = 0
    IsOperationV0 = FALSE
INVARIANTS MinAcksDistinct
CHECK_DEADLOCK FALSE
