SPECIFICATION FairSpec
CONSTANTS
    MaxOthers = 3
    Membership = {TRUE, FALSE}
    BatchSize = 2
    MinAck = 3
    OtherMinima = {1, 4}
    Retries = 0
    MaxCopies = 2
    MaxFaults = 2
    IsOperationV0 = FALSE
INVARIANTS TypeOK MinAcksTold MemberFailedIsHopeless PublishInv
PROPERTIES ImplementsVerdict EventuallyDecided MinAcksReported
CHECK_DEADLOCK FALSE
