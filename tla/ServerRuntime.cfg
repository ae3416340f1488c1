SPECIFICATION FairSpec
CONSTANTS
    Participants = {n1, n2}
    MinUpdates = 1
    MaxRounds = 2
    n1 = n1
    n2 = n2
INVARIANTS
    OneActiveRound
    SuccessMeansQuota
    DownlinkBarrier
    FailureIsOwn
    CancelReaches
PROPERTIES
    TerminalFinal
    FailureStopsPublish
    WaitEnds
