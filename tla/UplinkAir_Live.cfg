SPECIFICATION FairAirSpec
CONSTANTS
    KnownNodes = {c1, c2}
    NoNode = NoNode
    FeedbackOrder <- Order
    DurationMs = 1
    GuardMs = 0
    IdleMs = 1
    MaxDelayMs = 0
    RedeclareMs = 0
    FecFlushIdleMs = 1
    FecEnabled = FALSE
    MaxPending = 1
    FeedbackPeriodMs = 0
    FeedbackMs = 0
PROPERTY PendingServed
