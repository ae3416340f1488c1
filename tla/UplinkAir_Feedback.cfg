SPECIFICATION AirSpec
CONSTANTS
    KnownNodes = {c1, c2}
    NoNode = NoNode
    FeedbackOrder <- Order
    DurationMs = 1
    GuardMs = 1
    IdleMs = 1
    MaxDelayMs = 1
    RedeclareMs = 0
    FecFlushIdleMs = 1
    FecEnabled = FALSE
    MaxPending = 1
    FeedbackPeriodMs = 2
    FeedbackMs = 1
INVARIANT OverlapBounded
