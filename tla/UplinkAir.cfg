SPECIFICATION AirSpec
CONSTANTS
    KnownNodes = {c1, c2}
    NoNode = NoNode
    FeedbackOrder <- Order
    DurationMs = 1
    GuardMs = 2
    IdleMs = 1
    MaxDelayMs = 1
    RedeclareMs = 1
    FecFlushIdleMs = 1
    FecEnabled = TRUE
    MaxPending = 1
    FeedbackPeriodMs = 0
    FeedbackMs = 0
INVARIANT MutualExclusion
PROPERTY NoCollision
SYMMETRY Clients
