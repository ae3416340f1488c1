SPECIFICATION FairServerSpec
CONSTANTS
    KnownNodes = {c1, c2}
    NoNode = NoNode
    FeedbackOrder <- Order
    DurationMs = 2
    GuardMs = 1
    IdleMs = 1
    FeedbackPeriodMs = 3
    FeedbackMs = 1
PROPERTIES RotationGoesOn FeedbackGoesOn SilentSeatsShrink
