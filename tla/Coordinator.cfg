SPECIFICATION Spec
CONSTANTS
    RoundsTotal = 6
INVARIANTS
    SummaryAgrees
PROPERTIES
    KeepsToJobThread
    AbortEnds
