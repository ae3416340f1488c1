SPECIFICATION Spec
CONSTANTS
    MaxJobs = 2
    MaxDisturbances = 1
INVARIANTS IdleIsFree OutcomeIsOwn OneLink
PROPERTIES StoppedStays RunsWithTask OwnTerminal
