SPECIFICATION FSpec
CONSTANTS
    KnownNodes = {n1, n2, n3, n4}
    NoNode = NoNode
    DurationMs = 1
    GuardMs = 0
    IdleMs = 1
    Waiter = n1
    Overtaker = n2
INVARIANTS QueueSound BoundedBypass
PROPERTY TurnKept
SYMMETRY Others
