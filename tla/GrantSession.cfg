SPECIFICATION Spec
CONSTANTS
    MaxSession = 3
    MaxSequence = 1
INVARIANTS ChecksAgree LiveSessionHeard NoReplay
