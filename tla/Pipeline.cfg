CONSTANTS
    Pipes = {p1, p2}
    p1 = p1
    p2 = p2
    Capacity = 1
    MaxWrites = 3
    MaxFd = 7
    MayFail = {"pipe", "fork", "open", "exec"}
SPECIFICATION Spec
INVARIANTS
    OneOwner
    Wired
PROPERTIES
    KeepsStream
    LineEnds
CHECK_DEADLOCK FALSE
