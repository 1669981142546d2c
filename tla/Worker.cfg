CHECK_DEADLOCK FALSE
SPECIFICATION FairSpec
CONSTANTS
    Process = {w1, w2}
    Point = {p1}
    First = p1
    Faults = {"timeout", "read", "crash", "beat"}
    MaxFaults = 2
    None = None
INVARIANTS ReplacementKept RemovedUnlessMisreported
PROPERTY EventuallySettled
