CHECK_DEADLOCK FALSE
SPECIFICATION Spec
CONSTANTS
    Process = {w1, w2}
    Point = {p1, p2}
    First = p1
    Faults = {"timeout", "read"}
    MaxFaults = 2
    None = None
INVARIANT RemovedForGood
