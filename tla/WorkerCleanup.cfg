CHECK_DEADLOCK FALSE
SPECIFICATION RetrySpec
CONSTANTS
    Process = {w1, w2}
    Point = {p1}
    First = p1
    Faults = {"crash"}
    MaxFaults = 1
    None = None
PROPERTY CleanupCompletes
