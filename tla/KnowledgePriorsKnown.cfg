SPECIFICATION Spec
ACTION_CONSTRAINT OneAtATime
CHECK_DEADLOCK FALSE
CONSTANTS
    Record = {r1, r2, r3}
    Mentioning = {r3}
    Present = {r2, r3}
    MaxGeneration = 7
    NoEvent = NoEvent
    NoBatch = NoBatch
    NoOverview = NoOverview
INVARIANTS
    PriorsKnown
