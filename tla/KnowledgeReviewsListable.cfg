SPECIFICATION Spec
CHECK_DEADLOCK FALSE
CONSTANTS
    Record = {r1, r2}
    Mentioning = {r1}
    Present = {r1}
    MaxGeneration = 4
    NoEvent = NoEvent
    NoBatch = NoBatch
    NoOverview = NoOverview
INVARIANTS
    ReviewsListable
