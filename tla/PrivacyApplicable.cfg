SPECIFICATION Spec
CONSTANTS
    u1 = u1
    u2 = u2
    r1 = r1
    r2 = r2
    lf = lf
    lb = lb
    lena = lena
    tom = tom
    None = None
    Removed = Removed
    Ambiguous = Ambiguous
    Name <- MCName
    Contact <- MCContact
    PersonalId <- MCPersonalId
    Initials <- MCInitials
    Identifier = {lf, lb, lena, tom}
    Proposed <- MCProposed
    Plausible <- MCPlausible
    Supports <- MCSupports
    Upload = {u1, u2}
    Record = {r1, r2}
    RecordsOf <- MCRecordsOf
    Text <- FullNames
    Registry <- Nobody
    Enrolled = {}
    Association <- MCAssociation
    MaxGeneration = 2
    MaxRestarts = 1
CHECK_DEADLOCK FALSE
INVARIANTS
    SavedPlansApplicable
