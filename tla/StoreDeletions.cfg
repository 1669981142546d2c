SPECIFICATION Spec
CHECK_DEADLOCK FALSE
CONSTANTS
    d1 = d1
    d2 = d2
    r1 = r1
    r2 = r2
    p1 = p1
    Document = {d1, d2}
    Record = {r1, r2}
    DocumentOf <- MCOneEach
    Person = {p1}
    Mentioning <- MCMentioning
    Answer = {a1, a2}
INVARIANTS
    DeletionsCommit
