SPECIFICATION Spec
CONSTANTS
    d1 = d1
    d2 = d2
    p1 = p1
    None = None
    Doc <- TwoDocuments
    Person <- Nobody
    Mentions <- NamesNobody
    Draft = {1}
    ClaimKinds = {"ingest", "delete_document"}
    MaxJobs = 5
    Outcomes = {"succeeded"}
    Codes = {}
SYMMETRY DocumentSymmetry
INVARIANTS
    OneWriterPerDocument
    NoOrphanedEntry
CHECK_DEADLOCK FALSE
