SPECIFICATION Spec
CONSTANTS
    d1 = d1
    d2 = d2
    p1 = p1
    None = None
    Doc <- OneDocument
    Person <- OnePerson
    Mentions <- NamesNobody
    Draft = {1}
    ClaimKinds = {"ingest", "activate", "deactivate", "delete_document", "erase_person"}
    Outcomes = {"succeeded"}
    Codes = {}
    MaxJobs = 4
INVARIANT
    UnrelatedEntryKept
CHECK_DEADLOCK FALSE
