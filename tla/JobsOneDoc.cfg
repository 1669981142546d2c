SPECIFICATION Spec
CONSTANTS
    d1 = d1
    d2 = d2
    p1 = p1
    None = None
    Doc <- OneDocument
    Person <- OnePerson
    Mentions <- NamedInFirst
    Draft = {1}
    ClaimKinds = {"ingest", "activate", "deactivate", "delete_document", "erase_person",
                  "rebuild_aggregate"}
    MaxJobs = 4
    Outcomes = {"succeeded", "failed", "unknown"}
    Codes = {"transient", "contract_violation", "capability_denied", "ambiguous_person"}
INVARIANTS
    TypeOK
    BarrierExclusive
    Drained
    InventoryComplete
    ErasedForgotten
PROPERTIES
    BarrierReleaseVerified
    KeepsBarrier
CHECK_DEADLOCK FALSE
