SPECIFICATION Spec
CONSTANTS
    r1 = r1
    r2 = r2
    q = q
    t = t
    plain = plain
    corrected = corrected
    Record = {r1, r2}
    Length <- MCLength
    Query = {q}
    Hits <- MCHits
    Topic = {t}
    History <- MCHistory
    Statement = {plain, corrected}
    Cites <- MCCites
    Status <- MCStatus
    AnswerRounds = 3
    RepairRounds = 1
    ReviewerPasses = 2
    ToolCalls = 4
    PageCap = 4
    TokenCap = 7
    Patience <- MCPatience
CHECK_DEADLOCK FALSE
INVARIANTS
    AnsweringTypeOK
    GenerationsBounded
    CandidateAccepted
    CompleteMeansFollowed
    RetiredByDecision
