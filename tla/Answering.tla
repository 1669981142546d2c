----------------------------- MODULE Answering -----------------------------
(***************************************************************************)
(* How one question is answered: Answers of intelligence/answering.py with *)
(* the tool sessions of tools.py, and the check _validate_candidate that   *)
(* the platform makes of what comes out before it releases it.             *)
(*                                                                         *)
(* The language model is a choice: it may ask for any tool, and draft and  *)
(* judge as it likes.  A response with several tool calls behaves as that  *)
(* many responses with one.  A record is read in pages, and a page is one  *)
(* chunk of one span; <<r, i>> is span i of record r.  What a claim says   *)
(* is a model value that comes with what it cites.  Every tool result      *)
(* charges one token and every search, reading and history one page.       *)
(***************************************************************************)
EXTENDS Naturals, FiniteSets, Sequences

CONSTANTS
    Record, Length,     \* Length[r]: the pages of a record
    Query, Hits,        \* Hits[q]: the pages of records a search finds
    Topic, History,     \* History[t]: the pages of approved events, [kind, evidence]
    Statement,          \* what the model may claim
    Cites, Status,      \* Cites[c]: the spans it cites; Status[c]: "corrected", "superseded" or "current"
    AnswerRounds, RepairRounds, ReviewerPasses, ToolCalls, PageCap, TokenCap, \* RuntimeLimits
    Patience            \* how often _agent asks again: 2 times shallow, 4 tool, 3 evidence

ASSUME LimitsAssumption ==
    /\ AnswerRounds \in 1..20 /\ RepairRounds \in 0..1 /\ ReviewerPasses \in 1..3
    /\ ToolCalls \in Nat \ {0} /\ PageCap \in Nat \ {0} /\ TokenCap \in Nat \ {0}
    /\ Patience \in [shallow : Nat, tool : Nat, evidence : Nat]
    /\ Length \in [Record -> Nat \ {0}]

SpansOf(r) == {r} \X (1..Length[r])
Span == UNION {SpansOf(r) : r \in Record}
Searches == {"search_memory", "search_sources"}

\* A call of a tool: of says of what, page which page of it.
Call ==
    (UNION {[tool : Searches, of : {q}, page : 1..Len(Hits[q])] : q \in Query})
    \cup (UNION {[tool : {"read_record", "expand_context"}, of : {r}, page : 1..Length[r]] : r \in Record})
    \cup [tool : {"read_memory"}, of : Record, page : {1}]
    \cup (UNION {[tool : {"get_decision_history"}, of : {t}, page : 1..Len(History[t])] : t \in Topic})

\* A search, and a history, has a first page, were it an empty one.  An event is evidenced by
\* spans of records.
ASSUME PagesAssumption ==
    /\ Hits \in [Query -> Seq(SUBSET Record) \ {<<>>}]
    /\ History \in [Topic -> Seq(SUBSET [kind : STRING, evidence : SUBSET Span]) \ {<<>>}]

VARIABLES
    step,        \* "discover", "generate", "exhausted", "review", "candidate", and the ends
    session,     \* the ToolSession of the phase
    retries,     \* how often _agent has asked for another response, by reason
    round,       \* review_index
    feedback,    \* the verdict the repair starts from
    payload,     \* the draft: claims, and the session's reading when it was made
    results,     \* verdict and receipts the reviewer gave each claim of the draft
    changed,     \* the project has left the snapshot of the request
    cut,         \* the budget cut off the result of a call, in this phase or before it
    generations  \* responses of the provider in this phase

vars == <<step, session, retries, round, feedback, payload, results, changed, cut, generations>>

NoRetries == [shallow |-> 0, tool |-> 0, evidence |-> 0]
NoPayload == [claims |-> {}, dependencies |-> {}, coverage |-> "insufficient", draft |-> 0]

\* ToolSession.__init__
NewSession(rounds) ==
    [limit |-> rounds, calls |-> 0, pages |-> 0, tokens |-> 0, searches |-> 0,
     sourceSearches |-> 0, exhausted |-> FALSE, traced |-> FALSE, pending |-> {},
     discovered |-> {}, sources |-> {}, chunks |-> {}, spans |-> {}, dependencies |-> {},
     events |-> {}, completed |-> {}]

Init ==
    /\ step = "discover"
    /\ session = NewSession(AnswerRounds)
    /\ retries = NoRetries
    /\ round = 0
    /\ feedback = "none"
    /\ payload = NoPayload
    /\ results = <<>>
    /\ changed = FALSE
    /\ cut = FALSE
    /\ generations = 0

---------------------------------------------------------------------------
(* Tool calls. *)

\* What the model can name: a page but the first needs the cursor that came with the one
\* before (any other cursor is a stale_cursor, which fails the request).
Known(s, c) ==
    \/ c.page = 1
    \/ c.tool = "expand_context"
    \/ [c EXCEPT !.page = @ - 1] \in s.completed

Legal(s, c) ==
    CASE c.tool = "read_record"    -> c.of \in s.sources
      [] c.tool = "read_memory"    -> c.of \in s.discovered
      [] c.tool = "expand_context" -> \E x \in s.chunks : x[1] = c.of
      [] OTHER                     -> TRUE

Paged(c) == c.tool # "read_memory"
RoundsLeft(s) == s.searches < s.limit

\* The budgets: the call itself, a search round, and after it what its result costs.
\* Mutant of OutOfCalls: one call too many.
OneCallMore(s) == s.calls > ToolCalls

OutOfCalls(s) == s.calls >= ToolCalls
OutOfRounds(s, c) == c.tool \in Searches /\ ~RoundsLeft(s)
Unaffordable(s, c) == s.tokens + 1 > TokenCap \/ (Paged(c) /\ s.pages >= PageCap)

\* What a call counts before its result is there.
Counted(s, c) ==
    [s EXCEPT !.calls = @ + 1,
              !.searches = @ + (IF c.tool \in Searches THEN 1 ELSE 0),
              !.sourceSearches = @ + (IF c.tool = "search_sources" THEN 1 ELSE 0)]

LastPage(c) ==
    CASE c.tool \in Searches -> c.page = Len(Hits[c.of])
      [] c.tool = "get_decision_history" -> c.page = Len(History[c.of])
      [] OTHER -> TRUE

\* pending_searches, pending_histories
Pending(s, c) ==
    LET key == <<c.tool, c.of>>
    IN  IF LastPage(c) THEN s.pending \ {key} ELSE s.pending \cup {key}

\* The spans a page or the surroundings of a span bring.
Supplied(c) ==
    CASE c.tool = "read_record" -> {<<c.of, c.page>>}
      [] c.tool = "expand_context" -> {x \in SpansOf(c.of) : x[2] \in c.page-2..c.page+2}
      [] OTHER -> {}

\* _call, once its result fits the budgets.
Answered(s, c) ==
    [Counted(s, c) EXCEPT
        !.pages = @ + (IF Paged(c) THEN 1 ELSE 0),
        !.tokens = @ + 1,
        !.traced = TRUE,
        !.completed = @ \cup {c},
        !.pending = Pending(s, c),
        !.discovered = IF c.tool = "search_memory" THEN @ \cup Hits[c.of][c.page] ELSE @,
        !.sources = IF c.tool = "search_sources" THEN @ \cup Hits[c.of][c.page] ELSE @,
        !.chunks = IF c.tool = "read_record" THEN @ \cup Supplied(c) ELSE @,
        !.spans = @ \cup Supplied(c),
        !.dependencies = @ \cup Supplied(c)
            \cup (IF c.tool = "read_memory" THEN SpansOf(c.of) ELSE {})
            \cup (IF c.tool = "get_decision_history"
                  THEN UNION {e.evidence : e \in History[c.of][c.page]} ELSE {}),
        !.events = IF c.tool = "get_decision_history" THEN @ \cup History[c.of][c.page] ELSE @]

\* coverage
Coverage(s) ==
    LET read == {x[1] : x \in s.chunks}
    IN  IF read = {} THEN "insufficient"
        ELSE IF /\ \A r \in read : SpansOf(r) \subseteq s.chunks
                /\ ~s.exhausted
                /\ s.pending = {}
             THEN "complete" ELSE "partial"

---------------------------------------------------------------------------
(* The responses of the model while a phase gathers evidence (_agent). *)

Role == IF feedback = "none" THEN "answer" ELSE "repair"

\* answer: the first search is made for the model, and its budget may run out at once.
Discover ==
    /\ step = "discover"
    /\ \E q \in Query :
           LET c == [tool |-> "search_memory", of |-> q, page |-> 1]
           IN  IF Unaffordable(session, c)
               THEN /\ session' = [Counted(session, c) EXCEPT !.exhausted = TRUE]
                    /\ cut' = TRUE
               ELSE session' = Answered(session, c) /\ UNCHANGED cut
    /\ ~changed
    /\ step' = "generate"
    /\ UNCHANGED <<retries, round, feedback, payload, results, changed, generations>>

\* A call that is answered, or whose result no budget is left for.
CallTool(c) ==
    /\ step = "generate" /\ ~changed
    /\ Known(session, c) /\ Legal(session, c) /\ c \notin session.completed
    /\ ~OutOfCalls(session) /\ ~OutOfRounds(session, c)
    /\ generations' = generations + 1
    /\ IF Unaffordable(session, c)
       THEN /\ session' = [Counted(session, c) EXCEPT !.exhausted = TRUE]
            /\ cut' = TRUE
            /\ step' = "exhausted"
       ELSE session' = Answered(session, c) /\ UNCHANGED <<cut, step>>
    /\ UNCHANGED <<retries, round, feedback, payload, results, changed>>

\* A call that no budget is left for.
ExhaustBudget(c) ==
    /\ step = "generate"
    /\ \/ OutOfCalls(session) /\ session' = [session EXCEPT !.exhausted = TRUE]
       \/ /\ ~OutOfCalls(session) /\ OutOfRounds(session, c) /\ c \notin session.completed
          /\ session' = [session EXCEPT !.exhausted = TRUE, !.calls = @ + 1]
    /\ step' = "exhausted"
    /\ generations' = generations + 1
    /\ UNCHANGED <<retries, round, feedback, payload, results, changed, cut>>

\* A call that is repeated, or not legal yet: the model is told so, at most so many times.
RejectCall(c) ==
    /\ step = "generate" /\ ~OutOfCalls(session)
    /\ \/ c \in session.completed /\ UNCHANGED session
       \/ ~Legal(session, c) /\ session' = Counted(session, c)
    /\ generations' = generations + 1
    /\ IF retries.tool < Patience.tool
       THEN retries' = [retries EXCEPT !.tool = @ + 1] /\ UNCHANGED step
       ELSE step' = "failed" /\ UNCHANGED retries
    /\ UNCHANGED <<round, feedback, payload, results, changed, cut>>

\* A final response of _agent that it takes for too shallow.
Shallow ==
    LET needsSearch == session.discovered # {} /\ session.sourceSearches = 0 /\ RoundsLeft(session)
        needsRead   == session.sources # {} /\ session.spans = {}
        needsRepair == /\ Role = "repair" /\ feedback = "insufficient"
                       /\ ~session.traced /\ RoundsLeft(session)
    IN  (needsSearch \/ needsRead \/ needsRepair) /\ retries.shallow < Patience.shallow

\* Mutant of Unread: the retries are not limited.
UnreadAnyTime(claims) == \E c \in claims : ~ Cites[c] \subseteq session.spans

Unread(claims) ==
    (\E c \in claims : ~ Cites[c] \subseteq session.spans) /\ retries.evidence < Patience.evidence

AskAgain(claims) ==
    /\ step = "generate"
    /\ Shallow \/ Unread(claims)
    /\ generations' = generations + 1
    /\ retries' = IF Shallow THEN [retries EXCEPT !.shallow = @ + 1]
                  ELSE [retries EXCEPT !.evidence = @ + 1]
    /\ UNCHANGED <<step, session, round, feedback, payload, results, changed, cut>>

\* _require_human_review: that something was retired needs an approved event that covers
\* all records the claim cites.
Kinds == [corrected |-> {"correction"}, superseded |-> {"replacement", "cancellation", "reinstatement"}]
Records(S) == {x[1] : x \in S}

\* Mutant of Decided: the event shares a record with the claim.
DecidedPartly(c) ==
    Status[c] = "current" \/
    \E e \in session.events : Records(Cites[c]) \cap Records(e.evidence) # {}

Decided(c) ==
    Status[c] = "current" \/
    \E e \in session.events :
        e.kind \in Kinds[Status[c]] /\ Records(Cites[c]) \subseteq Records(e.evidence)

\* _draft of a final response: with evidence that was read, and only then.
Draftable(claims) == \A c \in claims : Cites[c] \subseteq session.spans /\ Decided(c)

Draft(claims) ==
    /\ payload' = [claims |-> claims, dependencies |-> session.dependencies,
                   coverage |-> Coverage(session), draft |-> payload.draft + 1]
    /\ CASE ~Draftable(claims) -> step' = "failed"
         [] claims = {} -> step' = "candidate"
         [] OTHER -> ~changed /\ step' = "review"

Finalize(claims) ==
    /\ step = "generate" /\ ~Shallow /\ ~Unread(claims)
    /\ generations' = generations + 1
    /\ Draft(claims)
    /\ UNCHANGED <<session, retries, round, feedback, results, changed, cut>>

\* The budget is used up: one last response.  One that asks for tools is taken for none.
FinalizeExhausted(claims) ==
    /\ step = "exhausted"
    /\ generations' = generations + 1
    /\ Draft(claims)
    /\ UNCHANGED <<session, retries, round, feedback, results, changed, cut>>

---------------------------------------------------------------------------
(* Review and repair. *)

\* Receipts are contiguous: each run of neighbouring spans is one.
Receipts(c) == {x \in Cites[c] : <<x[1], x[2] - 1>> \notin Cites[c]}

\* What the reviewer says of a claim: which of its receipts it names, and in which order.
Judgement(c) ==
    {j \in [verdict : {"pass", "fail"}, names : {"all", "reordered", "some"}] :
        j.names # "all" => Cardinality(Receipts(c)) > 1}

\* Mutant of Proper: a pass may name some of the receipts.
ProperOfSome(judged) == TRUE

\* A pass has to name every receipt of its claim, in whatever order.
Proper(judged) ==
    \A c \in DOMAIN judged : judged[c].verdict = "pass" => judged[c].names # "some"

Failed == [verdict |-> "fail", names |-> "all"]

\* _review: what is not judged fails, and nothing passes on insufficient retrieval.
Judged(verdict, raw) ==
    LET all == DOMAIN raw = payload.claims
    IN  [c \in payload.claims |->
            IF ~all THEN Failed
            ELSE IF verdict = "insufficient" THEN [raw[c] EXCEPT !.verdict = "fail"] ELSE raw[c]]

Passed(judged) == {c \in DOMAIN judged : judged[c].verdict = "pass"}

LastReview == round + 1 >= ReviewerPasses \/ RepairRounds <= 0

\* Mutant of RepairSession: what is left to page through is forgotten.
RepairSessionAnew(s) ==
    [s EXCEPT !.limit = RepairRounds, !.calls = 0, !.pages = 0, !.searches = 0,
              !.exhausted = FALSE, !.traced = FALSE, !.pending = {}]

\* _new_repair_session
RepairSession(s) ==
    [s EXCEPT !.limit = RepairRounds, !.calls = 0, !.pages = 0, !.searches = 0,
              !.exhausted = FALSE, !.traced = FALSE]

Review(verdict, raw) ==
    LET judged == Judged(verdict, raw)
    IN  /\ step = "review"
        /\ IF ~Proper(raw)
           THEN step' = "failed" /\ UNCHANGED <<session, retries, round, feedback, payload, results, generations>>
           ELSE IF (verdict = "sufficient" /\ Passed(judged) = payload.claims) \/ LastReview
           THEN /\ step' = "candidate"
                /\ payload' = IF Passed(judged) = {} THEN [payload EXCEPT !.claims = {}] ELSE payload
                /\ results' = [draft |-> payload.draft, verdict |-> verdict, of |-> judged]
                /\ generations' = generations + 1
                /\ UNCHANGED <<session, retries, round, feedback>>
           ELSE /\ session' = RepairSession(session)
                /\ retries' = NoRetries
                /\ round' = round + 1
                /\ feedback' = verdict
                /\ results' = <<>>
                /\ generations' = 0
                /\ step' = "generate"
                /\ payload' = [NoPayload EXCEPT !.draft = payload.draft]
        /\ UNCHANGED <<changed, cut>>

---------------------------------------------------------------------------
(* Release: _validate_candidate on the claims that passed. *)

Offered == IF payload.claims = {} THEN {} ELSE Passed(results.of)

Valid(claims) ==
    /\ ~changed
    /\ claims # {} =>
           /\ \A c \in claims : Cites[c] \subseteq payload.dependencies
           /\ results.verdict = "sufficient"
           /\ results.draft = payload.draft
           /\ DOMAIN results.of = payload.claims
           /\ Passed(results.of) \subseteq claims
           /\ \A c \in claims : results.of[c].verdict = "pass" /\ results.of[c].names = "all"

Release ==
    /\ step = "candidate"
    /\ step' = IF Valid(Offered) THEN "released" ELSE "refused"
    /\ UNCHANGED <<session, retries, round, feedback, payload, results, changed, cut, generations>>

\* The provider, the deadline, the index, a response of no known form, evidence that changed.
Fail ==
    /\ step \in {"discover", "generate", "exhausted", "review"}
    /\ step' = "failed"
    /\ UNCHANGED <<session, retries, round, feedback, payload, results, changed, cut, generations>>

EvidenceChanges ==
    /\ ~changed
    /\ step \in {"discover", "generate", "exhausted", "review", "candidate"}
    /\ changed' = TRUE
    /\ UNCHANGED <<step, session, retries, round, feedback, payload, results, cut, generations>>

Next ==
    \/ Discover
    \/ \E c \in Call : CallTool(c) \/ ExhaustBudget(c) \/ RejectCall(c)
    \/ \E claims \in SUBSET Statement :
           AskAgain(claims) \/ Finalize(claims) \/ FinalizeExhausted(claims)
    \/ \E verdict \in {"sufficient", "insufficient"} :
       \E S \in SUBSET payload.claims :
       \E raw \in [S -> UNION {Judgement(c) : c \in S}] :
           (\A c \in S : raw[c] \in Judgement(c)) /\ Review(verdict, raw)
    \/ Release
    \/ Fail
    \/ EvidenceChanges

Spec == Init /\ [][Next]_vars

---------------------------------------------------------------------------
(* Properties *)

\* Every variable keeps to the values the code gives it, and a session to its budgets.
AnsweringTypeOK ==
    /\ step \in {"discover", "generate", "exhausted", "review", "candidate", "released", "refused", "failed"}
    /\ session.calls \in 0..ToolCalls /\ session.pages \in 0..PageCap
    /\ session.tokens \in 0..TokenCap /\ session.searches \in 0..session.limit
    /\ session.chunks \subseteq session.spans /\ session.spans \subseteq session.dependencies
    /\ session.dependencies \subseteq Span /\ session.completed \subseteq Call
    /\ \A k \in DOMAIN retries : retries[k] \in 0..Patience[k]
    /\ round \in 0..ReviewerPasses - 1
    /\ feedback \in {"none", "sufficient", "insufficient"}
    /\ payload.claims \subseteq Statement /\ payload.draft \in 0..ReviewerPasses
    /\ payload.coverage \in {"complete", "partial", "insufficient"}
    /\ step = "review" => payload.claims # {}

\* "Do not loop indefinitely": whatever the model responds, the number of responses a
\* phase asks for is bounded by its limits, over all its calls and retries; and so is, with
\* the number of rounds, that of the request.
GenerationsBounded ==
    generations <= ToolCalls + Patience.tool + Patience.shallow + Patience.evidence + 3

\* What the answering side hands over is what the platform accepts, as long as the evidence
\* stays: the release refuses it only because a reviewer named the receipts of a claim in
\* another order, which _review lets pass and _validate_candidate does not.
CandidateAccepted ==
    step = "refused" => changed \/ \E c \in Offered : results.of[c].names = "reordered"

\* An answer whose coverage is called complete rests on records read to the last page and
\* on searches and histories followed to their last page, in whichever phase they were
\* begun.  What a spent budget cut off is the subject of ExhaustionStated.
CompleteMeansFollowed ==
    step = "released" /\ Offered # {} /\ payload.coverage = "complete" =>
        \A c \in session.completed :
            /\ ~LastPage(c) => [c EXCEPT !.page = @ + 1] \in session.completed
            /\ c.tool = "read_record" => SpansOf(c.of) \subseteq session.chunks

\* A claim that something was corrected or superseded is released only with an event that
\* an administrator approved, that this request has read, and that covers the claim's
\* records, be it read before or after the repair that made the claim.
RetiredByDecision ==
    step = "released" => \A c \in Offered : Status[c] # "current" =>
        \E k \in session.completed : k.tool = "get_decision_history" /\
            \E e \in History[k.of][k.page] :
                e.kind \in Kinds[Status[c]] /\ Records(Cites[c]) \subseteq Records(e.evidence)

\* "budget exhaustion may return only supported reviewed partial content with explicit
\* coverage": no answer is called complete after a budget has cut off a result.
ExhaustionStated ==
    step = "released" /\ Offered # {} /\ payload.coverage = "complete" => ~cut
=============================================================================
