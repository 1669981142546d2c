-------------------------- MODULE AnsweringProofs --------------------------
(***************************************************************************)
(* Proofs about Answering, for all records, pages, histories, claims and   *)
(* limits: the budgets hold, the number of responses is bounded, and what  *)
(* is released follows from what was read.                                 *)
(***************************************************************************)
EXTENDS Answering, SequenceTheorems, TLAPS

---------------------------------------------------------------------------
(* The inductive invariant. *)

Steps == {"discover", "generate", "exhausted", "review", "candidate",
          "released", "refused", "failed"}

Fields == {"limit", "calls", "pages", "tokens", "searches", "sourceSearches", "exhausted",
           "traced", "pending", "discovered", "sources", "chunks", "spans", "dependencies",
           "events", "completed"}

\* A session keeps to its budgets.
Budgeted(s) ==
    /\ DOMAIN s = Fields
    /\ s.calls \in 0..ToolCalls /\ s.pages \in 0..PageCap /\ s.tokens \in 0..TokenCap
    /\ s.limit \in Nat /\ s.searches \in 0..s.limit

\* What was read, and by which calls.
ReadTyped(s) ==
    /\ s.chunks \subseteq s.spans /\ s.spans \subseteq s.dependencies
    /\ s.dependencies \subseteq Span /\ s.completed \subseteq Call

At(c, p) == [tool |-> c.tool, of |-> c.of, page |-> p]

\* A page was read after those before it.
InOrder(s) ==
    \A c \in s.completed : c.tool # "expand_context" => \A p \in 1..c.page : At(c, p) \in s.completed

\* A search or history that was not followed to its end is pending.
LeftPending(s) ==
    \A c \in s.completed : ~LastPage(c) =>
        At(c, c.page + 1) \in s.completed \/ <<c.tool, c.of>> \in s.pending

\* Every page read is a chunk, and every event came with a page of a history.
ChunkOfPage(s) ==
    \A c \in s.completed : c.tool = "read_record" => <<c.of, c.page>> \in s.chunks
EventOfHistory(s) ==
    \A e \in s.events : \E k \in s.completed :
        k.tool = "get_decision_history" /\ e \in History[k.of][k.page]

Followed(s) == InOrder(s) /\ LeftPending(s) /\ ChunkOfPage(s) /\ EventOfHistory(s)

Typed ==
    /\ step \in Steps
    /\ retries \in [shallow : 0..Patience.shallow, tool : 0..Patience.tool,
                    evidence : 0..Patience.evidence]
    /\ round \in 0..ReviewerPasses - 1
    /\ feedback \in {"none", "sufficient", "insufficient"}
    /\ payload \in [claims : SUBSET Statement, dependencies : SUBSET Span,
                    coverage : {"complete", "partial", "insufficient"}, draft : Nat]
    /\ payload.draft <= round + (IF step \in {"discover", "generate", "exhausted"} THEN 0 ELSE 1)

\* The first search is the first thing a session does.
Fresh == step = "discover" => session = NewSession(AnswerRounds)

\* Every response counted against a limit, but for the ones a phase ends with.
Slack ==
    CASE step \in {"discover", "generate"} -> 0
      [] step = "exhausted" -> 1
      [] step = "review" -> 2
      [] OTHER -> 3

Counts ==
    /\ generations \in Nat
    /\ generations <= session.calls + retries.shallow + retries.tool + retries.evidence + Slack

\* A draft is made of what the session has read, and the session rests until its judgement.
Drafted ==
    step \in {"review", "candidate", "released", "refused"} =>
        /\ payload.coverage = Coverage(session)
        /\ \A c \in payload.claims : Cites[c] \subseteq payload.dependencies /\ Decided(c)
        /\ step = "review" => payload.claims # {}

\* Claims pass on sufficient retrieval, with all their receipts named.
Reviewed ==
    step \in {"candidate", "released", "refused"} /\ payload.claims # {} =>
        /\ results.draft = payload.draft
        /\ DOMAIN results.of = payload.claims
        /\ Passed(results.of) # {} => results.verdict = "sufficient"
        /\ \A c \in Passed(results.of) : results.of[c].names \in {"all", "reordered"}

AnsweringInv ==
    /\ Typed
    /\ Budgeted(session)
    /\ ReadTyped(session)
    /\ Followed(session)
    /\ Fresh
    /\ Counts
    /\ Drafted
    /\ Reviewed
    /\ CandidateAccepted

---------------------------------------------------------------------------
(* What the operators on sessions do. *)

SameReading(s, t) ==
    /\ t.pending = s.pending /\ t.chunks = s.chunks /\ t.spans = s.spans
    /\ t.dependencies = s.dependencies /\ t.events = s.events /\ t.completed = s.completed

LEMMA NewSessionStarts ==
    ASSUME NEW n \in Nat
    PROVE  Budgeted(NewSession(n)) /\ ReadTyped(NewSession(n)) /\ Followed(NewSession(n))
BY LimitsAssumption DEF NewSession, Budgeted, Fields, ReadTyped, Followed, InOrder, LeftPending,
    ChunkOfPage, EventOfHistory

LEMMA SameFollowed ==
    ASSUME NEW s, NEW t, SameReading(s, t)
    PROVE  /\ ReadTyped(s) => ReadTyped(t)
           /\ Followed(s) => Followed(t)
BY DEF SameReading, ReadTyped, Followed, InOrder, LeftPending, ChunkOfPage, EventOfHistory

LEMMA CountedSession ==
    ASSUME NEW s, NEW c \in Call, Budgeted(s), ~OutOfCalls(s), ~OutOfRounds(s, c)
    PROVE  /\ Budgeted(Counted(s, c))
           /\ SameReading(s, Counted(s, c))
           /\ Counted(s, c).calls = s.calls + 1
           /\ Counted(s, c).tokens = s.tokens /\ Counted(s, c).pages = s.pages
<1> DEFINE r == Counted(s, c)
<1>1. /\ DOMAIN r = Fields
      /\ r.calls = s.calls + 1 /\ r.limit = s.limit /\ r.tokens = s.tokens /\ r.pages = s.pages
      /\ r.searches = s.searches + (IF c.tool \in Searches THEN 1 ELSE 0)
      /\ SameReading(s, r)
    BY DEF Counted, Budgeted, Fields, SameReading
<1> HIDE DEF r
<1>2. s.calls < ToolCalls /\ (c.tool \in Searches => s.searches < s.limit)
    BY LimitsAssumption DEF OutOfCalls, OutOfRounds, RoundsLeft, Budgeted
<1>3. r.searches \in 0..s.limit
    BY <1>1, <1>2 DEF Budgeted
<1>4. Budgeted(r)
    BY <1>1, <1>2, <1>3, LimitsAssumption DEF Budgeted
<1> QED BY <1>1, <1>4 DEF r

LEMMA ExhaustedSession ==
    ASSUME NEW s, Budgeted(s)
    PROVE  /\ Budgeted([s EXCEPT !.exhausted = TRUE])
           /\ SameReading(s, [s EXCEPT !.exhausted = TRUE])
           /\ [s EXCEPT !.exhausted = TRUE].calls = s.calls
BY DEF Budgeted, Fields, SameReading

LEMMA ExhaustedCall ==
    ASSUME NEW s, Budgeted(s), ~OutOfCalls(s)
    PROVE  /\ Budgeted([s EXCEPT !.exhausted = TRUE, !.calls = @ + 1])
           /\ SameReading(s, [s EXCEPT !.exhausted = TRUE, !.calls = @ + 1])
           /\ [s EXCEPT !.exhausted = TRUE, !.calls = @ + 1].calls = s.calls + 1
BY LimitsAssumption DEF Budgeted, Fields, SameReading, OutOfCalls

LEMMA RepairedSession ==
    ASSUME NEW s, Budgeted(s)
    PROVE  /\ Budgeted(RepairSession(s))
           /\ SameReading(s, RepairSession(s))
<1> DEFINE r == RepairSession(s)
<1>1. /\ DOMAIN r = Fields
      /\ r.calls = 0 /\ r.limit = RepairRounds /\ r.tokens = s.tokens /\ r.pages = 0
      /\ r.searches = 0 /\ SameReading(s, r)
    BY DEF RepairSession, Budgeted, Fields, SameReading
<1> HIDE DEF r
<1> QED BY <1>1, LimitsAssumption DEF Budgeted, r

\* The fields of Answered, one by one.
AnsweredAs(s, c, r) ==
    /\ DOMAIN r = Fields
    /\ r.calls = Counted(s, c).calls /\ r.limit = Counted(s, c).limit
    /\ r.searches = Counted(s, c).searches
    /\ r.pages = Counted(s, c).pages + (IF Paged(c) THEN 1 ELSE 0)
    /\ r.tokens = Counted(s, c).tokens + 1
    /\ r.completed = s.completed \cup {c}
    /\ r.pending = Pending(s, c)
    /\ r.chunks = IF c.tool = "read_record" THEN s.chunks \cup Supplied(c) ELSE s.chunks
    /\ r.spans = s.spans \cup Supplied(c)
    /\ r.dependencies = s.dependencies \cup Supplied(c)
           \cup (IF c.tool = "read_memory" THEN SpansOf(c.of) ELSE {})
           \cup (IF c.tool = "get_decision_history"
                 THEN UNION {e.evidence : e \in History[c.of][c.page]} ELSE {})
    /\ r.events = IF c.tool = "get_decision_history"
                  THEN s.events \cup History[c.of][c.page] ELSE s.events

LEMMA AnsweredFields ==
    ASSUME NEW s, NEW c, DOMAIN s = Fields
    PROVE  AnsweredAs(s, c, Answered(s, c))
<1> DEFINE t == Counted(s, c)
<1>1. /\ DOMAIN t = Fields /\ t.completed = s.completed /\ t.chunks = s.chunks
      /\ t.spans = s.spans /\ t.dependencies = s.dependencies /\ t.events = s.events
    BY DEF Counted, Fields
<1> HIDE DEF t
<1> DEFINE pages == t.pages + (IF Paged(c) THEN 1 ELSE 0)
          completed == t.completed \cup {c}
          pending == Pending(s, c)
          discovered == IF c.tool = "search_memory"
                        THEN t.discovered \cup Hits[c.of][c.page] ELSE t.discovered
          sources == IF c.tool = "search_sources"
                     THEN t.sources \cup Hits[c.of][c.page] ELSE t.sources
          chunks == IF c.tool = "read_record" THEN t.chunks \cup Supplied(c) ELSE t.chunks
          spans == t.spans \cup Supplied(c)
          dependencies == t.dependencies \cup Supplied(c)
              \cup (IF c.tool = "read_memory" THEN SpansOf(c.of) ELSE {})
              \cup (IF c.tool = "get_decision_history"
                    THEN UNION {e.evidence : e \in History[c.of][c.page]} ELSE {})
          events == IF c.tool = "get_decision_history"
                    THEN t.events \cup History[c.of][c.page] ELSE t.events
<1>2. Answered(s, c) =
        [t EXCEPT !.pages = pages, !.tokens = t.tokens + 1, !.traced = TRUE,
                  !.completed = completed, !.pending = pending, !.discovered = discovered,
                  !.sources = sources, !.chunks = chunks, !.spans = spans,
                  !.dependencies = dependencies, !.events = events]
    BY <1>1 DEF Answered, t, Fields
<1> DEFINE r == Answered(s, c)
<1> HIDE DEF pages, completed, pending, discovered, sources, chunks, spans, dependencies,
            events, r
<1> DEFINE first == [t EXCEPT !.pages = pages, !.tokens = t.tokens + 1, !.traced = TRUE,
                              !.completed = completed, !.pending = pending,
                              !.discovered = discovered]
<1>3. /\ DOMAIN first = Fields
      /\ first.calls = t.calls /\ first.limit = t.limit /\ first.searches = t.searches
      /\ first.pages = pages /\ first.tokens = t.tokens + 1
      /\ first.completed = completed /\ first.pending = pending
    BY <1>1 DEF Fields
<1>4. r = [first EXCEPT !.sources = sources, !.chunks = chunks, !.spans = spans,
                        !.dependencies = dependencies, !.events = events]
    BY <1>2 DEF r
<1> HIDE DEF first
<1>5. /\ DOMAIN r = Fields /\ r.calls = t.calls /\ r.limit = t.limit /\ r.searches = t.searches
      /\ r.pages = pages /\ r.tokens = t.tokens + 1 /\ r.completed = completed
      /\ r.pending = pending /\ r.chunks = chunks /\ r.spans = spans
      /\ r.dependencies = dependencies /\ r.events = events
    BY <1>3, <1>4 DEF Fields
<1> QED BY <1>1, <1>5 DEF t, pages, completed, pending, chunks, spans, dependencies, events, r,
           AnsweredAs

\* What a call is: a page of what it is of.
LEMMA CallFields ==
    ASSUME NEW c \in Call
    PROVE  /\ c = At(c, c.page)
           /\ c.page \in Nat \ {0}
           /\ c.tool \in Searches =>
                  c.of \in Query /\ c.page \in 1..Len(Hits[c.of]) /\ Len(Hits[c.of]) \in Nat
           /\ c.tool \in {"read_record", "expand_context"} =>
                  c.of \in Record /\ c.page \in 1..Length[c.of]
           /\ c.tool = "read_memory" => c.of \in Record /\ c.page = 1
           /\ c.tool = "get_decision_history" =>
                  /\ c.of \in Topic /\ c.page \in 1..Len(History[c.of])
                  /\ Len(History[c.of]) \in Nat
                  /\ History[c.of][c.page] \in SUBSET [kind : STRING, evidence : SUBSET Span]
           /\ c.tool \in Searches \cup {"read_record", "expand_context", "read_memory",
                                        "get_decision_history"}
<1>1. CASE c \in UNION {[tool : Searches, of : {q}, page : 1..Len(Hits[q])] : q \in Query}
  <2>1. PICK q \in Query : c \in [tool : Searches, of : {q}, page : 1..Len(Hits[q])]
      BY <1>1
  <2>2. Hits[q] \in Seq(SUBSET Record)
      BY PagesAssumption
  <2> QED BY <2>1, <2>2 DEF At, Searches
<1>2. CASE c \in UNION {[tool : {"read_record", "expand_context"}, of : {r}, page : 1..Length[r]]
                            : r \in Record}
    BY <1>2, LimitsAssumption DEF At, Searches
<1>3. CASE c \in [tool : {"read_memory"}, of : Record, page : {1}]
    BY <1>3 DEF At, Searches
<1>4. CASE c \in UNION {[tool : {"get_decision_history"}, of : {t}, page : 1..Len(History[t])]
                            : t \in Topic}
  <2>1. PICK t \in Topic : c \in [tool : {"get_decision_history"}, of : {t},
                                  page : 1..Len(History[t])]
      BY <1>4
  <2>2. History[t] \in Seq(SUBSET [kind : STRING, evidence : SUBSET Span])
      BY PagesAssumption
  <2> QED BY <2>1, <2>2 DEF At, Searches
<1> QED BY <1>1, <1>2, <1>3, <1>4 DEF Call

LEMMA FirstSearch ==
    ASSUME NEW q \in Query
    PROVE  [tool |-> "search_memory", of |-> q, page |-> 1] \in Call
<1>1. Len(Hits[q]) \in Nat \ {0}
    BY PagesAssumption, EmptySeq, LenProperties
<1>2. [tool |-> "search_memory", of |-> q, page |-> 1]
          \in [tool : Searches, of : {q}, page : 1..Len(Hits[q])]
    BY <1>1 DEF Searches
<1> QED BY <1>2 DEF Call

LEMMA SuppliedSpans ==
    ASSUME NEW c \in Call
    PROVE  Supplied(c) \subseteq Span
BY CallFields DEF Supplied, Span, SpansOf

LEMMA AnsweredBudgets ==
    ASSUME NEW s, NEW c \in Call, Budgeted(s), ~OutOfCalls(s), ~OutOfRounds(s, c),
           ~Unaffordable(s, c)
    PROVE  Budgeted(Answered(s, c)) /\ Answered(s, c).calls = s.calls + 1
<1> DEFINE t == Counted(s, c)
           r == Answered(s, c)
<1>1. /\ Budgeted(t) /\ t.calls = s.calls + 1 /\ t.tokens = s.tokens /\ t.pages = s.pages
    BY CountedSession
<1>0. AnsweredAs(s, c, r)
    BY AnsweredFields DEF Budgeted
<1> HIDE DEF r
<1>2. /\ DOMAIN r = Fields /\ r.calls = t.calls /\ r.limit = t.limit /\ r.searches = t.searches
      /\ r.pages = t.pages + (IF Paged(c) THEN 1 ELSE 0) /\ r.tokens = t.tokens + 1
    BY <1>0 DEF AnsweredAs
<1> HIDE DEF t
<1>3. /\ s.tokens + 1 <= TokenCap /\ (Paged(c) => s.pages < PageCap)
      /\ s.tokens \in Nat /\ s.pages \in 0..PageCap
    BY LimitsAssumption DEF Unaffordable, Budgeted
<1>4. r.pages \in 0..PageCap /\ r.tokens \in 0..TokenCap
    BY <1>1, <1>2, <1>3, LimitsAssumption
<1> QED BY <1>1, <1>2, <1>4 DEF Budgeted, r, t

\* A call counts once, whether its result is affordable or not.
LEMMA CallCounted ==
    ASSUME NEW s, NEW c \in Call, Budgeted(s), ~OutOfCalls(s), ~OutOfRounds(s, c), NEW r,
           IF Unaffordable(s, c) THEN r = [Counted(s, c) EXCEPT !.exhausted = TRUE]
           ELSE r = Answered(s, c)
    PROVE  r.calls = s.calls + 1
<1>1. CASE Unaffordable(s, c)
  <2> DEFINE t == Counted(s, c)
  <2>1. Budgeted(t) /\ t.calls = s.calls + 1 /\ r = [t EXCEPT !.exhausted = TRUE]
      BY <1>1, CountedSession
  <2> HIDE DEF t
  <2> QED BY <2>1, ExhaustedSession
<1>2. CASE ~Unaffordable(s, c)
    BY <1>2, AnsweredBudgets
<1> QED BY <1>1, <1>2

LEMMA AnsweredReading ==
    ASSUME NEW s, NEW c \in Call, Budgeted(s), ReadTyped(s)
    PROVE  ReadTyped(Answered(s, c))
<1> DEFINE r == Answered(s, c)
           evidence == IF c.tool = "get_decision_history"
                       THEN UNION {e.evidence : e \in History[c.of][c.page]} ELSE {}
           memory == IF c.tool = "read_memory" THEN SpansOf(c.of) ELSE {}
<1>0. AnsweredAs(s, c, r)
    BY AnsweredFields DEF Budgeted
<1> HIDE DEF r
<1>1. /\ r.completed = s.completed \cup {c}
      /\ r.chunks \subseteq s.chunks \cup Supplied(c)
      /\ r.spans = s.spans \cup Supplied(c)
      /\ r.dependencies = s.dependencies \cup Supplied(c) \cup memory \cup evidence
    BY <1>0 DEF AnsweredAs
<1>2. evidence \subseteq Span
  <2> SUFFICES ASSUME c.tool = "get_decision_history"
               PROVE  \A e \in History[c.of][c.page] : e.evidence \subseteq Span
      OBVIOUS
  <2> QED BY CallFields
<1>3. memory \subseteq Span
    BY CallFields DEF Span
<1> HIDE DEF evidence, memory
<1> QED BY <1>1, <1>2, <1>3, SuppliedSpans DEF ReadTyped, r

LEMMA AnsweredInOrder ==
    ASSUME NEW s, NEW c \in Call, Budgeted(s), ReadTyped(s), InOrder(s), Known(s, c)
    PROVE  InOrder(Answered(s, c))
<1>1. Answered(s, c).completed = s.completed \cup {c}
    BY AnsweredFields DEF Budgeted, AnsweredAs
<1>2. ASSUME c.tool # "expand_context", NEW p \in 1..c.page
      PROVE  At(c, p) \in s.completed \cup {c}
  <2>1. CASE p = c.page
      BY <2>1, CallFields
  <2>2. CASE p # c.page
    <3>1. p \in 1..(c.page - 1) /\ c.page # 1
        BY <2>2, CallFields
    <3>2. [c EXCEPT !.page = @ - 1] \in s.completed
        BY <1>2, <3>1 DEF Known
    <3>3. [c EXCEPT !.page = @ - 1] = At(c, c.page - 1)
      <4>1. c = At(c, c.page)
          BY CallFields
      <4> QED BY <4>1 DEF At
    <3> DEFINE b == At(c, c.page - 1)
    <3>4. b.tool = c.tool /\ b.page = c.page - 1 /\ At(b, p) = At(c, p)
        BY DEF At
    <3> HIDE DEF b
    <3> QED BY <3>1, <3>2, <3>3, <3>4, <1>2 DEF InOrder, b
  <2> QED BY <2>1, <2>2
<1> QED BY <1>1, <1>2 DEF InOrder

LEMMA AnsweredPending ==
    ASSUME NEW s, NEW c \in Call, Budgeted(s), ReadTyped(s), InOrder(s), LeftPending(s),
           Known(s, c)
    PROVE  LeftPending(Answered(s, c))
<1> DEFINE r == Answered(s, c)
<1>1. r.completed = s.completed \cup {c} /\ r.pending = Pending(s, c)
    BY AnsweredFields DEF Budgeted, AnsweredAs
<1>2. InOrder(r)
    BY AnsweredInOrder
<1> HIDE DEF r
<1> SUFFICES ASSUME NEW d \in r.completed, ~LastPage(d), At(d, d.page + 1) \notin r.completed
             PROVE  <<d.tool, d.of>> \in r.pending
    BY DEF LeftPending, r
<1>3. d \in Call
    BY <1>1 DEF ReadTyped
<1>4. CASE <<d.tool, d.of>> = <<c.tool, c.of>>
  <2>1. CASE ~LastPage(c)
      BY <1>1, <1>4, <2>1 DEF Pending
  <2>2. CASE LastPage(c)
    <3>1. d.page + 1 \in 1..c.page /\ c.tool # "expand_context"
        BY <1>3, <1>4, <2>2, CallFields DEF LastPage, Searches
    <3>2. At(c, d.page + 1) \in r.completed
        BY <1>1, <1>2, <3>1 DEF InOrder
    <3> QED BY <1>4, <3>2 DEF At
  <2> QED BY <2>1, <2>2
<1>5. CASE <<d.tool, d.of>> # <<c.tool, c.of>>
    BY <1>1, <1>5 DEF Pending, LeftPending
<1> QED BY <1>4, <1>5

LEMMA AnsweredFollowed ==
    ASSUME NEW s, NEW c \in Call, Budgeted(s), ReadTyped(s), Followed(s), Known(s, c)
    PROVE  Followed(Answered(s, c))
<1>1. InOrder(Answered(s, c)) /\ LeftPending(Answered(s, c))
    BY AnsweredInOrder, AnsweredPending DEF Followed
<1> DEFINE r == Answered(s, c)
<1>0. AnsweredAs(s, c, r)
    BY AnsweredFields DEF Budgeted
<1> HIDE DEF r
<1>2. /\ r.completed = s.completed \cup {c}
      /\ r.chunks = IF c.tool = "read_record" THEN s.chunks \cup Supplied(c) ELSE s.chunks
      /\ r.events = IF c.tool = "get_decision_history"
                    THEN s.events \cup History[c.of][c.page] ELSE s.events
    BY <1>0 DEF AnsweredAs
<1>3. ChunkOfPage(r)
    BY <1>2 DEF Followed, ChunkOfPage, Supplied
<1>4. EventOfHistory(r)
    BY <1>2 DEF Followed, EventOfHistory
<1> QED BY <1>1, <1>3, <1>4 DEF Followed, r

---------------------------------------------------------------------------
(* What a step does. *)

\* A review, by what becomes of the draft.
Spoiled ==
    /\ step = "review" /\ step' = "failed"
    /\ UNCHANGED <<session, retries, round, feedback, payload, results, changed, generations>>

HandedOver(verdict, raw) ==
    /\ step = "review" /\ step' = "candidate"
    /\ Proper(raw)
    /\ payload' = IF Passed(Judged(verdict, raw)) = {} THEN [payload EXCEPT !.claims = {}]
                  ELSE payload
    /\ results' = [draft |-> payload.draft, verdict |-> verdict, of |-> Judged(verdict, raw)]
    /\ generations' = generations + 1
    /\ UNCHANGED <<session, retries, round, feedback, changed>>

SentBack(verdict) ==
    /\ step = "review" /\ step' = "generate"
    /\ ~LastReview
    /\ session' = RepairSession(session)
    /\ retries' = NoRetries
    /\ round' = round + 1
    /\ feedback' = verdict
    /\ results' = <<>>
    /\ generations' = 0
    /\ payload' = [NoPayload EXCEPT !.draft = payload.draft]
    /\ UNCHANGED changed

\* What the reviewer can respond.
Responses(claims) ==
    {raw \in UNION {[S -> UNION {Judgement(c) : c \in S}] : S \in SUBSET claims} :
        \A c \in DOMAIN raw : raw[c] \in Judgement(c)}

ReviewStep ==
    \/ Spoiled
    \/ \E verdict \in {"sufficient", "insufficient"} :
           SentBack(verdict) \/ \E raw \in Responses(payload.claims) : HandedOver(verdict, raw)

LEMMA ReviewCases ==
    ASSUME NEW verdict \in {"sufficient", "insufficient"}, NEW S \in SUBSET payload.claims,
           NEW raw \in [S -> UNION {Judgement(c) : c \in S}],
           \A c \in S : raw[c] \in Judgement(c),
           Review(verdict, raw)
    PROVE  ReviewStep
<1>1. raw \in Responses(payload.claims)
    BY DEF Responses
<1>2. Spoiled \/ SentBack(verdict) \/ HandedOver(verdict, raw)
  <2>1. CASE ~Proper(raw)
      BY <2>1 DEF Review, Spoiled
  <2>2. CASE /\ Proper(raw)
             /\ \/ verdict = "sufficient" /\ Passed(Judged(verdict, raw)) = payload.claims
                \/ LastReview
      BY <2>2 DEF Review, HandedOver
  <2>3. CASE /\ Proper(raw) /\ ~LastReview
             /\ ~(verdict = "sufficient" /\ Passed(Judged(verdict, raw)) = payload.claims)
      BY <2>3 DEF Review, SentBack
  <2> QED BY <2>1, <2>2, <2>3
<1> QED BY <1>1, <1>2 DEF ReviewStep

\* The steps of a request, one by one.
StepsOf ==
    \/ Discover
    \/ \E c \in Call : CallTool(c)
    \/ \E c \in Call : ExhaustBudget(c)
    \/ \E c \in Call : RejectCall(c)
    \/ \E claims \in SUBSET Statement : AskAgain(claims)
    \/ \E claims \in SUBSET Statement : Finalize(claims) \/ FinalizeExhausted(claims)
    \/ ReviewStep
    \/ Release
    \/ Fail
    \/ EvidenceChanges
    \/ UNCHANGED vars

LEMMA NextCases == ASSUME [Next]_vars PROVE StepsOf
<1>1. ASSUME NEW verdict \in {"sufficient", "insufficient"}, NEW S \in SUBSET payload.claims,
             NEW raw \in [S -> UNION {Judgement(c) : c \in S}],
             \A c \in S : raw[c] \in Judgement(c), Review(verdict, raw)
      PROVE  ReviewStep
    BY <1>1, ReviewCases
<1> QED BY <1>1 DEF Next, StepsOf

LEMMA ShallowRetries == Shallow => retries.shallow < Patience.shallow
BY DEF Shallow

---------------------------------------------------------------------------
(* The session. *)

LEMMA SessionKept ==
    ASSUME Fresh, Budgeted(session), ReadTyped(session), Followed(session), [Next]_vars
    PROVE  Budgeted(session') /\ ReadTyped(session') /\ Followed(session')
<1>1. CASE session' = session
    BY <1>1
<1>2. ASSUME NEW c \in Call, Known(session, c), ~OutOfCalls(session), ~OutOfRounds(session, c),
             \/ session' = [Counted(session, c) EXCEPT !.exhausted = TRUE]
             \/ ~Unaffordable(session, c) /\ session' = Answered(session, c)
      PROVE  Budgeted(session') /\ ReadTyped(session') /\ Followed(session')
  <2>1. CASE session' = [Counted(session, c) EXCEPT !.exhausted = TRUE]
    <3> DEFINE t == Counted(session, c)
    <3>1. Budgeted(t) /\ ReadTyped(t) /\ Followed(t)
        BY <1>2, CountedSession, SameFollowed
    <3> HIDE DEF t
    <3>2. Budgeted([t EXCEPT !.exhausted = TRUE]) /\ SameReading(t, [t EXCEPT !.exhausted = TRUE])
        BY <3>1, ExhaustedSession
    <3>3. session' = [t EXCEPT !.exhausted = TRUE]
        BY <2>1 DEF t
    <3> QED BY <3>1, <3>2, <3>3, SameFollowed
  <2>2. CASE ~Unaffordable(session, c) /\ session' = Answered(session, c)
      BY <1>2, <2>2, AnsweredBudgets, AnsweredReading, AnsweredFollowed
  <2> QED BY <1>2, <2>1, <2>2
<1>3. CASE Discover
  <2>1. PICK q \in Query :
            LET c == [tool |-> "search_memory", of |-> q, page |-> 1]
            IN  IF Unaffordable(session, c)
                THEN session' = [Counted(session, c) EXCEPT !.exhausted = TRUE]
                ELSE session' = Answered(session, c)
      BY <1>3 DEF Discover
  <2> DEFINE c == [tool |-> "search_memory", of |-> q, page |-> 1]
  <2>2. c \in Call /\ Known(session, c)
      BY FirstSearch DEF Known
  <2>3. ~OutOfCalls(session) /\ ~OutOfRounds(session, c)
      BY <1>3, LimitsAssumption DEF Discover, Fresh, NewSession, OutOfCalls, OutOfRounds, RoundsLeft
  <2> HIDE DEF c
  <2>4. \/ session' = [Counted(session, c) EXCEPT !.exhausted = TRUE]
        \/ ~Unaffordable(session, c) /\ session' = Answered(session, c)
      BY <2>1 DEF c
  <2> QED BY <1>2, <2>2, <2>3, <2>4
<1>4. ASSUME NEW c \in Call, CallTool(c)
      PROVE  Budgeted(session') /\ ReadTyped(session') /\ Followed(session')
  <2>1. /\ Known(session, c) /\ ~OutOfCalls(session) /\ ~OutOfRounds(session, c)
        /\ \/ session' = [Counted(session, c) EXCEPT !.exhausted = TRUE]
           \/ ~Unaffordable(session, c) /\ session' = Answered(session, c)
      BY <1>4 DEF CallTool
  <2> QED BY <1>2, <2>1
<1>5. ASSUME NEW c \in Call, ExhaustBudget(c)
      PROVE  Budgeted(session') /\ ReadTyped(session') /\ Followed(session')
  <2>1. CASE session' = [session EXCEPT !.exhausted = TRUE]
      BY <2>1, ExhaustedSession, SameFollowed
  <2>2. CASE ~OutOfCalls(session) /\ session' = [session EXCEPT !.exhausted = TRUE, !.calls = @ + 1]
      BY <2>2, ExhaustedCall, SameFollowed
  <2> QED BY <1>5, <2>1, <2>2 DEF ExhaustBudget
<1>6. ASSUME NEW c \in Call, RejectCall(c)
      PROVE  Budgeted(session') /\ ReadTyped(session') /\ Followed(session')
  <2>1. CASE session' = session
      BY <2>1
  <2>2. CASE ~Legal(session, c) /\ session' = Counted(session, c)
    <3>1. ~OutOfRounds(session, c)
        BY <2>2 DEF Legal, OutOfRounds, Searches
    <3> QED BY <1>6, <2>2, <3>1, CountedSession, SameFollowed DEF RejectCall
  <2> QED BY <1>6, <2>1, <2>2 DEF RejectCall
<1>7. ASSUME NEW verdict, SentBack(verdict)
      PROVE  Budgeted(session') /\ ReadTyped(session') /\ Followed(session')
    BY <1>7, RepairedSession, SameFollowed DEF SentBack
<1>8. CASE \/ \E claims \in SUBSET Statement :
                 AskAgain(claims) \/ Finalize(claims) \/ FinalizeExhausted(claims)
           \/ Spoiled \/ (\E verdict, raw : HandedOver(verdict, raw))
           \/ Release \/ Fail \/ EvidenceChanges \/ UNCHANGED vars
  <2>1. session' = session
      BY <1>8 DEF AskAgain, Finalize, FinalizeExhausted, Spoiled, HandedOver, Release, Fail,
          EvidenceChanges, vars
  <2> QED BY <1>1, <2>1
<1> QED BY <1>3, <1>4, <1>5, <1>6, <1>7, <1>8, NextCases DEF StepsOf, ReviewStep

---------------------------------------------------------------------------
(* The phase: its retries, its round, its draft and what it counts. *)

LEMMA CoverageTyped ==
    \A s : Coverage(s) \in {"complete", "partial", "insufficient"}
BY DEF Coverage

LEMMA FreshKept ==
    ASSUME Fresh, [Next]_vars
    PROVE  Fresh'
<1>1. step' = "discover" => step = "discover" /\ session' = session
  <2>1. \A claims : Draft(claims) => step' # "discover"
      BY DEF Draft
  <2>2. \A c : step = "generate" /\ (CallTool(c) \/ RejectCall(c)) => step' # "discover"
      BY DEF CallTool, RejectCall
  <2> QED BY <2>1, <2>2, NextCases DEF StepsOf, Discover, CallTool, ExhaustBudget, RejectCall, AskAgain,
          Finalize, FinalizeExhausted, ReviewStep, Spoiled, SentBack, HandedOver, Release, Fail,
          EvidenceChanges, vars
<1> QED BY <1>1 DEF Fresh

LEMMA TypedKept ==
    ASSUME Typed, ReadTyped(session), [Next]_vars
    PROVE  Typed'
<1>1. CASE Discover
    BY <1>1 DEF Discover, Typed, Steps
<1>2. ASSUME NEW c \in Call, CallTool(c) PROVE Typed'
  <2>1. step = "generate" /\ step' \in {"generate", "exhausted"}
        /\ UNCHANGED <<retries, round, feedback, payload>>
      BY <1>2 DEF CallTool
  <2> QED BY <2>1 DEF Typed, Steps
<1>3. ASSUME NEW c \in Call, ExhaustBudget(c) PROVE Typed'
    BY <1>3 DEF ExhaustBudget, Typed, Steps
<1>4. ASSUME NEW c \in Call, RejectCall(c) PROVE Typed'
  <2>1. step = "generate" /\ UNCHANGED <<round, feedback, payload>>
      BY <1>4 DEF RejectCall
  <2>2. CASE retries.tool < Patience.tool /\ retries' = [retries EXCEPT !.tool = @ + 1]
             /\ UNCHANGED step
    <3>1. retries' \in [shallow : 0..Patience.shallow, tool : 0..Patience.tool,
                        evidence : 0..Patience.evidence]
        BY <2>2, LimitsAssumption DEF Typed
    <3> QED BY <2>1, <2>2, <3>1 DEF Typed
  <2>3. CASE step' = "failed" /\ UNCHANGED retries
      BY <2>1, <2>3 DEF Typed, Steps
  <2> QED BY <1>4, <2>2, <2>3 DEF RejectCall
<1>5. ASSUME NEW claims, AskAgain(claims) PROVE Typed'
  <2>1. UNCHANGED <<step, round, feedback, payload>>
      BY <1>5 DEF AskAgain
  <2>2. retries' \in [shallow : 0..Patience.shallow, tool : 0..Patience.tool,
                      evidence : 0..Patience.evidence]
    <3>1. CASE Shallow
      <4>1. retries.shallow < Patience.shallow /\ retries' = [retries EXCEPT !.shallow = @ + 1]
          BY <1>5, <3>1, ShallowRetries DEF AskAgain
      <4> QED BY <4>1, LimitsAssumption DEF Typed
    <3>2. CASE ~Shallow
      <4>1. retries.evidence < Patience.evidence /\ retries' = [retries EXCEPT !.evidence = @ + 1]
          BY <1>5, <3>2 DEF AskAgain, Unread
      <4> QED BY <4>1, LimitsAssumption DEF Typed
    <3> QED BY <3>1, <3>2
  <2> QED BY <2>1, <2>2 DEF Typed
<1>6. ASSUME NEW claims \in SUBSET Statement, Finalize(claims) \/ FinalizeExhausted(claims)
      PROVE  Typed'
  <2>1. /\ step \in {"generate", "exhausted"} /\ step' \in {"failed", "candidate", "review"}
        /\ payload' = [claims |-> claims, dependencies |-> session.dependencies,
                       coverage |-> Coverage(session), draft |-> payload.draft + 1]
        /\ UNCHANGED <<retries, round, feedback>>
      BY <1>6 DEF Finalize, FinalizeExhausted, Draft
  <2>2. payload' \in [claims : SUBSET Statement, dependencies : SUBSET Span,
                      coverage : {"complete", "partial", "insufficient"}, draft : Nat]
      BY <2>1, CoverageTyped DEF Typed, ReadTyped
  <2>3. payload'.draft = payload.draft + 1 /\ payload.draft <= round /\ payload.draft \in Nat
      BY <2>1 DEF Typed
  <2>4. payload'.draft <= round + 1
      BY <2>3 DEF Typed
  <2> QED BY <2>1, <2>2, <2>4 DEF Typed, Steps
<1>7. CASE Spoiled
    BY <1>7 DEF Spoiled, Typed, Steps
<1>8. ASSUME NEW verdict, NEW raw, HandedOver(verdict, raw) PROVE Typed'
  <2>1. /\ step = "review" /\ step' = "candidate" /\ UNCHANGED <<retries, round, feedback>>
        /\ payload' = [payload EXCEPT !.claims = {}] \/ payload' = payload
      BY <1>8 DEF HandedOver
  <2>2. /\ payload' \in [claims : SUBSET Statement, dependencies : SUBSET Span,
                         coverage : {"complete", "partial", "insufficient"}, draft : Nat]
        /\ payload'.draft = payload.draft
      BY <2>1 DEF Typed
  <2> QED BY <2>1, <2>2 DEF Typed, Steps
<1>9. ASSUME NEW verdict \in {"sufficient", "insufficient"}, SentBack(verdict) PROVE Typed'
  <2>1. round + 1 \in 0..ReviewerPasses - 1
      BY <1>9, LimitsAssumption DEF SentBack, LastReview, Typed
  <2>2. NoRetries \in [shallow : 0..Patience.shallow, tool : 0..Patience.tool,
                       evidence : 0..Patience.evidence]
      BY LimitsAssumption DEF NoRetries
  <2>3. /\ payload' \in [claims : SUBSET Statement, dependencies : SUBSET Span,
                         coverage : {"complete", "partial", "insufficient"}, draft : Nat]
        /\ payload'.draft = payload.draft /\ payload.draft <= round + 1
      BY <1>9 DEF SentBack, Typed, NoPayload
  <2> QED BY <1>9, <2>1, <2>2, <2>3 DEF SentBack, Typed, Steps
<1>10. CASE Release
    BY <1>10 DEF Release, Typed, Steps
<1>11. CASE Fail
  <2>1. UNCHANGED <<retries, round, feedback, payload>> /\ step' = "failed"
      BY <1>11 DEF Fail
  <2>2. payload.draft <= round + 1
      BY DEF Typed
  <2> QED BY <2>1, <2>2 DEF Typed, Steps
<1>12. CASE EvidenceChanges \/ UNCHANGED vars
    BY <1>12 DEF EvidenceChanges, vars, Typed
<1> QED BY <1>1, <1>2, <1>3, <1>4, <1>5, <1>6, <1>7, <1>8, <1>9, <1>10, <1>11, <1>12, NextCases
       DEF StepsOf, ReviewStep

LEMMA CountsKept ==
    ASSUME Typed, Budgeted(session), Fresh, Counts, [Next]_vars
    PROVE  Counts'
<1> DEFINE asked == retries.shallow + retries.tool + retries.evidence
<1>0. /\ retries.shallow \in Nat /\ retries.tool \in Nat /\ retries.evidence \in Nat
      /\ session.calls \in Nat /\ generations \in Nat
      /\ generations <= session.calls + asked + Slack
    BY LimitsAssumption DEF Typed, Budgeted, Counts
<1>1. CASE Discover
  <2>1. PICK q \in Query :
            LET c == [tool |-> "search_memory", of |-> q, page |-> 1]
            IN  IF Unaffordable(session, c)
                THEN session' = [Counted(session, c) EXCEPT !.exhausted = TRUE]
                ELSE session' = Answered(session, c)
      BY <1>1 DEF Discover
  <2> DEFINE c == [tool |-> "search_memory", of |-> q, page |-> 1]
  <2>2. c \in Call
      BY FirstSearch
  <2>3. ~OutOfCalls(session) /\ ~OutOfRounds(session, c)
      BY <1>1, LimitsAssumption DEF Discover, Fresh, NewSession, OutOfCalls, OutOfRounds, RoundsLeft
  <2> HIDE DEF c
  <2>4. session'.calls = session.calls + 1
      BY <2>1, <2>2, <2>3, CallCounted DEF c
  <2>5. step = "discover" /\ step' = "generate" /\ UNCHANGED <<retries, generations>>
      BY <1>1 DEF Discover
  <2> QED BY <1>0, <2>4, <2>5 DEF Counts, Slack
<1>2. ASSUME NEW c \in Call, CallTool(c) PROVE Counts'
  <2>1. /\ ~OutOfCalls(session) /\ ~OutOfRounds(session, c)
        /\ IF Unaffordable(session, c)
           THEN session' = [Counted(session, c) EXCEPT !.exhausted = TRUE]
           ELSE session' = Answered(session, c)
      BY <1>2 DEF CallTool
  <2>2. session'.calls = session.calls + 1
      BY <2>1, CallCounted
  <2>3. /\ step = "generate" /\ step' \in {"generate", "exhausted"}
        /\ generations' = generations + 1 /\ UNCHANGED retries
      BY <1>2 DEF CallTool
  <2> QED BY <1>0, <2>2, <2>3 DEF Counts, Slack
<1>3. ASSUME NEW c \in Call, ExhaustBudget(c) PROVE Counts'
  <2>1. session'.calls \in {session.calls, session.calls + 1}
      BY <1>3, ExhaustedSession, ExhaustedCall DEF ExhaustBudget
  <2>2. /\ step = "generate" /\ step' = "exhausted"
        /\ generations' = generations + 1 /\ UNCHANGED retries
      BY <1>3 DEF ExhaustBudget
  <2> QED BY <1>0, <2>1, <2>2 DEF Counts, Slack
<1>4. ASSUME NEW c \in Call, RejectCall(c) PROVE Counts'
  <2>1. step = "generate" /\ generations' = generations + 1
      BY <1>4 DEF RejectCall
  <2>2. session'.calls \in {session.calls, session.calls + 1}
    <3>1. CASE ~Legal(session, c) /\ session' = Counted(session, c)
      <4>1. ~OutOfRounds(session, c)
          BY <3>1 DEF Legal, OutOfRounds, Searches
      <4> QED BY <1>4, <3>1, <4>1, CountedSession DEF RejectCall
    <3> QED BY <1>4, <3>1 DEF RejectCall
  <2>3. CASE retries' = [retries EXCEPT !.tool = @ + 1] /\ UNCHANGED step
    <3>1. /\ retries'.tool = retries.tool + 1
          /\ retries'.shallow = retries.shallow /\ retries'.evidence = retries.evidence
        BY <2>3 DEF Typed
    <3> QED BY <1>0, <2>1, <2>2, <2>3, <3>1 DEF Counts, Slack
  <2>4. CASE step' = "failed" /\ UNCHANGED retries
      BY <1>0, <2>1, <2>2, <2>4 DEF Counts, Slack
  <2> QED BY <1>4, <2>3, <2>4 DEF RejectCall
<1>5. ASSUME NEW claims, AskAgain(claims) PROVE Counts'
  <2>1. step = "generate" /\ generations' = generations + 1 /\ UNCHANGED <<step, session>>
      BY <1>5 DEF AskAgain
  <2>2. \/ retries' = [retries EXCEPT !.shallow = @ + 1]
        \/ retries' = [retries EXCEPT !.evidence = @ + 1]
      BY <1>5 DEF AskAgain
  <2>3. /\ retries'.tool = retries.tool
        /\ \/ retries'.shallow = retries.shallow + 1 /\ retries'.evidence = retries.evidence
           \/ retries'.evidence = retries.evidence + 1 /\ retries'.shallow = retries.shallow
      BY <2>2 DEF Typed
  <2> QED BY <1>0, <2>1, <2>3 DEF Counts, Slack
<1>6. ASSUME NEW claims \in SUBSET Statement, Finalize(claims) \/ FinalizeExhausted(claims)
      PROVE  Counts'
  <2>1. /\ step \in {"generate", "exhausted"} /\ step' \in {"failed", "candidate", "review"}
        /\ generations' = generations + 1 /\ UNCHANGED <<session, retries>>
      BY <1>6 DEF Finalize, FinalizeExhausted, Draft
  <2> QED BY <1>0, <2>1 DEF Counts, Slack
<1>7. CASE Spoiled
    BY <1>0, <1>7 DEF Spoiled, Counts, Slack
<1>8. ASSUME NEW verdict, NEW raw, HandedOver(verdict, raw) PROVE Counts'
    BY <1>0, <1>8 DEF HandedOver, Counts, Slack
<1>9. ASSUME NEW verdict \in {"sufficient", "insufficient"}, SentBack(verdict) PROVE Counts'
  <2>1. generations' = 0 /\ retries' = NoRetries /\ step' = "generate"
      BY <1>9 DEF SentBack
  <2>2. session'.calls \in Nat
      BY <1>9, RepairedSession, LimitsAssumption DEF SentBack, Budgeted
  <2> QED BY <2>1, <2>2 DEF Counts, Slack, NoRetries
<1>10. CASE Release
    BY <1>0, <1>10 DEF Release, Counts, Slack
<1>11. CASE Fail
  <2>1. step' = "failed" /\ UNCHANGED <<session, retries, generations>>
      BY <1>11 DEF Fail
  <2>2. Slack \in 0..3 /\ Slack' = 3
      BY <2>1 DEF Slack
  <2> QED BY <1>0, <2>1, <2>2 DEF Counts
<1>12. CASE EvidenceChanges \/ UNCHANGED vars
    BY <1>12 DEF EvidenceChanges, vars, Counts, Slack
<1> QED BY <1>1, <1>2, <1>3, <1>4, <1>5, <1>6, <1>7, <1>8, <1>9, <1>10, <1>11, <1>12, NextCases
       DEF StepsOf, ReviewStep

---------------------------------------------------------------------------
(* The draft, its judgement and its release. *)

\* The session and the draft rest from the draft on.
LEMMA DraftedRests ==
    ASSUME Drafted, UNCHANGED session, step \in {"review", "candidate", "released", "refused"},
           step' # "review" \/ step = "review",
           payload' = payload \/ (step' # "review" /\ payload' = [payload EXCEPT !.claims = {}]),
           Typed
    PROVE  Drafted'
<1>1. /\ payload.coverage = Coverage(session)
      /\ \A c \in payload.claims : Cites[c] \subseteq payload.dependencies /\ Decided(c)
      /\ step = "review" => payload.claims # {}
    BY DEF Drafted
<1>2. \A c : Decided(c) => Decided(c)'
    BY DEF Decided
<1>3. Coverage(session)' = Coverage(session)
    OBVIOUS
<1>4. CASE payload' = payload
    BY <1>1, <1>2, <1>3, <1>4 DEF Drafted
<1>5. CASE step' # "review" /\ payload' = [payload EXCEPT !.claims = {}]
  <2>1. payload'.claims = {} /\ payload'.coverage = payload.coverage
      BY <1>5 DEF Typed
  <2> QED BY <1>1, <1>3, <1>5, <2>1 DEF Drafted
<1> QED BY <1>4, <1>5

LEMMA DraftedKept ==
    ASSUME Typed, ReadTyped(session), Drafted, [Next]_vars
    PROVE  Drafted'
<1>1. CASE step' \notin {"review", "candidate", "released", "refused"}
    BY <1>1 DEF Drafted
<1>2. ASSUME NEW claims \in SUBSET Statement, Finalize(claims) \/ FinalizeExhausted(claims),
             step' # "failed"
      PROVE  Drafted'
  <2>1. /\ Draftable(claims) /\ UNCHANGED session
        /\ step' = "review" => claims # {}
        /\ payload' = [claims |-> claims, dependencies |-> session.dependencies,
                       coverage |-> Coverage(session), draft |-> payload.draft + 1]
    <3>1. Draft(claims) /\ UNCHANGED session
        BY <1>2 DEF Finalize, FinalizeExhausted
    <3>2. Draftable(claims) /\ (step' = "review" => claims # {})
      <4>1. CASE ~Draftable(claims)
        <5>1. claims # {}
            BY <4>1 DEF Draftable
        <5>2. step' = "failed"
            BY <3>1, <4>1, <5>1 DEF Draft
        <5> QED BY <1>2, <5>2
      <4>2. CASE Draftable(claims)
          BY <3>1, <4>2 DEF Draft
      <4> QED BY <4>1, <4>2
    <3> QED BY <3>1, <3>2 DEF Draft
  <2>2. payload'.claims = claims /\ payload'.dependencies = session.dependencies
        /\ payload'.coverage = Coverage(session)
      BY <2>1
  <2>3. \A c : Decided(c) => Decided(c)'
      BY <2>1 DEF Decided
  <2>4. \A c \in claims : Cites[c] \subseteq session.dependencies /\ Decided(c)
      BY <2>1 DEF Draftable, ReadTyped
  <2>5. Coverage(session)' = Coverage(session)
      BY <2>1
  <2> QED BY <2>1, <2>2, <2>3, <2>4, <2>5 DEF Drafted
<1>3. ASSUME NEW verdict, NEW raw, HandedOver(verdict, raw) PROVE Drafted'
    BY <1>3, DraftedRests DEF HandedOver
<1>4. CASE Release
    BY <1>4, DraftedRests DEF Release
<1>5. CASE EvidenceChanges \/ UNCHANGED vars
  <2>1. UNCHANGED <<step, session, payload>>
      BY <1>5 DEF EvidenceChanges, vars
  <2>2. CASE step \in {"review", "candidate", "released", "refused"}
      BY <2>1, <2>2, DraftedRests
  <2> QED BY <2>1, <2>2, <1>1
<1>6. CASE \/ Discover
           \/ \E c \in Call : CallTool(c) \/ ExhaustBudget(c) \/ RejectCall(c)
           \/ \E claims \in SUBSET Statement : AskAgain(claims)
           \/ Spoiled \/ (\E verdict : SentBack(verdict)) \/ Fail
  <2>1. step' \in {"generate", "exhausted", "failed"}
    <3>1. \A c : CallTool(c) => step' \in {"generate", "exhausted"}
        BY DEF CallTool
    <3>2. \A c : RejectCall(c) => step' \in {"generate", "failed"}
        BY DEF RejectCall
    <3> QED BY <1>6, <3>1, <3>2 DEF Discover, ExhaustBudget, AskAgain, Spoiled, SentBack, Fail
  <2> QED BY <1>1, <2>1
<1> QED BY <1>1, <1>2, <1>3, <1>4, <1>5, <1>6, NextCases DEF StepsOf, ReviewStep

\* What passes was judged on sufficient retrieval, and all its receipts were named.
LEMMA JudgedPasses ==
    ASSUME NEW verdict \in {"sufficient", "insufficient"}, NEW raw \in Responses(payload.claims),
           Proper(raw)
    PROVE  LET judged == Judged(verdict, raw)
           IN  /\ DOMAIN judged = payload.claims
               /\ Passed(judged) # {} => verdict = "sufficient"
               /\ \A c \in Passed(judged) : judged[c].names \in {"all", "reordered"}
<1> DEFINE judged == Judged(verdict, raw)
<1>1. DOMAIN judged = payload.claims
    BY DEF Judged
<1>2. ASSUME NEW c \in Passed(judged)
      PROVE  verdict = "sufficient" /\ judged[c].names \in {"all", "reordered"}
  <2>1. c \in payload.claims /\ judged[c].verdict = "pass"
      BY <1>1, <1>2 DEF Passed
  <2>2. CASE DOMAIN raw # payload.claims
    <3>1. judged[c] = Failed
        BY <2>1, <2>2 DEF Judged
    <3> QED BY <2>1, <3>1 DEF Failed
  <2>3. CASE DOMAIN raw = payload.claims
    <3>1. judged[c] = IF verdict = "insufficient" THEN [raw[c] EXCEPT !.verdict = "fail"] ELSE raw[c]
        BY <2>1, <2>3 DEF Judged
    <3>2. raw[c] \in [verdict : {"pass", "fail"}, names : {"all", "reordered", "some"}]
        BY <2>1, <2>3 DEF Responses, Judgement
    <3>3. verdict = "sufficient" /\ judged[c] = raw[c]
        BY <2>1, <3>1, <3>2
    <3>4. raw[c].names # "some"
        BY <2>1, <2>3, <3>3 DEF Proper
    <3> QED BY <3>2, <3>3, <3>4
  <2> QED BY <2>2, <2>3
<1> QED BY <1>1, <1>2

LEMMA ReviewedKept ==
    ASSUME Typed, Reviewed, [Next]_vars
    PROVE  Reviewed'
<1>1. CASE step' \notin {"candidate", "released", "refused"} \/ payload'.claims = {}
    BY <1>1 DEF Reviewed
<1>2. ASSUME NEW claims \in SUBSET Statement, Finalize(claims) \/ FinalizeExhausted(claims)
      PROVE  Reviewed'
  <2>1. step' \in {"failed", "review"} \/ payload'.claims = {}
    <3>1. /\ step' \in {"failed", "review"} \/ claims = {}
          /\ payload' = [claims |-> claims, dependencies |-> session.dependencies,
                         coverage |-> Coverage(session), draft |-> payload.draft + 1]
        BY <1>2 DEF Finalize, FinalizeExhausted, Draft
    <3> QED BY <3>1
  <2> QED BY <1>1, <2>1
<1>3. ASSUME NEW verdict \in {"sufficient", "insufficient"}, NEW raw \in Responses(payload.claims),
             HandedOver(verdict, raw)
      PROVE  Reviewed'
  <2>1. CASE Passed(Judged(verdict, raw)) = {}
    <3>1. payload' = [payload EXCEPT !.claims = {}]
        BY <1>3, <2>1 DEF HandedOver
    <3> QED BY <1>1, <3>1 DEF Typed
  <2>2. CASE Passed(Judged(verdict, raw)) # {}
    <3>1. /\ payload' = payload
          /\ results'.draft = payload.draft /\ results'.verdict = verdict
          /\ results'.of = Judged(verdict, raw)
        BY <1>3, <2>2 DEF HandedOver
    <3>2. Proper(raw)
        BY <1>3 DEF HandedOver
    <3> QED BY <3>1, <3>2, JudgedPasses DEF Reviewed
  <2> QED BY <2>1, <2>2
<1>4. CASE Release
    BY <1>4 DEF Release, Reviewed
<1>5. CASE EvidenceChanges \/ UNCHANGED vars
    BY <1>5 DEF EvidenceChanges, vars, Reviewed
<1>6. CASE \/ Discover
           \/ \E c \in Call : CallTool(c) \/ ExhaustBudget(c) \/ RejectCall(c)
           \/ \E claims \in SUBSET Statement : AskAgain(claims)
           \/ Spoiled \/ (\E verdict : SentBack(verdict)) \/ Fail
  <2>1. step' \in {"generate", "exhausted", "failed"}
    <3>1. \A c : CallTool(c) => step' \in {"generate", "exhausted"}
        BY DEF CallTool
    <3>2. \A c : RejectCall(c) => step' \in {"generate", "failed"}
        BY DEF RejectCall
    <3> QED BY <1>6, <3>1, <3>2 DEF Discover, ExhaustBudget, AskAgain, Spoiled, SentBack, Fail
  <2> QED BY <1>1, <2>1
<1> QED BY <1>2, <1>3, <1>4, <1>5, <1>6, NextCases DEF StepsOf, ReviewStep

\* What is offered satisfies every condition of the release but the order of receipts.
LEMMA OfferedValid ==
    ASSUME step = "candidate", Drafted, Reviewed, ~changed,
           \A c \in Offered : results.of[c].names # "reordered"
    PROVE  Valid(Offered)
<1>1. CASE Offered = {}
    BY <1>1 DEF Valid
<1>2. CASE Offered # {}
  <2>1. payload.claims # {} /\ Offered = Passed(results.of)
      BY <1>2 DEF Offered
  <2>2. /\ results.draft = payload.draft /\ DOMAIN results.of = payload.claims
        /\ results.verdict = "sufficient"
        /\ \A c \in Offered : results.of[c].names \in {"all", "reordered"}
      BY <1>2, <2>1 DEF Reviewed
  <2>3. \A c \in Offered : c \in payload.claims /\ results.of[c].verdict = "pass"
      BY <2>1, <2>2 DEF Passed
  <2>4. \A c \in Offered : Cites[c] \subseteq payload.dependencies
      BY <2>3 DEF Drafted
  <2>5. \A c \in Offered : results.of[c].names = "all"
      BY <2>2
  <2> QED BY <2>1, <2>2, <2>3, <2>4, <2>5 DEF Valid
<1> QED BY <1>1, <1>2

LEMMA AcceptedKept ==
    ASSUME Drafted, Reviewed, CandidateAccepted, [Next]_vars
    PROVE  CandidateAccepted'
<1>1. CASE step' # "refused"
    BY <1>1 DEF CandidateAccepted
<1>2. CASE Release
  <2>1. UNCHANGED <<payload, results, changed>> /\ step = "candidate"
        /\ step' = IF Valid(Offered) THEN "released" ELSE "refused"
      BY <1>2 DEF Release
  <2>2. Offered' = Offered
      BY <2>1 DEF Offered, Passed
  <2>3. step' = "refused" => changed \/ \E c \in Offered : results.of[c].names = "reordered"
      BY <2>1, OfferedValid
  <2> QED BY <2>1, <2>2, <2>3 DEF CandidateAccepted
<1>3. CASE UNCHANGED vars
    BY <1>3 DEF vars, CandidateAccepted, Offered, Passed
<1>4. step' = "refused" => Release \/ UNCHANGED vars
  <2>1. \A c : CallTool(c) => step' # "refused"
      BY DEF CallTool
  <2>2. \A c : RejectCall(c) => step' # "refused"
      BY DEF RejectCall
  <2>3. \A claims : Draft(claims) => step' # "refused"
      BY DEF Draft
  <2> QED BY <2>1, <2>2, <2>3, NextCases DEF StepsOf, Discover, ExhaustBudget, AskAgain, Finalize,
          FinalizeExhausted, ReviewStep, Spoiled, SentBack, HandedOver, Fail, EvidenceChanges
<1> QED BY <1>1, <1>2, <1>3, <1>4

---------------------------------------------------------------------------
(* The theorems. *)

LEMMA Starts == Init => AnsweringInv
<1> SUFFICES ASSUME Init PROVE AnsweringInv
    OBVIOUS
<1>1. Budgeted(session) /\ ReadTyped(session) /\ Followed(session)
    BY NewSessionStarts, LimitsAssumption DEF Init
<1>2. Typed
    BY LimitsAssumption DEF Init, Typed, Steps, NoRetries, NoPayload
<1>3. Counts
    BY <1>1, LimitsAssumption DEF Init, Counts, Slack, NoRetries, Budgeted
<1> QED BY <1>1, <1>2, <1>3 DEF Init, AnsweringInv, Fresh, Drafted, Reviewed, CandidateAccepted

\* The invariant of a request: the budgets hold, every response counts, and what is drafted,
\* judged and released follows from what the session has read.
THEOREM AnsweringInvariant == Spec => []AnsweringInv
<1>1. AnsweringInv /\ [Next]_vars => AnsweringInv'
  <2> SUFFICES ASSUME AnsweringInv, [Next]_vars PROVE AnsweringInv'
      OBVIOUS
  <2>1. Budgeted(session)' /\ ReadTyped(session)' /\ Followed(session)'
      BY SessionKept DEF AnsweringInv
  <2> QED BY <2>1, FreshKept, TypedKept, CountsKept, DraftedKept, ReviewedKept, AcceptedKept
         DEF AnsweringInv
<1> QED BY Starts, <1>1, PTL DEF Spec

\* Every variable keeps to its values and every session to its budgets, for all records,
\* pages and limits.
THEOREM AnsweringTypes == Spec => []AnsweringTypeOK
<1>1. AnsweringInv => AnsweringTypeOK
  <2> SUFFICES ASSUME AnsweringInv PROVE AnsweringTypeOK
      OBVIOUS
  <2>1. \A k \in DOMAIN retries : retries[k] \in 0..Patience[k]
      BY DEF AnsweringInv, Typed
  <2>2. payload.draft \in 0..ReviewerPasses /\ payload.claims \subseteq Statement
        /\ payload.coverage \in {"complete", "partial", "insufficient"}
      BY LimitsAssumption DEF AnsweringInv, Typed
  <2> QED BY <2>1, <2>2 DEF AnsweringInv, AnsweringTypeOK, Typed, Steps, Budgeted, ReadTyped, Drafted
<1> QED BY AnsweringInvariant, <1>1, PTL

\* However the model responds, the responses a phase asks for are bounded by its limits.
THEOREM ResponsesBounded == Spec => []GenerationsBounded
<1>1. AnsweringInv => GenerationsBounded
  <2> SUFFICES ASSUME AnsweringInv PROVE GenerationsBounded
      OBVIOUS
  <2>1. /\ retries.shallow \in 0..Patience.shallow /\ retries.tool \in 0..Patience.tool
        /\ retries.evidence \in 0..Patience.evidence /\ session.calls \in 0..ToolCalls
      BY DEF AnsweringInv, Typed, Budgeted
  <2>2. Slack \in 0..3
      BY DEF Slack
  <2>3. /\ generations \in Nat
        /\ generations <= session.calls + retries.shallow + retries.tool + retries.evidence + Slack
      BY DEF AnsweringInv, Counts
  <2>4. /\ Patience.shallow \in Nat /\ Patience.tool \in Nat /\ Patience.evidence \in Nat
        /\ ToolCalls \in Nat
      BY LimitsAssumption
  <2> QED BY <2>1, <2>2, <2>3, <2>4 DEF GenerationsBounded
<1> QED BY AnsweringInvariant, <1>1, PTL

\* _validate_candidate refuses what the answering side hands over only because the evidence
\* has changed or a reviewer named the receipts of a claim in another order.
THEOREM HandedOverAccepted == Spec => []CandidateAccepted
BY AnsweringInvariant, PTL DEF AnsweringInv

\* "Complete" is said only of records read, and of searches and histories followed, to the
\* last page.
THEOREM CompleteIsFollowed == Spec => []CompleteMeansFollowed
<1>1. AnsweringInv => CompleteMeansFollowed
  <2> SUFFICES ASSUME AnsweringInv, step = "released", payload.coverage = "complete",
                      NEW c \in session.completed
               PROVE  /\ ~LastPage(c) => [c EXCEPT !.page = @ + 1] \in session.completed
                      /\ c.tool = "read_record" => SpansOf(c.of) \subseteq session.chunks
      BY DEF CompleteMeansFollowed
  <2>1. Coverage(session) = "complete"
      BY DEF AnsweringInv, Drafted
  <2>2. session.pending = {} /\ \A x \in session.chunks : SpansOf(x[1]) \subseteq session.chunks
      BY <2>1 DEF Coverage
  <2>3. ~LastPage(c) => At(c, c.page + 1) \in session.completed
      BY <2>2 DEF AnsweringInv, Followed, LeftPending
  <2>4. At(c, c.page + 1) = [c EXCEPT !.page = @ + 1]
    <3>1. c = At(c, c.page)
        BY CallFields DEF AnsweringInv, ReadTyped
    <3> QED BY <3>1 DEF At
  <2>5. c.tool = "read_record" => <<c.of, c.page>> \in session.chunks
      BY DEF AnsweringInv, Followed, ChunkOfPage
  <2> QED BY <2>2, <2>3, <2>4, <2>5
<1> QED BY AnsweringInvariant, <1>1, PTL

\* Whatever is released as corrected or superseded rests on an approved event the request
\* has read.
THEOREM RetirementDecided == Spec => []RetiredByDecision
<1>1. AnsweringInv => RetiredByDecision
  <2> SUFFICES ASSUME AnsweringInv, step = "released", NEW c \in Offered, Status[c] # "current"
               PROVE  \E k \in session.completed : k.tool = "get_decision_history" /\
                          \E e \in History[k.of][k.page] :
                              /\ e.kind \in Kinds[Status[c]]
                              /\ Records(Cites[c]) \subseteq Records(e.evidence)
      BY DEF RetiredByDecision
  <2>1. c \in payload.claims
      BY DEF AnsweringInv, Offered, Passed, Reviewed
  <2>2. Decided(c)
      BY <2>1 DEF AnsweringInv, Drafted
  <2>3. PICK e \in session.events :
            e.kind \in Kinds[Status[c]] /\ Records(Cites[c]) \subseteq Records(e.evidence)
      BY <2>2 DEF Decided
  <2> QED BY <2>3 DEF AnsweringInv, Followed, EventOfHistory
<1> QED BY AnsweringInvariant, <1>1, PTL
=============================================================================
