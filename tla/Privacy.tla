------------------------------ MODULE Privacy ------------------------------
(***************************************************************************)
(* The privacy review of uploads: the stages "parsed" of prepare_ingestion *)
(* in evidence/jobs.py with the language model between its transactions,   *)
(* and the administrators' commands on identities and diagnostics in       *)
(* evidence/service.py.  Several workers review the records of different   *)
(* uploads at once; they and the administrators share one registry of      *)
(* people.  A record is one text; a worker plans it again and again, until *)
(* a round over all records of its upload finds nobody new.                *)
(***************************************************************************)
EXTENDS PrivacyPlan

CONSTANTS
    Upload,         \* ingestion jobs, each parsed and at stage "parsed"
    Record,         \* the records parsed from them
    RecordsOf,      \* RecordsOf[j]: the records of job j in order
    Text,           \* Text[r]: the raw spans of record r
    Registry,       \* the people of earlier uploads
    Enrolled,       \* identifiers that associate_person may draw
    Association,    \* the rows that administrators enter with associate_person
    MaxGeneration,  \* BOUND: privacy generations
    MaxRestarts     \* BOUND: times a job is taken up again

VARIABLES
    people,              \* the registry, from identifiers to rows
    privacy_generation,
    privacy_plans,       \* privacy_plans[r]: the plan saved for r, or None
    privacy_diagnostics, \* what administrators are asked to decide
    privacy_resolutions, \* what they decided
    record,              \* record[r]: its quarantine and its text
    job,                 \* job[j]: running, failed or at privacy_ready
    worker,              \* worker[j]: what the worker of j remembers
    restarts             \* how often a job was taken up again

registryVars == <<people, privacy_generation>>
reviewVars   == <<privacy_plans, privacy_diagnostics, privacy_resolutions, record>>
vars == <<registryVars, reviewVars, job, worker, restarts>>

Rounds(j) == IF Len(RecordsOf[j]) > 6 THEN Len(RecordsOf[j]) + 2 ELSE 8

ASSUME PrivacyAssumption ==
    /\ MaxGeneration \in Nat \ {0} /\ MaxRestarts \in Nat
    /\ RecordsOf \in [Upload -> Seq(Record) \ {<<>>}]
    /\ \A r \in Record : Text[r] \in Seq(UNION {{Text[r][i] : i \in DOMAIN Text[r]}})
    /\ DOMAIN Registry \subseteq Identifier /\ Enrolled \subseteq Identifier
    /\ \A p \in DOMAIN Registry : Registry[p] \in PersonRow
    /\ Association \subseteq PersonRow
    /\ \A n \in Name : Proposed[n] \notin Enrolled

\* Parsing draws new identifiers for the records of an upload.
ASSUME RecordAssumption ==
    \A i, j \in Upload : i # j =>
        {RecordsOf[i][k] : k \in DOMAIN RecordsOf[i]}
            \cap {RecordsOf[j][k] : k \in DOMAIN RecordsOf[j]} = {}

Idle == [phase |-> "idle"]

Init ==
    /\ people = Registry
    /\ privacy_generation = 1
    /\ privacy_plans = [r \in Record |-> None]
    /\ privacy_diagnostics = {}
    /\ privacy_resolutions = {}
    /\ record = [r \in Record |-> [quarantined |-> TRUE, text |-> None]]
    /\ job = [j \in Upload |-> "running"]
    /\ worker = [j \in Upload |-> Idle]
    /\ restarts = 0

Of(r) == {x \in privacy_resolutions : x.record = r}

---------------------------------------------------------------------------
(* The worker of an upload. *)

Saved(r) ==
    IF privacy_plans[r] = None THEN None
    ELSE [entities |-> privacy_plans[r].entities, edits |-> privacy_plans[r].edits,
          revision |-> privacy_plans[r].revision]

\* read_private: the saved plans and the resolutions of all records at once.  Whom the
\* registry held then is remembered for the properties only (began).
ReadPrivate(j) ==
    /\ job[j] = "running"
    /\ worker[j] = Idle
    /\ worker' = [worker EXCEPT ![j] =
           [phase |-> "look", round |-> 0, at |-> 1, created |-> FALSE,
            saved |-> [i \in DOMAIN RecordsOf[j] |-> Saved(RecordsOf[j][i])],
            resolutions |-> [i \in DOMAIN RecordsOf[j] |-> Of(RecordsOf[j][i])],
            plans |-> <<>>, people |-> <<>>, revision |-> 0, began |-> DOMAIN people]]
    /\ UNCHANGED <<registryVars, reviewVars, job, restarts>>

\* The registry a record is planned with.
Look(j) ==
    /\ worker[j].phase = "look"
    /\ worker' = [worker EXCEPT ![j].phase = "plan", ![j].people = people,
                                ![j].revision = privacy_generation]
    /\ UNCHANGED <<registryVars, reviewVars, job, restarts>>

Reusable(saved, w) ==
    /\ saved # None
    /\ saved.revision = w.revision
    /\ \A e \in saved.entities : e.hint \in Identifier => e.hint \in DOMAIN w.people

\* What the agent may return, the first time and in the rounds after it.
Passes(w, text) ==
    LET new == {[entities |-> p.entities, edits |-> p.edits, revision |-> w.revision] :
                   p \in Plans(text, w.people, w.resolutions[w.at])}
    IN  IF w.round > 0 THEN {Merged(w.plans[w.at], p) : p \in new}
        ELSE IF Reusable(w.saved[w.at], w)
             THEN {w.saved[w.at]} ELSE new

\* Mutant of Closed: what a first pass found may be all.
ClosedAtOnce(w) == ~w.created

\* The closure ends with the first full round that registers nobody.
Closed(w) == w.round > 0 /\ ~w.created

\* Where the worker goes from a record: on, into another round, or to persist.
Onward(j, v) ==
    LET w == [v EXCEPT !.people = <<>>, !.revision = 0]
    IN  IF w.at < Len(RecordsOf[j]) THEN [w EXCEPT !.phase = "look", !.at = @ + 1]
        ELSE IF Closed(w)
             THEN [phase |-> "persist", plans |-> w.plans, began |-> w.began]
        ELSE [w EXCEPT !.phase = "look", !.at = 1, !.round = @ + 1, !.created = FALSE]

\* The agent returns a plan for the record, whose proposals are registered.
PlanRecord(j) ==
    LET w == worker[j]
        text == Text[RecordsOf[j][w.at]]
    IN  /\ w.phase = "plan"
        /\ w.round <= Rounds(j)
        /\ \E pass \in Passes(w, text) :
               LET result == Registered(text, pass, people)
                   plans == IF w.round = 0 THEN Append(w.plans, result.plan)
                            ELSE [w.plans EXCEPT ![w.at] = result.plan]
               IN  /\ people' = result.people
                   /\ worker' = [worker EXCEPT ![j] =
                          Onward(j, [w EXCEPT !.plans = plans,
                                              !.created = @ \/ result.created])]
        /\ UNCHANGED <<privacy_generation, reviewVars, job, restarts>>

\* persist, first loop: the proposals of all records in the order in which they are read,
\* and those of them that become people.  An alias of somebody does not, be it of somebody
\* whom an earlier proposal has just registered.
Proposals(j, plans) ==
    UNION {{[at |-> i, start |-> e.start, end |-> e.end, hint |-> e.hint,
             words |-> Words(Text[RecordsOf[j][i]], e)] :
                e \in {f \in plans[i].entities : IsProposal(f)}} : i \in DOMAIN plans}

Before(p, q) ==
    \/ p.at < q.at
    \/ p.at = q.at /\ p.start < q.start
    \/ p.at = q.at /\ p.start = q.start /\ p.end < q.end

Admits(found, proposals) ==
    \A p \in proposals :
        p \in found <=>
            /\ CalledBy(people, p.words) = {}
            /\ \A q \in found : Before(q, p) =>
                   /\ q.hint # p.hint
                   /\ q.words = p.words => Proposed[q.hint] \in DOMAIN people

\* persist, second loop: what still needs an administrator.
Approved(r, e) ==
    \E x \in privacy_resolutions :
        x.record = r /\ RangeOf(x) = RangeOf(e) /\ x.decision = e.hint
Uncertain(r, e, registry) ==
    LET words == Words(Text[r], e)
        exact == CalledBy(registry, words)
        matches == IF exact # {} THEN exact ELSE FirstNamedBy(registry, words)
    IN  /\ e.kind = "person"
        /\ \/ e.hint \notin DOMAIN registry
           \/ matches # {} /\ e.hint \notin matches
           \/ Cardinality(matches) > 1 /\ ~Approved(r, e)

Diagnostics(r, plan) ==
    IF ~plan.unresolved THEN {}
    ELSE {[record |-> r, start |-> e.start, end |-> e.end, kind |-> e.kind, state |-> "open"] :
             e \in plan.entities}

\* The plan that is saved for a record, once those found are registered.
Final(j, r, found) ==
    LET w == worker[j]
        plan == w.plans[CHOOSE i \in DOMAIN w.plans : RecordsOf[j][i] = r]
        entity(e) == IF IsProposal(e) /\ e.hint \in {f.hint : f \in found}
                     THEN [e EXCEPT !.hint = Proposed[e.hint]] ELSE e
        entities == {entity(e) : e \in plan.entities}
    IN  [entities |-> entities, edits |-> plan.edits, revision |-> plan.revision,
         began |-> w.began,
         unresolved |-> \E e \in entities : Uncertain(r, e, WithPeople(people, found))]

Persist(j) ==
    LET w == worker[j]
        mine == {RecordsOf[j][i] : i \in DOMAIN RecordsOf[j]}
    IN  /\ w.phase = "persist"
        /\ \E found \in SUBSET Proposals(j, w.plans) :
               LET plan == [r \in mine |-> Final(j, r, found)]
               IN  /\ Admits(found, Proposals(j, w.plans))
                   /\ people' = WithPeople(people, found)
                   /\ privacy_plans' =
                          [r \in Record |-> IF r \in mine THEN plan[r] ELSE privacy_plans[r]]
                   /\ privacy_diagnostics' =
                          {d \in privacy_diagnostics : d.record \notin mine \/ d.state = "resolved"}
                              \cup UNION {Diagnostics(r, plan[r]) : r \in mine}
        /\ worker' = [worker EXCEPT ![j] = [phase |-> "apply"]]
        /\ UNCHANGED <<privacy_generation, privacy_resolutions, record, job, restarts>>

\* The stage "parsed" of apply: all records of the upload, or none.
Applies(r) ==
    /\ privacy_plans[r] # None
    /\ Applicable(privacy_plans[r].edits)
    /\ Clean(Text[r], privacy_plans[r], Of(r), people)

Apply(j) ==
    LET mine == {RecordsOf[j][i] : i \in DOMAIN RecordsOf[j]}
    IN  /\ worker[j].phase = "apply"
        /\ \A r \in mine : Applies(r)
        /\ record' = [r \in Record |->
               IF r \in mine
               THEN [quarantined |-> privacy_plans[r].unresolved,
                     text |-> Sanitized(Text[r], privacy_plans[r], people)]
               ELSE record[r]]
        /\ job' = [job EXCEPT ![j] =
               IF \E r \in mine : privacy_plans[r].unresolved THEN "failed" ELSE "privacy_ready"]
        /\ worker' = [worker EXCEPT ![j] = Idle]
        /\ UNCHANGED <<registryVars, privacy_plans, privacy_diagnostics, privacy_resolutions, restarts>>

\* Anything that raises: the model or the detector, a plan that stays invalid, too many
\* rounds, or a saved plan that is gone or cannot be applied.
Raise(j) ==
    /\ \/ worker[j].phase = "plan"
       \/ worker[j].phase = "apply" /\ \E i \in DOMAIN RecordsOf[j] : ~Applies(RecordsOf[j][i])
    /\ job' = [job EXCEPT ![j] = "failed"]
    /\ worker' = [worker EXCEPT ![j] = Idle]
    /\ UNCHANGED <<registryVars, reviewVars, restarts>>

\* The worker dies; the next one claims the job.
Crash(j) ==
    /\ worker[j] # Idle
    /\ restarts < MaxRestarts
    /\ worker' = [worker EXCEPT ![j] = Idle]
    /\ restarts' = restarts + 1
    /\ UNCHANGED <<registryVars, reviewVars, job>>

---------------------------------------------------------------------------
(* Administrators. *)

RetryJob(j) ==
    /\ job[j] = "failed"
    /\ restarts < MaxRestarts
    /\ restarts' = restarts + 1
    /\ job' = [job EXCEPT ![j] = "running"]
    /\ UNCHANGED <<registryVars, reviewVars, worker>>

\* Mutant of Disturbed: the records are quarantined, their plans stay.
OnlyQuarantined(S) ==
    /\ privacy_generation < MaxGeneration
    /\ privacy_generation' = privacy_generation + 1
    /\ UNCHANGED privacy_plans
    /\ record' = [r \in Record |->
           IF r \in S THEN [record[r] EXCEPT !.quarantined = TRUE] ELSE record[r]]

\* The plans of the records S are dropped and the records await another review.
Disturbed(S) ==
    /\ privacy_generation < MaxGeneration
    /\ privacy_generation' = privacy_generation + 1
    /\ privacy_plans' = [r \in Record |-> IF r \in S THEN None ELSE privacy_plans[r]]
    /\ record' = [r \in Record |->
           IF r \in S THEN [record[r] EXCEPT !.quarantined = TRUE] ELSE record[r]]

\* associate_person: a new person disturbs nothing, a changed one everything.
AssociatePerson(p, row) ==
    /\ \A q \in DOMAIN people \ {p} : row.contacts \cap people[q].contacts = {}
    /\ people' = [q \in DOMAIN people \cup {p} |-> IF q = p THEN row ELSE people[q]]
    /\ IF p \in DOMAIN people
       THEN Disturbed(Record)
       ELSE UNCHANGED <<privacy_generation, privacy_plans, record>>
    /\ UNCHANGED <<privacy_diagnostics, privacy_resolutions, job, worker, restarts>>

\* The decisions resolve_privacy_diagnostic accepts for a kind.
Offered(kind) ==
    CASE kind = "person" -> DOMAIN people \cup {"organization", "role"}
      [] kind = "contact" -> {"contact"}
      [] OTHER -> {"system_code", "personal_identifier"}

ResolveDiagnostic(d, decision) ==
    /\ d \in privacy_diagnostics
    /\ d.state = "open"
    /\ decision \in Offered(d.kind)
    /\ privacy_resolutions' = privacy_resolutions \cup
           {[record |-> d.record, start |-> d.start, end |-> d.end, decision |-> decision]}
    /\ privacy_diagnostics' =
           (privacy_diagnostics \ {d}) \cup {[d EXCEPT !.state = "resolved"]}
    /\ Disturbed({d.record})
    /\ UNCHANGED <<people, job, worker, restarts>>

Work(j) == ReadPrivate(j) \/ Look(j) \/ PlanRecord(j) \/ Persist(j) \/ Apply(j) \/ Raise(j)

Next ==
    \/ \E j \in Upload : Work(j) \/ Crash(j) \/ RetryJob(j)
    \/ \E p \in Enrolled \cup DOMAIN people, row \in Association : AssociatePerson(p, row)
    \/ \E d \in privacy_diagnostics : \E decision \in Offered(d.kind) :
           ResolveDiagnostic(d, decision)

Spec == Init /\ [][Next]_vars

---------------------------------------------------------------------------
(* Properties *)

EntityType == [start : Nat, end : Nat, kind : {"person", "contact", "personal_identifier"},
               hint : Hint]
RangeType  == [start : Nat, end : Nat]
DiagnosticRow ==
    [record : Record, start : Nat, end : Nat,
     kind : {"person", "contact", "personal_identifier"}, state : {"open", "resolved"}]
PlanRow(plan) == plan.entities \subseteq EntityType /\ plan.edits \subseteq RangeType

\* Every variable keeps to the values the code gives it.
PrivacyTypeOK ==
    /\ DOMAIN people \subseteq Identifier
    /\ \A p \in DOMAIN people : people[p] \in PersonRow
    /\ privacy_generation \in 1..MaxGeneration
    /\ \A r \in Record : privacy_plans[r] # None =>
           /\ PlanRow(privacy_plans[r])
           /\ privacy_plans[r].revision \in 1..privacy_generation
    /\ privacy_diagnostics \subseteq DiagnosticRow
    /\ job \in [Upload -> {"running", "failed", "privacy_ready"}]
    /\ \A j \in Upload :
           /\ worker[j].phase \in {"idle", "look", "plan", "persist", "apply"}
           /\ worker[j].phase \in {"look", "plan", "persist"} =>
                  \A i \in DOMAIN worker[j].plans : PlanRow(worker[j].plans[i])
    /\ restarts \in 0..MaxRestarts

\* Workers share the registry with each other and with administrators: no step of a worker
\* gives a name to a second person, whatever happened since the worker last read it
\* (_proposed_person_id asks for the aliases again in every transaction).
RegistryNeverDuplicates ==
    [][(\E j \in Upload : worker'[j] # worker[j]) =>
          \A p \in DOMAIN people' \ DOMAIN people : CalledBy(people', people'[p].display_name) = {p}]_vars

\* Whoever the registry held when the last review of an upload began is hidden in the records
\* it released, under the name the registry has now, whatever the mapper made of it, however
\* often the review was interrupted and whoever else registered people meanwhile: a saved
\* plan is planned again, and persist keeps what either pass found.  Only a name inside of
\* what an administrator decided to be a system code is left.
Released(r) == ~record[r].quarantined
Coded(r, name) ==
    \E x \in Of(r), q \in Matches(Text[r], {name}) : x.decision = "system_code" /\ Covers(x, q)
HiddenIn(r, text, plan) ==
    plan.revision = privacy_generation =>
        \A p \in plan.began :
            /\ CalledBy(people, people[p].display_name) = {p}
            /\ ~Coded(r, people[p].display_name)
            => Matches(text, {people[p].display_name}) = {}
KnownNamesHidden ==
    \A j \in Upload : job[j] = "privacy_ready" =>
        \A i \in DOMAIN RecordsOf[j] :
            LET r == RecordsOf[j][i]
            IN  Released(r) => HiddenIn(r, record[r].text, privacy_plans[r])

\* Where a saved plan is unresolved, an administrator is asked about its record: a job that
\* fails on it can be got going again.
UnresolvedExplained ==
    \A r \in Record :
        privacy_plans[r] # None /\ privacy_plans[r].unresolved =>
            \E d \in privacy_diagnostics : d.record = r /\ d.state = "open"

\* What is not planned (questions, messages, file names) leaves normalize without an alias of
\* anybody, and bound only to people that no other of the same name can be meant instead of:
\* "never guesses between same-name people", after every renaming and registration.
NormalizeNeverGuesses ==
    \A r \in Record :
        LET n == Normalize(Text[r], people)
        IN  /\ \A p \in DOMAIN people : Matches(n.text, Aliases(people[p])) = {}
            /\ \A p \in n.person_ids :
                   \E w \in Aliases(people[p]) :
                       /\ Matches(Text[r], {w}) # {}
                       /\ CalledBy(people, w) = {p}
                              \/ {q \in CalledBy(people, w) :
                                     Matches(Text[r], people[q].contacts) # {}} = {p}

\* What is saved can be applied: no two edits of a plan overlap.  Each pass is checked for
\* it (overlapping_edits), the union of two passes is not.
SavedPlansApplicable ==
    \A r \in Record : privacy_plans[r] # None => Applicable(privacy_plans[r].edits)
=============================================================================
