---------------------------- MODULE KnowledgeProofs ----------------------------
(***************************************************************************)
(* The safety properties of Knowledge, for any records, any of them naming *)
(* the person, and any number of generations.  The argument is that a job  *)
(* which can still publish has been overtaken by no cleanup, and that what *)
(* it holds was readable in the snapshot it is compared with.              *)
(***************************************************************************)
EXTENDS Knowledge, TLAPS

-----------------------------------------------------------------------------
(* Types. *)

Id == [from : {"record", "proposal"}, of : Record, n : Nat]

Event == [id : Id, prior : Id \cup {NoEvent}, evidence : SUBSET RefSet,
          review : {"pending", "passed", "failed"},
          human : {"not_required", "pending", "approved", "rejected"}]

Batch == [deps : SUBSET RefSet, proposed : SUBSET Event]

Candidate == [context : Nat, saw : SUBSET RefSet]

Steps == {"pending", "planned", "reading", "drafted", "staged", "released",
          "completed", "superseded"}

JobRow == [refs : SUBSET RefSet, step : Steps, context : Nat,
           batch : Batch \cup {NoBatch}, staged : Candidate \cup {NoOverview}]

RecordRow == [state : {"absent", "live", "deleted", "gone"}, version : 1 .. 2,
              active : BOOLEAN, published : BOOLEAN, quarantined : BOOLEAN]

Typed ==
    /\ record \in [Record -> RecordRow]
    /\ command \in [Record -> {"none", "ingest", "activate", "deactivate", "delete"}]
    /\ cleanup \in [kind : {"none", "erase", "delete"}, of : SUBSET Record,
                    stage : {"none", "draining", "rebuilding"}]
    /\ generation \in Nat /\ generation <= MaxGeneration
    /\ topic \in SUBSET RefSet
    /\ overview # NoOverview => overview \in Candidate
    /\ history \in SUBSET Event
    /\ jobs \in [DOMAIN jobs -> JobRow]
    /\ \A s \in DOMAIN jobs : s \in Nat /\ s <= generation /\ jobs[s].context <= generation

-----------------------------------------------------------------------------
(* The rows of records and their commands. *)

Rows ==
    /\ Unbarred <=> cleanup.stage = "none"
    /\ \A r \in Record : record[r].state = "absent" => ~record[r].published
    /\ \A r \in Record : command[r] # "none" =>
          \/ record[r].state = "live"
          \/ cleanup.kind = "delete" /\ cleanup.stage = "draining" /\ r \in cleanup.of
    /\ cleanup.stage = "rebuilding" => \A r \in cleanup.of : command[r] = "none"
    /\ cleanup.kind = "erase" =>
          /\ \A r \in cleanup.of : record[r].state = "live"
          /\ cleanup.stage = "draining" => \A r \in Record : record[r].version = 1

-----------------------------------------------------------------------------
(* The history. *)

(* How an event looks when it is drafted, and after a decision.              *)
Drafted(e) ==
    /\ e.id.from = "proposal"
    /\ e.prior \in Id
    /\ \/ e.review = "pending" /\ e.human = "pending"
       \/ e.review = "failed" /\ e.human = "not_required"

Wellformed(e) ==
    IF e.id.from = "record"
    THEN e.id.n <= generation /\ e.review = "passed" /\ e.human = "not_required"
    ELSE /\ e.prior \in Id
         /\ (e.review = "passed" <=> e.human = "approved")
         /\ (e.review = "pending" <=> e.human = "pending")
         /\ e.human = "approved" => Shown(e) \in approved

UniqueIds(events) == \A e, f \in events : e.id = f.id => e = f

Rests(e) == \A ref \in e.evidence : ~Erased(ref)

(* The prior of a proposal, if it is the event of a record, rests on nothing *)
(* the proposal does not rest on.                                            *)
PriorKept(e) ==
    e.prior.from = "record" =>
        \E p \in history : p.id = e.prior /\ p.evidence \subseteq e.evidence

History ==
    /\ UniqueIds(history)
    /\ \A e \in history : /\ Wellformed(e)
                          /\ Rests(e)
                          /\ Consequential(e) => PriorKept(e)
    /\ \A ref \in topic : ~Erased(ref)

-----------------------------------------------------------------------------
(* Aggregate jobs. *)

Live(s) == jobs[s].step \notin {"completed", "superseded"}

Read(s) == jobs[s].step \in {"drafted", "staged", "released"}

Holding(s) == Read(s) \/ (Live(s) /\ jobs[s].batch # NoBatch)

AllReadable(refs) == \A ref \in refs : Readable(ref)

Planned(s) ==
    /\ jobs[s].refs # {}
    /\ \A ref \in jobs[s].refs :
          record[ref.record].state = "live" /\ command[ref.record] = "none"

(* What a job that may still publish has drafted.                            *)
Kept(s) ==
    /\ jobs[s].batch \in Batch
    /\ UniqueIds(jobs[s].batch.proposed)
    /\ \A e \in jobs[s].batch.proposed : Drafted(e) /\ Rests(e) /\ PriorKept(e)
    /\ AllReadable(jobs[s].refs) =>
          \A e \in jobs[s].batch.proposed : AllReadable(e.evidence)

UpToDate(s) ==
    /\ jobs[s].context = generation => AllReadable(jobs[s].refs)
    /\ jobs[s].step = "released" =>
          /\ jobs[s].staged \in Candidate
          /\ jobs[s].staged.context = jobs[s].context
          /\ jobs[s].context = generation => jobs[s].staged.saw = ReadableRefs

JobInv(s) ==
    /\ Live(s) => Unbarred /\ Planned(s)
    /\ Holding(s) => Kept(s)
    /\ Read(s) => UpToDate(s)

AllJobs == \A s \in DOMAIN jobs : JobInv(s)

(* The inductive invariant. *)
KnowledgeInv == Typed /\ Rows /\ History /\ AllJobs /\ OverviewCurrent

-----------------------------------------------------------------------------
(* The types. *)

\* References of typed records are typed.
LEMMA RefTyped ==
    ASSUME Typed, NEW r \in Record
    PROVE  Ref(r) \in RefSet
BY DEF Typed, RecordRow, Ref, RefSet

\* A rebuild plan is a new job or none; those there are stay as they are.
LEMMA PlanTyped ==
    ASSUME Typed, NEW rs \in SUBSET Record, NEW rows \in [Record -> RecordRow],
           PlanFor(rs, rows)
    PROVE  /\ DOMAIN jobs \subseteq DOMAIN jobs'
           /\ DOMAIN jobs' \subseteq DOMAIN jobs \cup {generation + 1}
           /\ \A s \in DOMAIN jobs : jobs'[s] = jobs[s]
           /\ jobs' \in [DOMAIN jobs' -> JobRow]
           /\ generation + 1 \in DOMAIN jobs' =>
                /\ jobs'[generation + 1].step = "pending"
                /\ jobs'[generation + 1].context = 0
                /\ jobs'[generation + 1].batch = NoBatch
                /\ jobs'[generation + 1].refs # {}
                /\ jobs'[generation + 1].refs =
                     {[record |-> r, version |-> rows[r].version] :
                        r \in {q \in rs : Eligible(rows[q])}}
<1> DEFINE refs == {[record |-> r, version |-> rows[r].version] :
                      r \in {q \in rs : Eligible(rows[q])}}
           plan == [refs |-> refs, step |-> "pending", context |-> 0,
                    batch |-> NoBatch, staged |-> NoOverview]
<1>1. refs \in SUBSET RefSet
      BY DEF RefSet, RecordRow
<1>2. plan \in JobRow
      BY <1>1 DEF JobRow, Steps
<1>3. generation + 1 \notin DOMAIN jobs
      BY DEF Typed
<1>4. CASE refs = {}
      BY <1>3, <1>4 DEF PlanFor, Typed
<1>5. CASE refs # {}
  <2>1. jobs' = [s \in DOMAIN jobs \cup {generation + 1} |->
                   IF s \in DOMAIN jobs THEN jobs[s] ELSE plan]
        BY <1>5 DEF PlanFor
  <2> HIDE DEF refs, plan
  <2>2. DOMAIN jobs' = DOMAIN jobs \cup {generation + 1}
        BY <2>1
  <2>3. \A s \in DOMAIN jobs : jobs'[s] = jobs[s] /\ jobs[s] \in JobRow
        BY <2>1 DEF Typed
  <2>4. jobs'[generation + 1] = plan
        BY <2>1, <1>3
  <2>5. jobs' \in [DOMAIN jobs' -> JobRow]
        BY <2>1, <2>2, <2>3, <2>4, <1>2
  <2> QED BY <2>2, <2>3, <2>4, <2>5, <1>5 DEF plan, refs
<1> QED BY <1>4, <1>5

\* A lifecycle command ends every job that was not completed.
LEMMA SupersedeTyped ==
    ASSUME Typed, Supersede
    PROVE  /\ DOMAIN jobs' = DOMAIN jobs
           /\ jobs' \in [DOMAIN jobs' -> JobRow]
           /\ \A s \in DOMAIN jobs : /\ jobs'[s].step \in {"completed", "superseded"}
                                     /\ jobs'[s].context \in {jobs[s].context, 0}
<1>1. \A s \in DOMAIN jobs : jobs[s] \in JobRow
      BY DEF Typed
<1>2. DOMAIN jobs' = DOMAIN jobs
      BY DEF Supersede
<1>3. ASSUME NEW s \in DOMAIN jobs
      PROVE  /\ jobs'[s] \in JobRow
             /\ jobs'[s].step \in {"completed", "superseded"}
             /\ jobs'[s].context \in {jobs[s].context, 0}
      BY <1>1, <1>3 DEF Supersede, JobRow, Steps
<1> QED BY <1>2, <1>3 DEF Supersede

\* What a step that only goes on with one job does to the rows of jobs.
JobMoved(s) ==
    /\ jobs' \in [DOMAIN jobs -> JobRow]
    /\ \A t \in DOMAIN jobs \ {s} : jobs'[t] = jobs[t]
    /\ jobs'[s].refs = jobs[s].refs
    /\ jobs'[s].context \in {jobs[s].context, generation, 0}

\* What may be proposed are events.
LEMMA ProposalsTyped ==
    ASSUME Typed, NEW s \in DOMAIN jobs
    PROVE  Proposals(s) \subseteq SUBSET Event
<1>1. jobs[s].refs \subseteq RefSet
      BY DEF Typed, JobRow
<1>2. ASSUME NEW ref \in jobs[s].refs, NEW prior \in Candidates, NEW passed \in BOOLEAN
      PROVE  Proposal(ref, prior, passed) \in Event
  <2>1. ref \in RefSet /\ prior \in Event
        BY <1>1 DEF Candidates, Typed
  <2> QED BY <2>1 DEF Proposal, Event, Id, RefSet
<1> QED BY <1>2 DEF Proposals

LEMMA AggregateTyped ==
    ASSUME Typed, AllJobs, NEW s \in DOMAIN jobs,
           \/ Begin(s) \/ TakeContext(s) \/ Resume(s) \/ Draft(s) \/ Stage(s)
           \/ Release(s) \/ Publish(s) \/ Abandon(s)
    PROVE  JobMoved(s)
<1>1. jobs[s] \in JobRow /\ jobs \in [DOMAIN jobs -> JobRow]
      BY DEF Typed
<1>2. ASSUME NEW row \in JobRow, jobs' = [jobs EXCEPT ![s] = row],
             row.refs = jobs[s].refs, row.context \in {jobs[s].context, generation, 0}
      PROVE  JobMoved(s)
      BY <1>1, <1>2 DEF JobMoved
<1>3. CASE Begin(s)
  <2> DEFINE row == [jobs[s] EXCEPT !.step = "planned"]
  <2>1. row \in JobRow /\ row.refs = jobs[s].refs /\ row.context = jobs[s].context
        BY <1>1 DEF JobRow, Steps
  <2> QED BY <1>2, <1>3, <2>1 DEF Begin, Step
<1>4. CASE TakeContext(s)
  <2> DEFINE row == [jobs[s] EXCEPT !.context = generation, !.step = "reading"]
  <2>1. row \in JobRow /\ row.refs = jobs[s].refs /\ row.context = generation
        BY <1>1 DEF JobRow, Steps, Typed
  <2> QED BY <1>2, <1>4, <2>1 DEF TakeContext
<1>5. CASE Resume(s)
  <2> DEFINE row == [jobs[s] EXCEPT !.step = "staged"]
  <2>1. row \in JobRow /\ row.refs = jobs[s].refs /\ row.context = jobs[s].context
        BY <1>1 DEF JobRow, Steps
  <2> QED BY <1>2, <1>5, <2>1 DEF Resume
<1>6. CASE Draft(s)
  <2>1. PICK proposed \in Proposals(s) :
           jobs' = [jobs EXCEPT
                      ![s].step = "drafted",
                      ![s].batch = [deps |-> jobs[s].refs, proposed |-> proposed]]
        BY <1>6 DEF Draft
  <2> DEFINE batch == [deps |-> jobs[s].refs, proposed |-> proposed]
             row == [jobs[s] EXCEPT !.step = "drafted", !.batch = batch]
  <2>2. batch \in Batch
        BY <1>1, ProposalsTyped DEF Batch, JobRow
  <2> HIDE DEF batch
  <2>3. row \in JobRow /\ row.refs = jobs[s].refs /\ row.context = jobs[s].context
        BY <1>1, <2>2 DEF JobRow, Steps
  <2> QED BY <1>2, <2>1, <2>3 DEF batch
<1>7. CASE Stage(s)
  <2> DEFINE row == [jobs[s] EXCEPT !.step = "staged"]
  <2>1. row \in JobRow /\ row.refs = jobs[s].refs /\ row.context = jobs[s].context
        BY <1>1 DEF JobRow, Steps
  <2> QED BY <1>2, <1>7, <2>1 DEF Stage, Step
<1>8. CASE Release(s)
  <2> DEFINE staged == [context |-> jobs[s].context, saw |-> ReadableRefs]
             row == [jobs[s] EXCEPT !.step = "released", !.staged = staged]
  <2>1. staged \in Candidate
        BY <1>1, RefTyped DEF Candidate, JobRow, ReadableRefs
  <2> HIDE DEF staged
  <2>2. row \in JobRow /\ row.refs = jobs[s].refs /\ row.context = jobs[s].context
        BY <1>1, <2>1 DEF JobRow, Steps
  <2> QED BY <1>2, <1>8, <2>2 DEF Release, staged
<1>9. CASE Publish(s)
  <2> DEFINE row == [jobs[s] EXCEPT !.step = "completed", !.context = 0, !.staged = NoOverview]
  <2>1. row \in JobRow /\ row.refs = jobs[s].refs /\ row.context = 0
        BY <1>1 DEF JobRow, Steps
  <2> QED BY <1>2, <1>9, <2>1 DEF Publish
<1>10. CASE Abandon(s)
  <2> DEFINE row == [jobs[s] EXCEPT !.step = "pending", !.context = 0,
                        !.batch = IF jobs[s].step = "drafted" THEN NoBatch ELSE @]
  <2>1. row \in JobRow /\ row.refs = jobs[s].refs /\ row.context = 0
        BY <1>1 DEF JobRow, Steps
  <2> QED BY <1>2, <1>10, <2>1 DEF Abandon
<1> QED BY <1>3, <1>4, <1>5, <1>6, <1>7, <1>8, <1>9, <1>10

\* The event process_record proposes of a record is an event.
LEMMA BaseTyped ==
    ASSUME NEW r \in Record, NEW version \in 1 .. 2, NEW n \in Nat
    PROVE  BaseEvent(r, version, n) \in Event
BY DEF BaseEvent, Event, Id, RefSet

\* So is a proposal that was decided.
LEMMA DecidedTyped ==
    ASSUME NEW e \in Event, NEW approve \in BOOLEAN
    PROVE  /\ Decided(e, approve) \in Event
           /\ Decided(e, approve).id = e.id
           /\ Decided(e, approve).prior = e.prior
           /\ Decided(e, approve).evidence = e.evidence
           /\ Decided(e, approve).human = IF approve THEN "approved" ELSE "rejected"
           /\ Decided(e, approve).review = IF approve THEN "passed" ELSE "failed"
BY DEF Decided, Event

CommandRow == {"none", "ingest", "activate", "deactivate", "delete"}

CleanupRow == [kind : {"none", "erase", "delete"}, of : SUBSET Record,
               stage : {"none", "draining", "rebuilding"}]

\* The parts of Typed that a step changes one at a time.
EvidenceTyped ==
    /\ record \in [Record -> RecordRow]
    /\ command \in [Record -> CommandRow]
    /\ cleanup \in CleanupRow

LEMMA EvidenceStep ==
    ASSUME Typed, Rows, [Next]_vars
    PROVE  EvidenceTyped'
<1> USE DEF EvidenceTyped, CommandRow, CleanupRow
<1>0. EvidenceTyped
      BY DEF Typed
<1>1. CASE UNCHANGED <<record, command, cleanup>>
      BY <1>0, <1>1
<1>2. ASSUME NEW r \in Record, Upload(r) PROVE EvidenceTyped'
  <2>1. record' \in [Record -> RecordRow]
        BY <1>0, <1>2 DEF Upload, RecordRow
  <2> QED BY <1>0, <1>2, <2>1 DEF Upload
<1>3. ASSUME NEW r \in Record, Activate(r) \/ Deactivate(r) \/ Delete(r) PROVE EvidenceTyped'
  <2>1. record[r] \in RecordRow
        BY <1>0
  <2>3. \E row \in RecordRow : record' = [record EXCEPT ![r] = row]
    <3>1. CASE Activate(r)
      <4> DEFINE row == [record[r] EXCEPT !.active = TRUE, !.published = FALSE]
      <4>1. row \in RecordRow
            BY <2>1 DEF RecordRow
      <4>2. record' = [record EXCEPT ![r] = row]
            BY <3>1 DEF Activate
      <4> QED BY <4>1, <4>2
    <3>2. CASE Deactivate(r)
      <4> DEFINE row == [record[r] EXCEPT !.active = FALSE]
      <4>1. row \in RecordRow
            BY <2>1 DEF RecordRow
      <4>2. record' = [record EXCEPT ![r] = row]
            BY <3>2 DEF Deactivate
      <4> QED BY <4>1, <4>2
    <3>3. CASE Delete(r)
      <4> DEFINE row == [record[r] EXCEPT !.state = "deleted", !.active = FALSE,
                                    !.published = FALSE]
      <4>1. row \in RecordRow
            BY <2>1 DEF RecordRow
      <4>2. record' = [record EXCEPT ![r] = row]
            BY <3>3 DEF Delete
      <4> QED BY <4>1, <4>2
    <3> QED BY <1>3, <3>1, <3>2, <3>3
  <2>2. command' \in [Record -> CommandRow] /\ cleanup' \in CleanupRow
        BY <1>0, <1>3 DEF Activate, Deactivate, Delete, Commanded
  <2> QED BY <1>0, <2>2, <2>3
<1>4. ASSUME NEW r \in Record, PublishBase(r) PROVE EvidenceTyped'
  <2>1. record' \in [Record -> RecordRow]
    <3>1. record[r] \in RecordRow
          BY <1>0
    <3>2. [record[r] EXCEPT !.published = TRUE, !.quarantined = FALSE] \in RecordRow
          BY <3>1 DEF RecordRow
    <3> QED BY <1>0, <1>4, <3>2 DEF PublishBase
  <2> QED BY <1>0, <1>4, <2>1 DEF PublishBase
<1>5. CASE Erase
  <2>1. record' \in [Record -> RecordRow]
        BY <1>0, <1>5 DEF Erase, RecordRow
  <2>2. UNCHANGED command /\ cleanup' \in CleanupRow
        BY <1>0, <1>5, KnowledgeAssumption DEF Erase
  <2> QED BY <1>0, <2>1, <2>2
<1>6. CASE Sanitize
  <2>1. ASSUME NEW r \in Record PROVE record'[r] \in RecordRow
    <3>1. record[r] \in RecordRow
          BY <1>0
    <3>2. CASE r \notin cleanup.of
          BY <1>6, <3>1, <3>2 DEF Sanitize
    <3>3. CASE r \in cleanup.of /\ cleanup.kind = "erase"
      <4>1. record[r].version = 1 /\ record'[r] = Sanitized(r)
            BY <1>6, <3>3 DEF Sanitize, Rows
      <4> DEFINE next == [record[r] EXCEPT !.version = 2]
                 row == [next EXCEPT !.published = FALSE, !.quarantined = FALSE]
      <4>2. next \in RecordRow
            BY <3>1 DEF RecordRow
      <4>3. Sanitized(r) = row
            BY <4>1 DEF Sanitized
      <4> HIDE DEF next
      <4>4. row \in RecordRow
            BY <4>2 DEF RecordRow
      <4> QED BY <4>1, <4>3, <4>4
    <3>4. CASE r \in cleanup.of /\ cleanup.kind # "erase"
      <4>1. record'[r] = [record[r] EXCEPT !.state = "gone"]
            BY <1>6, <3>4 DEF Sanitize
      <4> QED BY <3>1, <4>1 DEF RecordRow
    <3> QED BY <3>2, <3>3, <3>4
  <2>2. record' \in [Record -> RecordRow]
        BY <1>6, <2>1 DEF Sanitize
  <2>3. command' \in [Record -> CommandRow] /\ cleanup' \in CleanupRow
        BY <1>0, <1>6 DEF Sanitize
  <2> QED BY <2>2, <2>3
<1>7. CASE FinishErasure
  <2>1. record' \in [Record -> RecordRow]
    <3>1. ASSUME NEW r \in Record PROVE record'[r] \in RecordRow
      <4>1. record[r] \in RecordRow
            BY <1>0
      <4>2. [record[r] EXCEPT !.published = TRUE, !.quarantined = FALSE] \in RecordRow
            BY <4>1 DEF RecordRow
      <4> QED BY <1>7, <4>1, <4>2 DEF FinishErasure
    <3> QED BY <1>7, <3>1 DEF FinishErasure
  <2> QED BY <1>0, <1>7, <2>1 DEF FinishErasure
<1>8. CASE FinishDeletion
      BY <1>0, <1>8 DEF FinishDeletion
<1>9. CASE AssociatePerson
  <2>1. record' \in [Record -> RecordRow]
    <3>1. ASSUME NEW r \in Record PROVE record'[r] \in RecordRow
      <4>1. record[r] \in RecordRow
            BY <1>0
      <4>2. [record[r] EXCEPT !.quarantined = TRUE] \in RecordRow
            BY <4>1 DEF RecordRow
      <4> QED BY <1>9, <4>1, <4>2 DEF AssociatePerson
    <3> QED BY <1>9, <3>1 DEF AssociatePerson
  <2> QED BY <1>0, <1>9, <2>1 DEF AssociatePerson
<1>10. CASE \E s \in DOMAIN jobs : \/ Begin(s) \/ TakeContext(s) \/ Resume(s)
                                   \/ Draft(s) \/ Stage(s) \/ Release(s) \/ Publish(s)
                                   \/ Abandon(s)
  <2>1. UNCHANGED <<record, command, cleanup>>
        BY <1>10 DEF Begin, TakeContext, Resume, Draft, Stage, Release, Publish, Abandon, OnlyJobs
  <2> QED BY <1>1, <2>1
<1>11. CASE Decide
      BY <1>1, <1>11 DEF Decide
<1>12. CASE UNCHANGED vars
      BY <1>1, <1>12 DEF vars
<1> QED BY <1>2, <1>3, <1>4, <1>5, <1>6, <1>7, <1>8, <1>9, <1>10, <1>11, <1>12 DEF Next

\* The corpus generation only grows, and with it the jobs.
JobsTyped ==
    /\ generation \in Nat /\ generation <= MaxGeneration
    /\ jobs \in [DOMAIN jobs -> JobRow]
    /\ \A s \in DOMAIN jobs : s \in Nat /\ s <= generation /\ jobs[s].context <= generation

Aggregate(s) ==
    \/ Begin(s) \/ TakeContext(s) \/ Resume(s) \/ Draft(s) \/ Stage(s) \/ Release(s)
    \/ Publish(s) \/ Abandon(s)

LEMMA JobsStep ==
    ASSUME Typed, AllJobs, [Next]_vars
    PROVE  JobsTyped' /\ generation <= generation'
<1> USE DEF JobsTyped
<1>0. JobsTyped
      BY DEF Typed
<1>1. CASE UNCHANGED <<generation, jobs>>
      BY <1>0, <1>1
<1>2. CASE Invalidate /\ Supersede
  <2>1. generation' \in Nat /\ generation' <= MaxGeneration /\ generation <= generation'
        BY <1>0, <1>2, KnowledgeAssumption DEF Invalidate
  <2>2. /\ DOMAIN jobs' = DOMAIN jobs
        /\ jobs' \in [DOMAIN jobs' -> JobRow]
        /\ \A s \in DOMAIN jobs : jobs'[s].context \in {jobs[s].context, 0}
        BY <1>2, SupersedeTyped
  <2>3. \A s \in DOMAIN jobs : jobs[s].context \in Nat
        BY <1>0 DEF JobRow
  <2> QED BY <1>0, <2>1, <2>2, <2>3
<1>3. CASE Invalidate /\ UNCHANGED jobs
  <2>1. \A s \in DOMAIN jobs : jobs[s].context \in Nat
        BY <1>0 DEF JobRow
  <2> QED BY <1>0, <1>3, <2>1, KnowledgeAssumption DEF Invalidate
<1>4. ASSUME NEW rs \in SUBSET Record, NEW rows \in [Record -> RecordRow],
             Invalidate, PlanFor(rs, rows)
      PROVE  JobsTyped' /\ generation <= generation'
  <2>1. \A s \in DOMAIN jobs : jobs[s].context \in Nat
        BY <1>0 DEF JobRow
  <2>2. generation' = generation + 1 /\ generation' <= MaxGeneration
        BY <1>0, <1>4, KnowledgeAssumption DEF Invalidate
  <2>3. /\ DOMAIN jobs' \subseteq DOMAIN jobs \cup {generation + 1}
        /\ \A s \in DOMAIN jobs : jobs'[s] = jobs[s]
        /\ jobs' \in [DOMAIN jobs' -> JobRow]
        /\ generation + 1 \in DOMAIN jobs' => jobs'[generation + 1].context = 0
        BY <1>4, PlanTyped
  <2> QED BY <1>0, <2>1, <2>2, <2>3
<1>5. ASSUME NEW r \in Record,
             Upload(r) \/ Activate(r) \/ Deactivate(r) \/ Delete(r) \/ PublishBase(r)
      PROVE  JobsTyped' /\ generation <= generation'
  <2>1. CASE Upload(r)
        BY <1>1, <2>1 DEF Upload
  <2>2. CASE Activate(r) \/ Deactivate(r) \/ Delete(r)
        BY <1>2, <2>2 DEF Activate, Deactivate, Delete, Commanded
  <2>3. CASE PublishBase(r)
    <3>1. Invalidate /\ PlanFor({r}, record') /\ record' \in [Record -> RecordRow]
      <4>1. record[r] \in RecordRow
            BY DEF Typed
      <4>2. [record[r] EXCEPT !.published = TRUE, !.quarantined = FALSE] \in RecordRow
            BY <4>1 DEF RecordRow
      <4>3. record' \in [Record -> RecordRow]
            BY <2>3, <4>2 DEF PublishBase, Typed
      <4>4. Invalidate /\ PlanFor({r}, record')
            BY <2>3 DEF PublishBase
      <4> QED BY <4>3, <4>4
    <3> QED BY <1>4, <3>1
  <2> QED BY <1>5, <2>1, <2>2, <2>3
<1>6. CASE Erase
      BY <1>2, <1>6 DEF Erase
<1>7. CASE Sanitize
  <2>1. ASSUME NEW s \in DOMAIN jobs
        PROVE  jobs'[s] \in JobRow /\ jobs'[s].context = jobs[s].context
    <3>1. jobs[s] \in JobRow
          BY <1>0
    <3>2. [jobs[s] EXCEPT !.batch = NoBatch] \in JobRow
          BY <3>1 DEF JobRow
    <3> QED BY <1>7, <3>1, <3>2 DEF Sanitize, JobRow
  <2>2. DOMAIN jobs' = DOMAIN jobs /\ jobs' \in [DOMAIN jobs -> JobRow]
        BY <1>7, <2>1 DEF Sanitize
  <2>3. generation' = generation
        BY <1>7 DEF Sanitize
  <2> QED BY <1>0, <2>1, <2>2, <2>3
<1>8. CASE FinishErasure
  <2>1. ASSUME NEW r \in Record PROVE record'[r] \in RecordRow
    <3>1. record[r] \in RecordRow
          BY DEF Typed
    <3>2. [record[r] EXCEPT !.published = TRUE, !.quarantined = FALSE] \in RecordRow
          BY <3>1 DEF RecordRow
    <3> QED BY <1>8, <3>1, <3>2 DEF FinishErasure
  <2>2. record' \in [Record -> RecordRow]
        BY <1>8, <2>1 DEF FinishErasure
  <2>3. Invalidate /\ PlanFor(cleanup.of, record') /\ cleanup.of \in SUBSET Record
        BY <1>8 DEF FinishErasure, Typed
  <2> QED BY <1>4, <2>2, <2>3
<1>9. CASE FinishDeletion
      BY <1>1, <1>9 DEF FinishDeletion
<1>10. CASE AssociatePerson
       BY <1>3, <1>10 DEF AssociatePerson
<1>11. ASSUME NEW s \in DOMAIN jobs, Aggregate(s)
       PROVE  JobsTyped' /\ generation <= generation'
  <2>1. JobMoved(s)
        BY <1>11, AggregateTyped DEF Aggregate
  <2>2. generation' = generation
        BY <1>11 DEF Aggregate, Begin, TakeContext, Resume, Draft, Stage, Release, Publish,
                     Abandon, OnlyJobs
  <2>3. DOMAIN jobs' = DOMAIN jobs /\ jobs' \in [DOMAIN jobs' -> JobRow]
        BY <2>1 DEF JobMoved
  <2>4. \A t \in DOMAIN jobs : jobs'[t].context \in {jobs[t].context, generation, 0}
        BY <2>1 DEF JobMoved
  <2> QED BY <1>0, <2>2, <2>3, <2>4
<1>12. CASE Decide
       BY <1>3, <1>12 DEF Decide
<1>13. CASE UNCHANGED vars
       BY <1>1, <1>13 DEF vars
<1> QED BY <1>5, <1>6, <1>7, <1>8, <1>9, <1>10, <1>11, <1>12, <1>13 DEF Next, Aggregate

\* What the history, the topic and the overview hold is typed.
ContentTyped ==
    /\ topic \in SUBSET RefSet
    /\ overview # NoOverview => overview \in Candidate
    /\ history \in SUBSET Event

LEMMA ContentStep ==
    ASSUME Typed, AllJobs, [Next]_vars
    PROVE  ContentTyped'
<1> USE DEF ContentTyped
<1>0. ContentTyped
      BY DEF Typed
<1>1. CASE UNCHANGED <<topic, history>> /\ (UNCHANGED overview \/ overview' = NoOverview)
      BY <1>0, <1>1
<1>2. ASSUME NEW r \in Record,
             Upload(r) \/ Activate(r) \/ Deactivate(r) \/ Delete(r)
      PROVE  ContentTyped'
      BY <1>1, <1>2 DEF Upload, Activate, Deactivate, Delete, Commanded, Invalidate
<1>3. ASSUME NEW r \in Record, PublishBase(r) PROVE ContentTyped'
  <2>1. PICK new \in SUBSET {BaseEvent(r, record'[r].version, generation + 1)} :
           history' = history \cup new
        BY <1>3 DEF PublishBase
  <2>2. record[r] \in RecordRow
        BY DEF Typed
  <2>3. record'[r].version = record[r].version
        BY <1>3, <2>2 DEF PublishBase, RecordRow, Typed
  <2>4. BaseEvent(r, record'[r].version, generation + 1) \in Event
        BY <2>2, <2>3, BaseTyped DEF RecordRow, Typed
  <2>5. history' \in SUBSET Event
        BY <1>0, <2>1, <2>4
  <2>6. UNCHANGED topic /\ overview' = NoOverview
        BY <1>3 DEF PublishBase, Invalidate
  <2> QED BY <1>0, <2>5, <2>6
<1>4. CASE Erase
      BY <1>1, <1>4 DEF Erase, Invalidate
<1>5. CASE Sanitize
      BY <1>0, <1>5 DEF Sanitize
<1>6. CASE FinishErasure
  <2>1. PICK new \in SUBSET {BaseEvent(r, record'[r].version, generation + 1) :
                               r \in cleanup.of} :
           history' = history \cup new
        BY <1>6 DEF FinishErasure
  <2>2. ASSUME NEW r \in cleanup.of
        PROVE  BaseEvent(r, record'[r].version, generation + 1) \in Event
    <3>1. r \in Record /\ record[r] \in RecordRow
          BY DEF Typed
    <3>2. record'[r].version = record[r].version
          BY <1>6, <3>1 DEF FinishErasure, RecordRow
    <3> QED BY <3>1, <3>2, BaseTyped DEF RecordRow, Typed
  <2>3. history' \in SUBSET Event
        BY <1>0, <2>1, <2>2
  <2>4. UNCHANGED topic /\ overview' = NoOverview
        BY <1>6 DEF FinishErasure, Invalidate
  <2> QED BY <1>0, <2>3, <2>4
<1>7. CASE FinishDeletion
      BY <1>1, <1>7 DEF FinishDeletion
<1>8. CASE AssociatePerson
      BY <1>1, <1>8 DEF AssociatePerson, Invalidate
<1>9. ASSUME NEW s \in DOMAIN jobs, Aggregate(s) PROVE ContentTyped'
  <2>1. CASE Publish(s)
    <3>1. jobs[s].batch \in Batch /\ jobs[s].staged \in Candidate
          BY <2>1 DEF AllJobs, JobInv, Holding, Read, Kept, UpToDate, Publish
    <3>2. Merged(jobs[s].batch.proposed) \in SUBSET Event
          BY <1>0, <3>1 DEF Merged, Batch
    <3>3. jobs[s].batch.deps \in SUBSET RefSet
          BY <3>1 DEF Batch
    <3> QED BY <2>1, <3>1, <3>2, <3>3 DEF Publish
  <2>2. CASE ~Publish(s)
        BY <1>1, <1>9, <2>2 DEF Aggregate, Begin, TakeContext, Resume, Draft, Stage, Release,
                                Abandon, OnlyJobs
  <2> QED BY <2>1, <2>2
<1>10. CASE Decide
  <2>1. PICK e \in history, approve \in BOOLEAN : history' = Merged({Decided(e, approve)})
        BY <1>10 DEF Decide
  <2>2. Decided(e, approve) \in Event
        BY <1>0, DecidedTyped
  <2>3. history' \in SUBSET Event
        BY <1>0, <2>1, <2>2 DEF Merged
  <2>4. UNCHANGED topic /\ overview' = NoOverview
        BY <1>10 DEF Decide, Invalidate
  <2> QED BY <1>0, <2>3, <2>4
<1>11. CASE UNCHANGED vars
       BY <1>1, <1>11 DEF vars
<1> QED BY <1>2, <1>3, <1>4, <1>5, <1>6, <1>7, <1>8, <1>9, <1>10, <1>11 DEF Next, Aggregate

LEMMA TypedStep ==
    ASSUME Typed, Rows, AllJobs, [Next]_vars
    PROVE  Typed'
BY EvidenceStep, JobsStep, ContentStep
   DEF Typed, EvidenceTyped, JobsTyped, ContentTyped, CommandRow, CleanupRow

-----------------------------------------------------------------------------
(* The rows. *)

\* What an action leaves of a row: its state and version, and whether it is
\* active, published and quarantined.
Keeps(q, fields) ==
    /\ "state" \in fields => record'[q].state = record[q].state
    /\ "version" \in fields => record'[q].version = record[q].version
    /\ "active" \in fields => record'[q].active = record[q].active
    /\ "published" \in fields => record'[q].published = record[q].published
    /\ "quarantined" \in fields => record'[q].quarantined = record[q].quarantined

UploadRow(r, q) ==
    IF q = r THEN Keeps(q, {"version", "published", "quarantined"}) /\ record'[q].state = "live"
             ELSE record'[q] = record[q]

ActivateRow(r, q) ==
    IF q = r THEN Keeps(q, {"state", "version", "quarantined"}) /\ ~record'[q].published
             ELSE record'[q] = record[q]

DeactivateRow(r, q) ==
    IF q = r THEN Keeps(q, {"state", "version", "published", "quarantined"})
             ELSE record'[q] = record[q]

DeleteRow(r, q) ==
    IF q = r THEN Keeps(q, {"version", "quarantined"}) /\ record'[q].state = "deleted"
             ELSE record'[q] = record[q]

PublishRow(r, q) ==
    IF q = r THEN /\ Keeps(q, {"state", "version", "active"})
                  /\ Keeps(q, {"published", "quarantined"})
                        \/ (record'[q].published /\ ~record'[q].quarantined)
             ELSE record'[q] = record[q]

SanitizedRow(q) ==
    IF q \notin cleanup.of THEN record'[q] = record[q]
    ELSE IF cleanup.kind = "erase"
         THEN Keeps(q, {"state", "active"}) /\ record'[q].version = 2
         ELSE Keeps(q, {"version", "published"}) /\ record'[q].state = "gone"

FinishedRow(q) ==
    IF q \in cleanup.of
    THEN Keeps(q, {"state", "version", "active"})
    ELSE record'[q] = record[q]

AssociatedRow(q) ==
    IF record[q].state = "live"
    THEN Keeps(q, {"state", "version", "active", "published"}) /\ record'[q].quarantined
    ELSE record'[q] = record[q]

LEMMA RowMoves ==
    ASSUME Typed, Rows, NEW q \in Record
    PROVE  /\ \A r \in Record :
                /\ Upload(r) => UploadRow(r, q)
                /\ Activate(r) => ActivateRow(r, q)
                /\ Deactivate(r) => DeactivateRow(r, q)
                /\ Delete(r) => DeleteRow(r, q)
                /\ PublishBase(r) => PublishRow(r, q)
           /\ Erase => Keeps(q, {"state", "version", "active", "published"})
           /\ Sanitize => SanitizedRow(q)
           /\ FinishErasure => FinishedRow(q)
           /\ AssociatePerson => AssociatedRow(q)
<1>1. record \in [Record -> RecordRow]
      BY DEF Typed
<1>2. record[q] \in RecordRow
      BY <1>1
<1>3. ASSUME NEW r \in Record, Upload(r) PROVE UploadRow(r, q)
  <2>1. record'[q] = IF q = r THEN [record[q] EXCEPT !.state = "live", !.active = TRUE]
                     ELSE record[q]
        BY <1>1, <1>3 DEF Upload
  <2> QED BY <1>2, <2>1 DEF UploadRow, Keeps, RecordRow
<1>4. ASSUME NEW r \in Record, Activate(r) PROVE ActivateRow(r, q)
  <2>1. record'[q] = IF q = r THEN [record[q] EXCEPT !.active = TRUE, !.published = FALSE]
                     ELSE record[q]
        BY <1>1, <1>4 DEF Activate
  <2> QED BY <1>2, <2>1 DEF ActivateRow, Keeps, RecordRow
<1>5. ASSUME NEW r \in Record, Deactivate(r) PROVE DeactivateRow(r, q)
  <2>1. record'[q] = IF q = r THEN [record[q] EXCEPT !.active = FALSE] ELSE record[q]
        BY <1>1, <1>5 DEF Deactivate
  <2> QED BY <1>2, <2>1 DEF DeactivateRow, Keeps, RecordRow
<1>6. ASSUME NEW r \in Record, Delete(r) PROVE DeleteRow(r, q)
  <2>1. record'[q] = IF q = r
                     THEN [record[q] EXCEPT !.state = "deleted", !.active = FALSE,
                                            !.published = FALSE]
                     ELSE record[q]
        BY <1>1, <1>6 DEF Delete
  <2> QED BY <1>2, <2>1 DEF DeleteRow, Keeps, RecordRow
<1>7. ASSUME NEW r \in Record, PublishBase(r) PROVE PublishRow(r, q)
  <2>1. \/ record'[q] = record[q]
        \/ /\ q = r
           /\ record'[q] = [record[q] EXCEPT !.published = TRUE, !.quarantined = FALSE]
        BY <1>1, <1>7 DEF PublishBase
  <2>2. CASE record'[q] = record[q]
        BY <2>2 DEF PublishRow, Keeps
  <2>3. CASE /\ q = r
             /\ record'[q] = [record[q] EXCEPT !.published = TRUE, !.quarantined = FALSE]
        BY <1>2, <2>3 DEF PublishRow, Keeps, RecordRow
  <2> QED BY <2>1, <2>2, <2>3
<1>8. ASSUME Erase PROVE Keeps(q, {"state", "version", "active", "published"})
  <2>1. record'[q] \in {record[q], [record[q] EXCEPT !.quarantined = TRUE]}
        BY <1>1, <1>8 DEF Erase
  <2> QED BY <1>2, <2>1 DEF Keeps, RecordRow
<1>9. ASSUME Sanitize PROVE SanitizedRow(q)
  <2>1. record'[q] = IF q \notin cleanup.of THEN record[q]
                     ELSE IF cleanup.kind = "erase" THEN Sanitized(q)
                     ELSE [record[q] EXCEPT !.state = "gone"]
        BY <1>1, <1>9 DEF Sanitize
  <2>2. CASE q \in cleanup.of /\ cleanup.kind = "erase"
    <3>1. record[q].version = 1
          BY <1>9, <2>2 DEF Sanitize, Rows
    <3>2. record'[q] = Sanitized(q)
          BY <2>1, <2>2
    <3> QED BY <1>2, <2>2, <3>1, <3>2 DEF Sanitized, SanitizedRow, Keeps, RecordRow
  <2>3. CASE ~(q \in cleanup.of /\ cleanup.kind = "erase")
        BY <1>2, <2>1, <2>3 DEF SanitizedRow, Keeps, RecordRow
  <2> QED BY <2>2, <2>3
<1>10. ASSUME FinishErasure PROVE FinishedRow(q)
  <2>1. record'[q] = IF q \in cleanup.of
                     THEN [record[q] EXCEPT !.published = TRUE, !.quarantined = FALSE]
                     ELSE record[q]
        BY <1>1, <1>10 DEF FinishErasure
  <2> QED BY <1>2, <2>1 DEF FinishedRow, Keeps, RecordRow
<1>11. ASSUME AssociatePerson PROVE AssociatedRow(q)
  <2>1. record'[q] = IF record[q].state = "live"
                     THEN [record[q] EXCEPT !.quarantined = TRUE] ELSE record[q]
        BY <1>1, <1>11 DEF AssociatePerson
  <2> QED BY <1>2, <2>1 DEF AssociatedRow, Keeps, RecordRow
<1> QED BY <1>3, <1>4, <1>5, <1>6, <1>7, <1>8, <1>9, <1>10, <1>11

\* Only the sanitizing stage takes a version of a document away.
VersionKept(q) ==
    /\ record'[q].version = record[q].version
    /\ record'[q].state = "gone" => record[q].state = "gone"

LEMMA VersionsKept ==
    ASSUME Typed, Rows, [Next]_vars, NEW q \in Record
    PROVE  \/ Sanitize /\ q \in cleanup.of
           \/ VersionKept(q)
<1>1. record[q] \in RecordRow
      BY DEF Typed
<1>2. CASE UNCHANGED record
      BY <1>2 DEF VersionKept
<1>3. CASE \E r \in Record : Upload(r) \/ Activate(r) \/ Deactivate(r) \/ Delete(r) \/ PublishBase(r)
      BY <1>3, RowMoves DEF VersionKept, UploadRow, ActivateRow, DeactivateRow, DeleteRow,
                          PublishRow, Keeps
<1>4. CASE Erase \/ FinishErasure \/ AssociatePerson
      BY <1>4, RowMoves DEF VersionKept, FinishedRow, AssociatedRow, Keeps
<1>5. CASE Sanitize
      BY <1>5, RowMoves DEF VersionKept, SanitizedRow
<1>6. CASE FinishDeletion \/ Decide \/ (\E s \in DOMAIN jobs : Aggregate(s)) \/ UNCHANGED vars
  <2>1. UNCHANGED record
        BY <1>6 DEF FinishDeletion, Decide, Aggregate, Begin, TakeContext, Resume, Draft, Stage,
                    Release, Publish, Abandon, OnlyJobs, vars
  <2> QED BY <1>2, <2>1
<1> QED BY <1>3, <1>4, <1>5, <1>6 DEF Next, Aggregate

LEMMA ErasedKept ==
    ASSUME Typed, Rows, [Next]_vars, NEW ref \in RefSet,
           ~(Sanitize /\ ref.record \in cleanup.of)
    PROVE  Erased(ref)' => Erased(ref)
BY VersionsKept DEF VersionKept, Erased, RefSet

\* While a cleanup holds the barrier only it changes records and commands.
LEMMA RowsStep ==
    ASSUME Typed, Rows, [Next]_vars
    PROVE  Rows'
<1> DEFINE Plain(q) == record[q].state = "absent" => ~record[q].published
           Commands(q) == command[q] # "none" =>
                            \/ record[q].state = "live"
                            \/ /\ cleanup.kind = "delete" /\ cleanup.stage = "draining"
                               /\ q \in cleanup.of
           Affected(q) == cleanup.kind = "erase" =>
                            /\ q \in cleanup.of => record[q].state = "live"
                            /\ cleanup.stage = "draining" => record[q].version = 1
           Free(q) == cleanup.stage = "rebuilding" /\ q \in cleanup.of => command[q] = "none"
           Barred == Unbarred <=> cleanup.stage = "none"
<1>0. Barred /\ \A q \in Record : Plain(q) /\ Commands(q) /\ Affected(q) /\ Free(q)
      BY DEF Rows, Typed
<1>1. SUFFICES Barred' /\ \A q \in Record : Plain(q)' /\ Commands(q)' /\ Affected(q)' /\ Free(q)'
  <2>1. cleanup' \in CleanupRow
        BY EvidenceStep DEF EvidenceTyped
  <2> QED BY <2>1 DEF Rows, CleanupRow
<1>2. CASE UNCHANGED <<record, command, cleanup>>
      BY <1>0, <1>2 DEF Unbarred
<1>3. ASSUME NEW r \in Record,
             Upload(r) \/ Activate(r) \/ Deactivate(r) \/ PublishBase(r)
      PROVE  Barred' /\ \A q \in Record : Plain(q)' /\ Commands(q)' /\ Affected(q)' /\ Free(q)'
  <2>1. Unbarred /\ UNCHANGED cleanup
        BY <1>3 DEF Upload, Activate, Deactivate, PublishBase, Commanded
  <2>2. cleanup.kind = "none" /\ cleanup'.kind = "none"
        BY <2>1 DEF Unbarred
  <2>3. Barred'
        BY <1>0, <2>1 DEF Unbarred
  <2> SUFFICES ASSUME NEW q \in Record PROVE Plain(q)' /\ Commands(q)'
      BY <2>1, <2>2, <2>3 DEF Unbarred
  <2>4. /\ command'[q] # "none" => command[q] # "none" \/ q = r
        /\ PublishBase(r) => command[r] # "none" /\ command'[r] = "none"
        BY <1>3 DEF Upload, Activate, Deactivate, PublishBase, Commanded, Typed
  <2>5. Plain(q) /\ (command[q] # "none" => record[q].state = "live")
        BY <1>0, <2>2
  <2>6. CASE q # r
    <3>1. record'[q] = record[q]
          BY <1>3, <2>6, RowMoves DEF UploadRow, ActivateRow, DeactivateRow, PublishRow
    <3> QED BY <2>4, <2>5, <2>6, <3>1
  <2>7. CASE q = r
    <3>1. CASE Upload(r)
          BY <2>5, <2>7, <3>1, RowMoves DEF UploadRow
    <3>2. CASE Activate(r)
      <4>1. record[r].state = "live"
            BY <3>2 DEF Activate, Commanded
      <4> QED BY <2>7, <3>2, <4>1, RowMoves DEF ActivateRow, Keeps
    <3>3. CASE Deactivate(r)
      <4>1. record[r].state = "live"
            BY <3>3 DEF Deactivate, Commanded
      <4> QED BY <2>7, <3>3, <4>1, RowMoves DEF DeactivateRow, Keeps
    <3>4. CASE PublishBase(r)
      <4>1. record'[r].state = "live"
            BY <2>4, <2>5, <2>7, <3>4, RowMoves DEF PublishRow, Keeps
      <4> QED BY <2>7, <4>1
    <3> QED BY <1>3, <3>1, <3>2, <3>3, <3>4
  <2> QED BY <2>6, <2>7
<1>4. ASSUME NEW r \in Record, Delete(r)
      PROVE  Barred' /\ \A q \in Record : Plain(q)' /\ Commands(q)' /\ Affected(q)' /\ Free(q)'
  <2>1. cleanup' = [kind |-> "delete", of |-> {r}, stage |-> "draining"]
        BY <1>4 DEF Delete
  <2>2. cleanup.kind = "none"
        BY <1>4 DEF Delete, Commanded, Unbarred
  <2> SUFFICES ASSUME NEW q \in Record PROVE Plain(q)' /\ Commands(q)'
      BY <2>1 DEF Unbarred
  <2>3. q # r => record'[q] = record[q] /\ command'[q] = command[q]
        BY <1>4, RowMoves DEF DeleteRow, Delete, Commanded, Typed
  <2>4. q = r => record'[q].state = "deleted"
        BY <1>4, RowMoves DEF DeleteRow
  <2> QED BY <1>0, <2>1, <2>2, <2>3, <2>4
<1>5. CASE Erase
  <2>1. /\ cleanup'.kind = "erase" /\ cleanup'.stage = "draining"
        /\ \A q \in cleanup'.of : record[q].state = "live"
        /\ \A q \in Record : record[q].version = 1
        /\ UNCHANGED command /\ cleanup.kind = "none"
        BY <1>5 DEF Erase, Unbarred
  <2> SUFFICES ASSUME NEW q \in Record PROVE Plain(q)' /\ Commands(q)' /\ Affected(q)' /\ Free(q)'
      BY <2>1 DEF Unbarred
  <2>2. Keeps(q, {"state", "version", "active", "published"})
        BY <1>5, RowMoves
  <2> QED BY <1>0, <2>1, <2>2 DEF Keeps
<1>6. CASE Sanitize
  <2>1. cleanup.stage = "draining" /\ cleanup' = [cleanup EXCEPT !.stage = "rebuilding"]
        BY <1>6 DEF Sanitize
  <2>2. cleanup'.kind = cleanup.kind /\ cleanup'.of = cleanup.of /\ cleanup'.stage = "rebuilding"
        BY <2>1 DEF Typed
  <2>3. cleanup.kind # "none"
        BY <1>0, <2>1 DEF Unbarred
  <2> SUFFICES ASSUME NEW q \in Record PROVE Plain(q)' /\ Commands(q)' /\ Affected(q)' /\ Free(q)'
      BY <2>2, <2>3 DEF Unbarred
  <2>4. command'[q] # "none" => command[q] # "none" /\ q \notin cleanup.of
        BY <1>6 DEF Sanitize
  <2>5. SanitizedRow(q)
        BY <1>6, RowMoves
  <2>6. CASE q \notin cleanup.of
        BY <1>0, <2>2, <2>4, <2>5, <2>6 DEF SanitizedRow
  <2>7. CASE q \in cleanup.of /\ cleanup.kind = "erase"
    <3>1. record'[q].state = "live"
          BY <1>0, <2>5, <2>7 DEF SanitizedRow, Keeps
    <3> QED BY <2>2, <2>4, <2>7, <3>1
  <2>8. CASE q \in cleanup.of /\ cleanup.kind # "erase"
    <3>1. record'[q].state = "gone"
          BY <2>5, <2>8 DEF SanitizedRow
    <3> QED BY <2>2, <2>4, <2>8, <3>1
  <2> QED BY <2>6, <2>7, <2>8
<1>7. CASE FinishErasure
  <2>1. /\ cleanup' = [kind |-> "none", of |-> {}, stage |-> "none"]
        /\ UNCHANGED command /\ cleanup.kind = "erase"
        BY <1>7 DEF FinishErasure
  <2> SUFFICES ASSUME NEW q \in Record PROVE Plain(q)' /\ Commands(q)'
      BY <2>1 DEF Unbarred
  <2>2. FinishedRow(q)
        BY <1>7, RowMoves
  <2>3. CASE q \in cleanup.of
    <3>1. record'[q].state = "live"
          BY <1>0, <2>1, <2>2, <2>3 DEF FinishedRow, Keeps
    <3> QED BY <3>1
  <2>4. CASE q \notin cleanup.of
    <3>1. record'[q] = record[q]
          BY <2>2, <2>4 DEF FinishedRow
    <3> QED BY <1>0, <2>1, <3>1
  <2> QED BY <2>3, <2>4
<1>8. CASE FinishDeletion
      BY <1>0, <1>8 DEF FinishDeletion, Unbarred
<1>9. CASE AssociatePerson
  <2>1. UNCHANGED <<command, cleanup>>
        BY <1>9 DEF AssociatePerson
  <2> SUFFICES ASSUME NEW q \in Record PROVE Plain(q)' /\ Commands(q)' /\ Affected(q)' /\ Free(q)'
      BY <1>0, <2>1 DEF Unbarred
  <2>2. AssociatedRow(q)
        BY <1>9, RowMoves
  <2>3. /\ record'[q].state = record[q].state /\ record'[q].version = record[q].version
        /\ record'[q].state = "absent" => record'[q] = record[q]
        BY <2>2 DEF AssociatedRow, Keeps
  <2> QED BY <1>0, <2>1, <2>3
<1>10. CASE Decide \/ (\E s \in DOMAIN jobs : Aggregate(s)) \/ UNCHANGED vars
  <2>1. UNCHANGED <<record, command, cleanup>>
        BY <1>10 DEF Decide, Aggregate, Begin, TakeContext, Resume, Draft, Stage,
                     Release, Publish, Abandon, OnlyJobs, vars
  <2> QED BY <1>2, <2>1
<1> QED BY <1>3, <1>4, <1>5, <1>6, <1>7, <1>8, <1>9, <1>10 DEF Next, Aggregate

-----------------------------------------------------------------------------
(* The history. *)

\* A cleanup takes only what rests on its documents; the event of a record is
\* replaced by nothing.
Untouched(e) == Sanitize => ~RestsOn(e)

LEMMA BasesKept ==
    ASSUME Typed, History, AllJobs, [Next]_vars,
           NEW p \in history, p.id.from = "record", Untouched(p)
    PROVE  p \in history'
<1>1. CASE history \subseteq history'
      BY <1>1
<1>2. CASE Sanitize
      BY <1>2 DEF Sanitize, Untouched
<1>3. ASSUME NEW s \in DOMAIN jobs, Publish(s) PROVE p \in history'
  <2>1. \A f \in jobs[s].batch.proposed : f.id # p.id
        BY <1>3 DEF AllJobs, JobInv, Holding, Read, Kept, Drafted, Publish
  <2> QED BY <1>3, <2>1 DEF Publish, Merged
<1>4. CASE Decide
  <2>1. PICK e \in history, approve \in BOOLEAN :
           /\ e.human = "pending"
           /\ history' = Merged({Decided(e, approve)})
        BY <1>4 DEF Decide
  <2>2. e \in Event /\ Wellformed(p)
        BY DEF Typed, History
  <2>3. p.human = "not_required"
        BY <2>2 DEF Wellformed
  <2>4. p.id # e.id
        BY <2>1, <2>3 DEF History, UniqueIds
  <2> QED BY <2>1, <2>2, <2>4, DecidedTyped DEF Merged
<1>5. CASE \E r \in Record : Upload(r) \/ Activate(r) \/ Deactivate(r) \/ Delete(r) \/ PublishBase(r)
      BY <1>1, <1>5 DEF Upload, Activate, Deactivate, Delete, Commanded, PublishBase
<1>6. CASE Erase \/ FinishErasure \/ FinishDeletion \/ AssociatePerson \/ UNCHANGED vars
      BY <1>1, <1>6 DEF Erase, FinishErasure, FinishDeletion, AssociatePerson, vars
<1>7. CASE \E s \in DOMAIN jobs : Aggregate(s) /\ ~Publish(s)
      BY <1>1, <1>7 DEF Aggregate, Begin, TakeContext, Resume, Draft, Stage, Release, Abandon,
                        OnlyJobs
<1> QED BY <1>2, <1>3, <1>4, <1>5, <1>6, <1>7 DEF Next, Aggregate

\* What was approved stays approved.
LEMMA ApprovedGrows ==
    ASSUME [Next]_vars
    PROVE  approved \subseteq approved'
<1>1. CASE UNCHANGED approved
      BY <1>1
<1>2. CASE Decide
      BY <1>2 DEF Decide
<1>3. CASE \E r \in Record : Upload(r) \/ Activate(r) \/ Deactivate(r) \/ Delete(r) \/ PublishBase(r)
      BY <1>1, <1>3 DEF Upload, Activate, Deactivate, Delete, Commanded, PublishBase
<1>4. CASE Erase \/ Sanitize \/ FinishErasure \/ FinishDeletion \/ AssociatePerson \/ UNCHANGED vars
      BY <1>1, <1>4 DEF Erase, Sanitize, FinishErasure, FinishDeletion, AssociatePerson, vars
<1>5. CASE \E s \in DOMAIN jobs : Aggregate(s)
      BY <1>1, <1>5 DEF Aggregate, Begin, TakeContext, Resume, Draft, Stage, Release, Publish,
                        Abandon, OnlyJobs
<1> QED BY <1>2, <1>3, <1>4, <1>5 DEF Next, Aggregate

\* What holds of an event goes on to hold, unless a cleanup takes the event.
Sound(e) ==
    /\ Wellformed(e)
    /\ Rests(e)
    /\ Consequential(e) => PriorKept(e)

LEMMA RestsKept ==
    ASSUME Typed, Rows, [Next]_vars, NEW e \in Event, Rests(e), Untouched(e)
    PROVE  Rests(e)'
<1> SUFFICES ASSUME NEW ref \in e.evidence PROVE ~Erased(ref)'
    BY DEF Rests
<1>1. ref \in RefSet /\ ~Erased(ref)
      BY DEF Event, Rests
<1>2. ~(Sanitize /\ ref.record \in cleanup.of)
      BY DEF Untouched, RestsOn, Touched
<1> QED BY <1>1, <1>2, ErasedKept

LEMMA PriorStays ==
    ASSUME Typed, History, AllJobs, [Next]_vars, NEW e \in Event,
           e.prior \in Id, PriorKept(e), Untouched(e)
    PROVE  PriorKept(e)'
<1> SUFFICES ASSUME e.prior.from = "record"
             PROVE  \E p \in history' : p.id = e.prior /\ p.evidence \subseteq e.evidence
    BY DEF PriorKept
<1>1. PICK p \in history : p.id = e.prior /\ p.evidence \subseteq e.evidence
      BY DEF PriorKept
<1>2. Untouched(p)
      BY <1>1 DEF Untouched, RestsOn, Touched
<1>3. p \in history'
      BY <1>1, <1>2, BasesKept
<1> QED BY <1>1, <1>3

LEMMA WellformedKept ==
    ASSUME Typed, AllJobs, [Next]_vars, NEW e \in Event, Wellformed(e)
    PROVE  Wellformed(e)'
<1>1. generation <= generation' /\ generation \in Nat /\ generation' \in Nat
      BY JobsStep DEF JobsTyped, Typed
<1>2. approved \subseteq approved'
      BY ApprovedGrows
<1>3. e.id.n \in Nat
      BY DEF Event, Id
<1> QED BY <1>1, <1>2, <1>3 DEF Wellformed, Shown

LEMMA SoundKept ==
    ASSUME Typed, Rows, History, AllJobs, [Next]_vars, NEW e \in history, Untouched(e)
    PROVE  Sound(e)'
<1>1. e \in Event /\ Sound(e)
      BY DEF Typed, History, Sound
<1>2. Rests(e)' /\ Wellformed(e)'
      BY <1>1, RestsKept, WellformedKept DEF Sound
<1>3. Consequential(e) => e.prior \in Id
      BY <1>1 DEF Sound, Wellformed, Consequential
<1>4. Consequential(e) => PriorKept(e)'
      BY <1>1, <1>3, PriorStays DEF Sound
<1> QED BY <1>2, <1>4 DEF Sound, Consequential

\* A base event of a version that is there is sound.
LEMMA BaseSound ==
    ASSUME EvidenceTyped', NEW r \in Record, NEW n \in Nat, n <= generation',
           record'[r].state # "gone",
           NEW e, e = BaseEvent(r, record'[r].version, n)
    PROVE  Sound(e)'
<1>1. /\ e.id.from = "record" /\ e.id.n = n
      /\ e.review = "passed" /\ e.human = "not_required"
      /\ e.evidence = {[record |-> r, version |-> record'[r].version]}
      BY DEF BaseEvent
<1>2. record'[r].version \in Nat
      BY DEF EvidenceTyped, RecordRow
<1>5. Rests(e)'
  <2> SUFFICES ASSUME NEW ref \in e.evidence PROVE ~Erased(ref)'
      BY DEF Rests
  <2>1. ref.record = r /\ ref.version = record'[r].version
        BY <1>1
  <2> QED BY <1>2, <2>1 DEF Erased
<1>6. Wellformed(e)'
      BY <1>1 DEF Wellformed
<1> QED BY <1>1, <1>5, <1>6 DEF Sound, Consequential

LEMMA HistoryStep ==
    ASSUME Typed, Rows, History, AllJobs, [Next]_vars
    PROVE  History'
<1>0. /\ Typed' /\ JobsTyped' /\ generation <= generation'
      /\ generation \in Nat /\ generation' \in Nat
      BY TypedStep, JobsStep DEF Typed
<1>1. SUFFICES /\ UniqueIds(history)'
               /\ \A e \in history' : Sound(e)'
               /\ \A ref \in topic' : ~Erased(ref)'
      BY DEF History, Sound
<1>2. ASSUME topic' \subseteq topic, Sanitize => topic' = {} \/ ~Touched(topic)
      PROVE  \A ref \in topic' : ~Erased(ref)'
  <2> SUFFICES ASSUME NEW ref \in topic' PROVE ~Erased(ref)'
      OBVIOUS
  <2>1. ref \in RefSet /\ ~Erased(ref)
        BY <1>2 DEF Typed, History
  <2>2. ~(Sanitize /\ ref.record \in cleanup.of)
        BY <1>2 DEF Touched
  <2> QED BY <2>1, <2>2, ErasedKept
<1>3. CASE history' \subseteq history /\ UNCHANGED topic /\ ~Sanitize
  <2>1. \A e \in history' : Sound(e)'
        BY <1>3, SoundKept DEF Untouched
  <2>2. UniqueIds(history)'
        BY <1>3 DEF UniqueIds, History
  <2> QED BY <1>2, <1>3, <2>1, <2>2
<1>4. CASE Sanitize
  <2>1. history' = {e \in history : ~RestsOn(e)}
        BY <1>4 DEF Sanitize
  <2>2. \A e \in history' : Sound(e)'
        BY <2>1, SoundKept DEF Untouched
  <2>3. UniqueIds(history)'
        BY <2>1 DEF UniqueIds, History
  <2>4. topic' \subseteq topic /\ (topic' = {} \/ ~Touched(topic))
        BY <1>4 DEF Sanitize
  <2> QED BY <1>2, <2>2, <2>3, <2>4
<1>5. ASSUME NEW rs \in SUBSET Record, NEW new,
             \A e \in new : \E r \in rs : e = BaseEvent(r, record'[r].version, generation + 1),
             \A r \in rs : record'[r].state # "gone",
             history' = history \cup new, Invalidate, UNCHANGED topic, ~Sanitize
      PROVE  History'
  <2>1. generation' = generation + 1
        BY <1>5 DEF Invalidate
  <2>2. \A e \in new : Sound(e)'
    <3> SUFFICES ASSUME NEW e \in new PROVE Sound(e)'
        OBVIOUS
    <3>1. PICK r \in rs : e = BaseEvent(r, record'[r].version, generation + 1)
          BY <1>5
    <3>2. record'[r].state # "gone" /\ r \in Record
          BY <1>5
    <3>3. EvidenceTyped'
          BY EvidenceStep
    <3> QED BY <1>0, <2>1, <3>1, <3>2, <3>3, BaseSound
  <2>3. \A e \in history : Sound(e)'
        BY <1>5, SoundKept DEF Untouched
  <2>4. \A e \in new : \A f \in history : e.id # f.id
    <3> SUFFICES ASSUME NEW e \in new, NEW f \in history, e.id = f.id PROVE FALSE
        OBVIOUS
    <3>1. e.id.from = "record" /\ e.id.n = generation + 1
          BY <1>5 DEF BaseEvent
    <3>2. Wellformed(f)
          BY DEF History
    <3> QED BY <1>0, <3>1, <3>2 DEF Wellformed
  <2>5. \A e, f \in new : e.id = f.id => e = f
    <3> SUFFICES ASSUME NEW e \in new, NEW f \in new, e.id = f.id PROVE e = f
        OBVIOUS
    <3>1. PICK q \in rs : e = BaseEvent(q, record'[q].version, generation + 1)
          BY <1>5
    <3>2. PICK r \in rs : f = BaseEvent(r, record'[r].version, generation + 1)
          BY <1>5
    <3>3. e.id.of = q /\ f.id.of = r
          BY <3>1, <3>2 DEF BaseEvent
    <3> QED BY <3>1, <3>2, <3>3
  <2>6. UniqueIds(history)'
        BY <1>5, <2>4, <2>5 DEF UniqueIds, History
  <2>7. \A ref \in topic' : ~Erased(ref)'
        BY <1>2, <1>5
  <2> QED BY <1>5, <2>2, <2>3, <2>6, <2>7 DEF History, Sound
<1>6. ASSUME NEW r \in Record, PublishBase(r) PROVE History'
  <2>1. PICK new \in SUBSET {BaseEvent(r, record'[r].version, generation + 1)} :
           history' = history \cup new
        BY <1>6 DEF PublishBase
  <2>2. \A e \in new : \E q \in {r} : e = BaseEvent(q, record'[q].version, generation + 1)
        BY <2>1
  <2>3. record'[r].state # "gone"
    <3>1. command[r] # "none" /\ cleanup.kind = "none"
          BY <1>6 DEF PublishBase, Unbarred
    <3>2. record[r].state = "live"
          BY <3>1 DEF Rows
    <3> QED BY <1>6, <3>2, RowMoves DEF PublishRow, Keeps
  <2>4. Invalidate /\ UNCHANGED topic /\ ~Sanitize
        BY <1>6 DEF PublishBase, Sanitize, Unbarred, Rows
  <2> DEFINE rs == {r}
  <2>5. /\ rs \in SUBSET Record
        /\ \A q \in rs : record'[q].state # "gone"
        /\ \A e \in new : \E q \in rs : e = BaseEvent(q, record'[q].version, generation + 1)
        BY <2>2, <2>3
  <2> HIDE DEF rs
  <2> QED BY <1>5, <2>1, <2>4, <2>5
<1>7. ASSUME FinishErasure PROVE History'
  <2>1. PICK new \in SUBSET {BaseEvent(r, record'[r].version, generation + 1) :
                               r \in cleanup.of} :
           history' = history \cup new
        BY <1>7 DEF FinishErasure
  <2>2. cleanup.of \in SUBSET Record
        BY DEF Typed
  <2>3. ASSUME NEW r \in cleanup.of PROVE record'[r].state # "gone"
    <3>1. record[r].state = "live" /\ r \in Record
          BY <1>7, <2>2 DEF FinishErasure, Rows
    <3> QED BY <1>7, <3>1, RowMoves DEF FinishedRow, Keeps
  <2>4. Invalidate /\ UNCHANGED topic /\ ~Sanitize
        BY <1>7 DEF FinishErasure, Sanitize
  <2>5. \A e \in new : \E r \in cleanup.of :
           e = BaseEvent(r, record'[r].version, generation + 1)
        BY <2>1
  <2> DEFINE rs == cleanup.of
  <2>6. /\ rs \in SUBSET Record
        /\ \A q \in rs : record'[q].state # "gone"
        /\ \A e \in new : \E q \in rs : e = BaseEvent(q, record'[q].version, generation + 1)
        BY <2>2, <2>3, <2>5
  <2> HIDE DEF rs
  <2> QED BY <1>5, <2>1, <2>4, <2>6
<1>8. ASSUME NEW s \in DOMAIN jobs, Publish(s) PROVE History'
  <2> DEFINE batch == jobs[s].batch
  <2>1. /\ Kept(s) /\ batch \in Batch
        /\ \A ref \in batch.deps : Current(ref)
        /\ history' = Merged(batch.proposed) /\ topic' = batch.deps
        /\ UNCHANGED <<record, cleanup, generation, approved>>
        BY <1>8 DEF AllJobs, JobInv, Holding, Read, Kept, Publish
  <2>2. ~Sanitize
    <3>1. Unbarred
          BY <1>8 DEF AllJobs, JobInv, Live, Publish
    <3> QED BY <3>1 DEF Sanitize, Rows
  <2>3. ASSUME NEW e \in history', e \notin history PROVE Sound(e)'
    <3>1. e \in batch.proposed /\ e \in Event
          BY <2>1, <2>3 DEF Merged, Batch
    <3>2. Drafted(e) /\ Rests(e) /\ PriorKept(e)
          BY <2>1, <3>1 DEF Kept
    <3>3. Wellformed(e)
          BY <3>2 DEF Drafted, Wellformed
    <3>4. Untouched(e)
          BY <2>2 DEF Untouched
    <3> QED BY <3>1, <3>2, <3>3, <3>4, RestsKept, WellformedKept, PriorStays DEF Drafted, Sound
  <2>4. \A e \in history' : Sound(e)'
        BY <2>2, <2>3, SoundKept DEF Untouched
  <2>5. UniqueIds(history)'
        BY <2>1 DEF UniqueIds, History, Merged, Kept
  <2>6. \A ref \in topic' : ~Erased(ref)'
    <3> SUFFICES ASSUME NEW ref \in batch.deps PROVE ~Erased(ref)'
        BY <2>1
    <3>1. Current(ref) /\ ref \in RefSet
          BY <2>1 DEF Batch
    <3>2. record[ref.record].state # "gone" /\ ref.version = record[ref.record].version
          BY <3>1 DEF Current, Ref
    <3>3. ref.version \in Nat
          BY <3>1 DEF RefSet
    <3> QED BY <2>1, <3>2, <3>3 DEF Erased
  <2> QED BY <2>4, <2>5, <2>6 DEF History, Sound
<1>9. CASE Decide
  <2>1. PICK e \in history, approve \in BOOLEAN :
           /\ e.human = "pending"
           /\ history' = Merged({Decided(e, approve)})
           /\ approved' = IF approve THEN approved \cup {Shown(e)} ELSE approved
        BY <1>9 DEF Decide
  <2> DEFINE d == Decided(e, approve)
  <2>2. /\ d \in Event /\ e \in Event /\ d.id = e.id /\ d.prior = e.prior
        /\ d.evidence = e.evidence
        /\ d.human = IF approve THEN "approved" ELSE "rejected"
        /\ d.review = IF approve THEN "passed" ELSE "failed"
        BY DecidedTyped DEF Typed
  <2> HIDE DEF d
  <2>3. ~Sanitize
        BY <1>9 DEF Decide, Sanitize, Unbarred, Rows
  <2>4. Sound(e)'
        BY <2>3, SoundKept DEF Untouched
  <2>5. Sound(d)'
    <3>1. Rests(d)'
          BY <2>2, <2>4 DEF Sound, Rests
    <3>2. e.id.from # "record" /\ e.prior \in Id
          BY <2>1 DEF History, Wellformed
    <3>3. PriorKept(d)'
          BY <2>2, <2>4, <3>2 DEF Sound, PriorKept, Consequential, Event, Id
    <3>4. Shown(d) = Shown(e)
          BY <2>2 DEF Shown
    <3>5. Wellformed(d)'
          BY <2>1, <2>2, <3>2, <3>4 DEF Wellformed, Shown
    <3> QED BY <3>1, <3>3, <3>5 DEF Sound
  <2>6. history' = {f \in history : d.id # f.id} \cup {d}
        BY <2>1 DEF Merged, d
  <2>7. \A f \in history' : Sound(f)'
        BY <2>3, <2>5, <2>6, SoundKept DEF Untouched
  <2>8. UniqueIds(history)'
        BY <2>6 DEF UniqueIds, History
  <2>9. \A ref \in topic' : ~Erased(ref)'
        BY <1>2, <1>9, <2>3 DEF Decide
  <2> QED BY <2>7, <2>8, <2>9 DEF History, Sound
<1>10. CASE \E r \in Record : Upload(r) \/ Activate(r) \/ Deactivate(r) \/ Delete(r)
       BY <1>3, <1>10 DEF Upload, Activate, Deactivate, Delete, Commanded, Sanitize, Unbarred, Rows
<1>11. CASE Erase \/ FinishDeletion \/ AssociatePerson \/ UNCHANGED vars
  <2>1. UNCHANGED <<history, topic>>
        BY <1>11 DEF Erase, FinishDeletion, AssociatePerson, vars
  <2>2. CASE Sanitize
        BY <1>4, <2>2
  <2> QED BY <1>3, <2>1, <2>2
<1>12. ASSUME NEW s \in DOMAIN jobs, Aggregate(s), ~Publish(s) PROVE History'
  <2>1. UNCHANGED <<history, topic>>
        BY <1>12 DEF Aggregate, Begin, TakeContext, Resume, Draft, Stage, Release, Abandon, OnlyJobs
  <2>2. CASE Sanitize
        BY <1>1, <1>4, <2>2 DEF History, Sound
  <2> QED BY <1>1, <1>3, <2>1, <2>2 DEF History, Sound
<1> QED BY <1>1, <1>4, <1>6, <1>7, <1>8, <1>9, <1>10, <1>11, <1>12 DEF Next, Aggregate, History, Sound

-----------------------------------------------------------------------------
(* Aggregate jobs. *)

\* A job that is over holds nothing.
LEMMA JobOver ==
    ASSUME NEW s, jobs'[s].step \in {"completed", "superseded"}
    PROVE  JobInv(s)'
BY DEF JobInv, Holding, Read, Live

\* A reference to a row that did not change reads as before.
LEMMA SameRow ==
    ASSUME NEW ref, record'[ref.record] = record[ref.record]
    PROVE  Readable(ref)' <=> Readable(ref)
BY DEF Readable, Ref

\* An upload changes nothing that can be read.
LEMMA UploadReads ==
    ASSUME Typed, Rows, NEW r \in Record, Upload(r)
    PROVE  /\ \A ref \in RefSet : Readable(ref)' <=> Readable(ref)
           /\ ReadableRefs' = ReadableRefs
<1>1. \A q \in Record \ {r} : record'[q] = record[q]
      BY RowMoves DEF UploadRow
<1>2. ~Eligible(record[r]) /\ ~Eligible(record'[r])
  <2>1. ~record[r].published
        BY DEF Rows, Upload
  <2>2. record'[r].published = record[r].published
        BY RowMoves DEF UploadRow, Keeps
  <2> QED BY <2>1, <2>2 DEF Eligible
<1>3. ASSUME NEW ref \in RefSet PROVE Readable(ref)' <=> Readable(ref)
  <2>1. CASE ref.record = r
        BY <1>2, <2>1 DEF Readable
  <2>2. CASE ref.record # r
        BY <1>1, <2>2, SameRow DEF RefSet
  <2> QED BY <2>1, <2>2
<1>4. ReadableRefs' = ReadableRefs
  <2>1. \A q \in Record : Eligible(record'[q]) <=> Eligible(record[q])
        BY <1>1, <1>2
  <2>2. \A q \in Record : record'[q].version = record[q].version
        BY <1>1, RowMoves DEF UploadRow, Keeps
  <2> QED BY <2>1, <2>2 DEF ReadableRefs, Ref
<1> QED BY <1>3, <1>4

\* While a job lives no cleanup goes on.
LEMMA LiveUnbarred ==
    ASSUME Rows, AllJobs, NEW s \in DOMAIN jobs, Live(s)
    PROVE  Unbarred /\ ~Sanitize
BY DEF AllJobs, JobInv, Rows, Sanitize

\* A job that a step leaves alone: its records stay planned, and what could be
\* read of its draft can, unless its own records no longer can.
LEMMA JobKept ==
    ASSUME Typed, Rows, History, AllJobs, [Next]_vars,
           NEW s \in DOMAIN jobs, NEW refs \in SUBSET RefSet, refs = jobs[s].refs,
           Live(s), jobs'[s] = jobs[s], Unbarred',
           \A ref \in refs : record'[ref.record].state = "live" /\ command'[ref.record] = "none",
           AllReadable(refs)' =>
              /\ AllReadable(refs)
              /\ \A ref \in RefSet : Readable(ref) => Readable(ref)',
           \/ generation' = generation + 1
           \/ /\ generation' = generation /\ ReadableRefs' = ReadableRefs
              /\ AllReadable(refs) => AllReadable(refs)'
    PROVE  JobInv(s)'
<1>1. Unbarred /\ ~Sanitize /\ JobInv(s)
      BY LiveUnbarred DEF AllJobs
<1>2. Planned(s)'
      BY <1>1 DEF JobInv, Planned
<1>3. ASSUME Holding(s) PROVE Kept(s)'
  <2>1. Kept(s)
        BY <1>1, <1>3 DEF JobInv
  <2>2. ASSUME NEW e \in jobs[s].batch.proposed
        PROVE  /\ Drafted(e) /\ Rests(e)' /\ PriorKept(e)'
               /\ AllReadable(refs)' => AllReadable(e.evidence)'
    <3>1. e \in Event /\ Drafted(e) /\ Rests(e) /\ PriorKept(e)
          BY <2>1 DEF Kept, Batch
    <3>2. Untouched(e)
          BY <1>1 DEF Untouched
    <3>3. Rests(e)' /\ PriorKept(e)'
          BY <3>1, <3>2, RestsKept, PriorStays DEF Drafted
    <3>4. ASSUME AllReadable(refs)' PROVE AllReadable(e.evidence)'
      <4>1. AllReadable(e.evidence)
            BY <2>1, <3>4 DEF Kept
      <4> QED BY <3>1, <3>4, <4>1 DEF AllReadable, Event
    <3> QED BY <3>1, <3>3, <3>4
  <2>3. jobs[s].batch \in Batch /\ UniqueIds(jobs[s].batch.proposed)
        BY <2>1 DEF Kept
  <2> QED BY <2>2, <2>3 DEF Kept, UniqueIds, Drafted
<1>4. ASSUME Read(s) PROVE UpToDate(s)'
  <2>1. UpToDate(s)
        BY <1>1, <1>4 DEF JobInv
  <2>2. jobs[s].context \in Nat /\ jobs[s].context <= generation /\ generation \in Nat
        BY DEF Typed, JobRow
  <2>3. CASE generation' = generation + 1
        BY <2>1, <2>2, <2>3 DEF UpToDate
  <2>4. CASE generation' # generation + 1
        BY <2>1, <2>4 DEF UpToDate
  <2> QED BY <2>3, <2>4
<1> QED BY <1>1, <1>2, <1>3, <1>4 DEF JobInv, Live, Holding, Read

\* The job planned after a publication waits for its first step.
LEMMA JobPlanned ==
    ASSUME Typed, NEW rs \in SUBSET Record, record' \in [Record -> RecordRow],
           PlanFor(rs, record'), Unbarred',
           \A r \in rs : command'[r] = "none",
           NEW s \in DOMAIN jobs', s \notin DOMAIN jobs
    PROVE  JobInv(s)'
<1>1. /\ s = generation + 1
      /\ jobs'[s].step = "pending" /\ jobs'[s].batch = NoBatch /\ jobs'[s].refs # {}
      /\ jobs'[s].refs = {[record |-> r, version |-> record'[r].version] :
                             r \in {q \in rs : Eligible(record'[q])}}
      BY PlanTyped
<1>2. ASSUME NEW ref \in jobs'[s].refs
      PROVE  record'[ref.record].state = "live" /\ command'[ref.record] = "none"
  <2>1. PICK r \in rs : Eligible(record'[r]) /\ ref.record = r
        BY <1>1
  <2> QED BY <2>1 DEF Eligible
<1>3. Planned(s)'
      BY <1>1, <1>2 DEF Planned
<1> QED BY <1>1, <1>3 DEF JobInv, Holding, Read, Live

\* A draft made of what could be read.
LEMMA DraftKept ==
    ASSUME Typed, Rows, History, NEW s \in DOMAIN jobs, HasRead(s),
           NEW proposed \in Proposals(s)
    PROVE  /\ UniqueIds(proposed)
           /\ \A e \in proposed : /\ Drafted(e) /\ Rests(e) /\ PriorKept(e)
                                  /\ AllReadable(e.evidence)
<1>1. CASE proposed = {}
      BY <1>1 DEF UniqueIds
<1>2. CASE proposed # {}
  <2>1. PICK ref \in jobs[s].refs, prior \in Candidates, passed \in BOOLEAN :
           proposed = {Proposal(ref, prior, passed)}
        BY <1>2 DEF Proposals
  <2> DEFINE e == Proposal(ref, prior, passed)
  <2>2. /\ e.id.from = "proposal" /\ e.prior = prior.id
        /\ e.evidence = {ref} \cup prior.evidence
        /\ \/ e.review = "pending" /\ e.human = "pending"
           \/ e.review = "failed" /\ e.human = "not_required"
        BY DEF Proposal
  <2> HIDE DEF e
  <2>3. prior \in history /\ prior \in Event /\ Known(prior)
        BY DEF Candidates, Typed
  <2>4. Drafted(e)
        BY <2>2, <2>3 DEF Drafted, Event
  <2>5. PriorKept(e)
        BY <2>2, <2>3 DEF PriorKept
  <2>6. AllReadable(e.evidence)
        BY <2>2, <2>3 DEF AllReadable, HasRead, Known
  <2>7. ASSUME NEW x \in e.evidence PROVE ~Erased(x)
    <3>1. Readable(x)
          BY <2>6 DEF AllReadable
    <3>2. x \in RefSet
          BY <2>2, <2>3 DEF Typed, JobRow, Event
    <3> QED BY <3>1, <3>2 DEF Readable, Eligible, Ref, Erased, RefSet
  <2>8. proposed = {e}
        BY <2>1 DEF e
  <2> QED BY <2>4, <2>5, <2>6, <2>7, <2>8 DEF UniqueIds, Rests
<1> QED BY <1>1, <1>2

\* The job that goes on.
LEMMA JobMoves ==
    ASSUME Typed, Rows, History, AllJobs, NEW s \in DOMAIN jobs, Aggregate(s)
    PROVE  JobInv(s)'
<1>1. CASE Publish(s)
  <2>1. jobs'[s].step = "completed"
        BY <1>1 DEF Publish, Typed, JobRow
  <2> QED BY <2>1, JobOver
<1>2. CASE ~Publish(s)
  <2>1. OnlyJobs
        BY <1>2 DEF Aggregate, Begin, TakeContext, Resume, Draft, Stage, Release, Abandon
  <2>2. Live(s)
        BY <1>2 DEF Aggregate, Begin, TakeContext, Resume, Draft, Stage, Release, Abandon,
                    HasRead, Step, Live
  <2>3. JobInv(s) /\ jobs[s] \in JobRow /\ jobs \in [DOMAIN jobs -> JobRow]
        BY DEF AllJobs, Typed
  <2> DEFINE old == jobs[s]
             new == jobs'[s]
  <2>4. new.refs = old.refs
        BY AggregateTyped DEF Aggregate, JobMoved
  <2>5. Unbarred' /\ Planned(s)'
        BY <2>1, <2>2, <2>3, <2>4 DEF OnlyJobs, JobInv, Planned, Unbarred
  <2>6. ASSUME Holding(s), new.batch = old.batch PROVE Kept(s)'
    <3>1. Kept(s)
          BY <2>3, <2>6 DEF JobInv
    <3> QED BY <2>1, <2>4, <2>6, <3>1
            DEF Kept, OnlyJobs, Rests, Erased, PriorKept, AllReadable, Readable, Ref
  <2>7. ASSUME AllReadable(old.refs), new.step # "released" PROVE UpToDate(s)'
        BY <2>1, <2>4, <2>7 DEF UpToDate, OnlyJobs, AllReadable, Readable, Ref
  <2>8. CASE Begin(s) \/ TakeContext(s)
    <3>1. new.batch = old.batch /\ new.step \in {"planned", "reading"}
          BY <2>3, <2>8 DEF Begin, TakeContext, Step, JobRow
    <3>2. Holding(s)' => Holding(s)
          BY <2>2, <3>1 DEF Holding, Read, Live
    <3> QED BY <2>5, <2>6, <3>1, <3>2 DEF JobInv, Read
  <2>9. CASE Resume(s)
    <3>1. new.batch = old.batch /\ new.step = "staged" /\ old.batch # NoBatch
          BY <2>3, <2>9 DEF Resume, JobRow
    <3>2. Holding(s)
          BY <2>2, <3>1 DEF Holding
    <3>3. AllReadable(old.refs)
          BY <2>9 DEF Resume, HasRead, AllReadable
    <3> QED BY <2>5, <2>6, <2>7, <3>1, <3>2, <3>3 DEF JobInv
  <2>10. CASE Draft(s)
    <3>1. PICK proposed \in Proposals(s) :
             jobs' = [jobs EXCEPT
                        ![s].step = "drafted",
                        ![s].batch = [deps |-> jobs[s].refs, proposed |-> proposed]]
          BY <2>10 DEF Draft
    <3> DEFINE batch == [deps |-> jobs[s].refs, proposed |-> proposed]
    <3>2. batch \in Batch
          BY <2>3, ProposalsTyped DEF Batch, JobRow
    <3>3. batch.proposed = proposed
          OBVIOUS
    <3> HIDE DEF batch
    <3>4. new.batch = batch /\ new.step = "drafted"
          BY <2>3, <3>1 DEF JobRow, batch
    <3>5. HasRead(s) /\ AllReadable(old.refs)
          BY <2>10 DEF Draft, HasRead, AllReadable
    <3>6. /\ UniqueIds(proposed)
          /\ \A e \in proposed : /\ Drafted(e) /\ Rests(e) /\ PriorKept(e)
                                 /\ AllReadable(e.evidence)
          BY <3>5, DraftKept
    <3>7. Kept(s)'
          BY <2>1, <3>2, <3>3, <3>4, <3>6
             DEF Kept, OnlyJobs, Rests, Erased, PriorKept, AllReadable, Readable, Ref,
                 UniqueIds, Drafted
    <3> QED BY <2>5, <2>7, <3>4, <3>5, <3>7 DEF JobInv
  <2>11. CASE Stage(s)
    <3>1. new.batch = old.batch /\ new.step = "staged" /\ new.context = old.context
          BY <2>3, <2>11 DEF Stage, Step, JobRow
    <3>2. Holding(s) /\ UpToDate(s)
          BY <2>3, <2>11 DEF Stage, Step, Holding, Read, JobInv
    <3>3. UpToDate(s)'
          BY <2>1, <2>4, <3>1, <3>2 DEF UpToDate, OnlyJobs, AllReadable, Readable, Ref
    <3> QED BY <2>5, <2>6, <3>1, <3>2, <3>3 DEF JobInv
  <2>12. CASE Release(s)
    <3> DEFINE staged == [context |-> jobs[s].context, saw |-> ReadableRefs]
    <3>1. /\ staged \in Candidate
          /\ staged.context = old.context /\ staged.saw = ReadableRefs
          BY <2>3, RefTyped DEF Candidate, JobRow, ReadableRefs
    <3> HIDE DEF staged
    <3>2. new.batch = old.batch /\ new.staged = staged /\ new.context = old.context
          BY <2>3, <2>12 DEF Release, JobRow, staged
    <3>3. Holding(s) /\ UpToDate(s)
          BY <2>3, <2>12 DEF Release, Holding, Read, JobInv
    <3>4. UpToDate(s)'
          BY <2>1, <2>4, <3>1, <3>2, <3>3
             DEF UpToDate, OnlyJobs, AllReadable, Readable, Ref, ReadableRefs
    <3> QED BY <2>5, <2>6, <3>2, <3>3, <3>4 DEF JobInv
  <2>13. CASE Abandon(s)
    <3>1. /\ new.step = "pending"
          /\ new.batch = IF old.step = "drafted" THEN NoBatch ELSE old.batch
          BY <2>3, <2>13 DEF Abandon, JobRow
    <3>2. Holding(s)' => Holding(s) /\ new.batch = old.batch
          BY <2>2, <3>1 DEF Holding, Read, Live
    <3> QED BY <2>5, <2>6, <3>1, <3>2 DEF JobInv, Read
  <2> QED BY <1>2, <2>8, <2>9, <2>10, <2>11, <2>12, <2>13 DEF Aggregate
<1> QED BY <1>1, <1>2

\* No reference of a live job belongs to a document under a command.
LEMMA LivePlanned ==
    ASSUME Typed, AllJobs, NEW s \in DOMAIN jobs, Live(s)
    PROVE  /\ Unbarred
           /\ jobs[s].refs # {} /\ jobs[s].refs \in SUBSET RefSet
           /\ \A ref \in jobs[s].refs : /\ record[ref.record].state = "live"
                                        /\ command[ref.record] = "none"
                                        /\ ref.record \in Record
BY DEF AllJobs, JobInv, Planned, Typed, JobRow, RefSet

LEMMA AllJobsStep ==
    ASSUME Typed, Rows, History, AllJobs, [Next]_vars
    PROVE  AllJobs'
<1>0. /\ EvidenceTyped' /\ record \in [Record -> RecordRow]
      /\ \A s \in DOMAIN jobs : jobs[s] \in JobRow
      BY EvidenceStep DEF Typed
<1>1. ASSUME Supersede PROVE AllJobs'
      BY <1>1, SupersedeTyped, JobOver DEF AllJobs
<1>2. ASSUME NEW s \in DOMAIN jobs, jobs'[s] = jobs[s], ~Live(s) PROVE JobInv(s)'
      BY <1>2, JobOver DEF Live
<1>3. ASSUME NEW s \in DOMAIN jobs, jobs'[s] = jobs[s],
             UNCHANGED <<record, command, cleanup>>,
             generation' = generation \/ generation' = generation + 1
      PROVE  JobInv(s)'
  <2>1. CASE Live(s)
    <3> DEFINE refs == jobs[s].refs
    <3>1. /\ Unbarred' /\ refs \in SUBSET RefSet
          /\ \A ref \in refs : record'[ref.record].state = "live" /\ command'[ref.record] = "none"
          BY <1>3, <2>1, LivePlanned DEF Unbarred
    <3>2. /\ AllReadable(jobs[s].refs)' <=> AllReadable(jobs[s].refs)
          /\ \A ref \in RefSet : Readable(ref) <=> Readable(ref)'
          /\ ReadableRefs' = ReadableRefs
          BY <1>3 DEF AllReadable, Readable, ReadableRefs, Ref
    <3> QED BY <1>3, <2>1, <3>1, <3>2, JobKept DEF AllReadable
  <2> QED BY <1>2, <1>3, <2>1
<1>4. ASSUME UNCHANGED <<record, command, cleanup, jobs>>,
             generation' = generation \/ generation' = generation + 1
      PROVE  AllJobs'
      BY <1>3, <1>4 DEF AllJobs
<1>5. ASSUME NEW r \in Record, Upload(r) PROVE AllJobs'
  <2>1. /\ record[r].state = "absent" /\ UNCHANGED <<cleanup, generation, jobs>>
        /\ \A q \in Record \ {r} : command'[q] = command[q]
        BY <1>5 DEF Upload, Typed
  <2>2. \A q \in Record \ {r} : record'[q] = record[q]
        BY <1>5, RowMoves DEF UploadRow
  <2>3. /\ \A ref \in RefSet : Readable(ref)' <=> Readable(ref)
        /\ ReadableRefs' = ReadableRefs
        BY <1>5, UploadReads
  <2> SUFFICES ASSUME NEW s \in DOMAIN jobs PROVE JobInv(s)'
      BY <2>1 DEF AllJobs
  <2>4. CASE Live(s)
    <3>0. PICK refs \in SUBSET RefSet : refs = jobs[s].refs
          BY <2>4, LivePlanned
    <3>1. /\ Unbarred' /\ refs \in SUBSET RefSet
          /\ \A ref \in refs : record'[ref.record].state = "live" /\ command'[ref.record] = "none"
          BY <2>1, <2>2, <2>4, <3>0, LivePlanned DEF Unbarred
    <3>2. \A ref \in refs : Readable(ref)' <=> Readable(ref)
          BY <2>3, <3>1
    <3>3. AllReadable(refs)' <=> AllReadable(refs)
          BY <3>2 DEF AllReadable
    <3> QED BY <2>1, <2>3, <2>4, <3>1, <3>3, <3>0, JobKept
  <2> QED BY <1>2, <2>1, <2>4
<1>6. ASSUME NEW r \in Record, PublishBase(r) PROVE AllJobs'
  <2>1. /\ command[r] # "none" /\ command'[r] = "none" /\ UNCHANGED cleanup
        /\ Unbarred /\ Invalidate /\ PlanFor({r}, record')
        /\ \A q \in Record \ {r} : command'[q] = command[q]
        BY <1>6 DEF PublishBase, Typed
  <2>2. /\ \A q \in Record \ {r} : record'[q] = record[q]
        /\ PublishRow(r, r)
        BY <1>6, RowMoves DEF PublishRow
  <2> DEFINE rs == {r}
  <2>3. /\ rs \in SUBSET Record /\ PlanFor(rs, record') /\ \A q \in rs : command'[q] = "none"
        BY <2>1
  <2> HIDE DEF rs
  <2>4. DOMAIN jobs \subseteq DOMAIN jobs' /\ \A s \in DOMAIN jobs : jobs'[s] = jobs[s]
        BY <1>0, <2>3, PlanTyped DEF EvidenceTyped
  <2> SUFFICES ASSUME NEW s \in DOMAIN jobs' PROVE JobInv(s)'
      BY DEF AllJobs
  <2>5. CASE s \notin DOMAIN jobs
        BY <1>0, <2>1, <2>3, <2>5, JobPlanned DEF EvidenceTyped, Unbarred
  <2>6. CASE s \in DOMAIN jobs /\ Live(s)
    <3>0. PICK refs \in SUBSET RefSet : refs = jobs[s].refs
          BY <2>6, LivePlanned
    <3>1. refs \in SUBSET RefSet /\ \A ref \in refs : ref.record \in Record \ {r}
          BY <2>1, <2>6, <3>0, LivePlanned
    <3>2. \A ref \in refs : record'[ref.record] = record[ref.record]
          BY <2>2, <3>1
    <3>3. \A ref \in refs : record'[ref.record].state = "live" /\ command'[ref.record] = "none"
          BY <2>1, <2>6, <3>1, <3>2, <3>0, LivePlanned
    <3>4. ASSUME NEW ref \in RefSet, Readable(ref) PROVE Readable(ref)'
      <4>1. CASE ref.record = r
            BY <2>2, <3>4, <4>1 DEF PublishRow, Keeps, Readable, Eligible, Ref
      <4>2. CASE ref.record # r
            BY <2>2, <3>4, <4>2, SameRow DEF RefSet
      <4> QED BY <4>1, <4>2
    <3>5. \A ref \in refs : Readable(ref)' <=> Readable(ref)
          BY <3>1, <3>2, SameRow
    <3>6. Unbarred' /\ generation' = generation + 1
          BY <2>1 DEF Unbarred, Invalidate
    <3>7. AllReadable(refs)' <=> AllReadable(refs)
          BY <3>5 DEF AllReadable
    <3> QED BY <2>4, <2>6, <3>1, <3>3, <3>4, <3>6, <3>7, <3>0, JobKept
  <2> QED BY <1>2, <2>4, <2>5, <2>6
<1>7. ASSUME FinishErasure PROVE AllJobs'
  <2>1. /\ cleanup.stage = "rebuilding" /\ Invalidate /\ PlanFor(cleanup.of, record')
        /\ UNCHANGED command /\ Unbarred' /\ ~Unbarred
        BY <1>7 DEF FinishErasure, Unbarred
  <2>2. cleanup.of \in SUBSET Record /\ \A r \in cleanup.of : command'[r] = "none"
        BY <2>1 DEF Typed, Rows
  <2> DEFINE rs == cleanup.of
  <2>3. /\ rs \in SUBSET Record /\ PlanFor(rs, record') /\ \A q \in rs : command'[q] = "none"
        BY <2>1, <2>2
  <2> HIDE DEF rs
  <2>4. DOMAIN jobs \subseteq DOMAIN jobs' /\ \A s \in DOMAIN jobs : jobs'[s] = jobs[s]
        BY <1>0, <2>3, PlanTyped DEF EvidenceTyped
  <2>5. \A s \in DOMAIN jobs : ~Live(s)
        BY <2>1 DEF AllJobs, JobInv
  <2> SUFFICES ASSUME NEW s \in DOMAIN jobs' PROVE JobInv(s)'
      BY DEF AllJobs
  <2>6. CASE s \notin DOMAIN jobs
        BY <1>0, <2>1, <2>3, <2>6, JobPlanned DEF EvidenceTyped
  <2> QED BY <1>2, <2>4, <2>5, <2>6
<1>8. ASSUME Sanitize PROVE AllJobs'
  <2>1. \A s \in DOMAIN jobs : ~Live(s)
        BY <1>8 DEF AllJobs, JobInv, Rows, Sanitize
  <2>2. DOMAIN jobs' = DOMAIN jobs
        BY <1>8 DEF Sanitize
  <2> SUFFICES ASSUME NEW s \in DOMAIN jobs PROVE JobInv(s)'
      BY <2>2 DEF AllJobs
  <2>3. jobs'[s] \in {jobs[s], [jobs[s] EXCEPT !.batch = NoBatch]}
        BY <1>8 DEF Sanitize
  <2>4. jobs'[s].step = jobs[s].step
        BY <1>0, <2>3 DEF JobRow
  <2> QED BY <2>1, <2>4, JobOver DEF Live
<1>9. ASSUME FinishDeletion PROVE AllJobs'
  <2>1. \A s \in DOMAIN jobs : ~Live(s) /\ jobs'[s] = jobs[s]
        BY <1>9 DEF AllJobs, JobInv, FinishDeletion, Unbarred
  <2> QED BY <1>2, <1>9, <2>1 DEF AllJobs, FinishDeletion
<1>10. ASSUME AssociatePerson PROVE AllJobs'
  <2>1. UNCHANGED <<command, cleanup, jobs>> /\ generation' = generation + 1
        BY <1>10 DEF AssociatePerson, Invalidate
  <2> SUFFICES ASSUME NEW s \in DOMAIN jobs PROVE JobInv(s)'
      BY <2>1 DEF AllJobs
  <2>2. CASE Live(s)
    <3>0. PICK refs \in SUBSET RefSet : refs = jobs[s].refs
          BY <2>2, LivePlanned
    <3>1. /\ Unbarred' /\ refs \in SUBSET RefSet /\ refs # {}
          /\ \A ref \in refs : record[ref.record].state = "live" /\ command'[ref.record] = "none"
                               /\ ref.record \in Record
          BY <2>1, <2>2, <3>0, LivePlanned DEF Unbarred
    <3>2. \A ref \in refs : /\ record'[ref.record].state = "live"
                            /\ record'[ref.record].quarantined
          BY <1>10, <3>1, RowMoves DEF AssociatedRow, Keeps
    <3>3. ~AllReadable(refs)'
          BY <3>1, <3>2 DEF AllReadable, Readable, Eligible
    <3> QED BY <2>1, <2>2, <3>1, <3>2, <3>3, <3>0, JobKept
  <2> QED BY <1>2, <2>1, <2>2
<1>11. ASSUME NEW s \in DOMAIN jobs, Aggregate(s) PROVE AllJobs'
  <2>1. UNCHANGED <<record, command, cleanup, generation>>
        BY <1>11 DEF Aggregate, Begin, TakeContext, Resume, Draft, Stage, Release, Publish,
                     Abandon, OnlyJobs
  <2>2. DOMAIN jobs' = DOMAIN jobs /\ \A t \in DOMAIN jobs \ {s} : jobs'[t] = jobs[t]
        BY <1>11, AggregateTyped DEF Aggregate, JobMoved
  <2> SUFFICES ASSUME NEW t \in DOMAIN jobs PROVE JobInv(t)'
      BY <2>2 DEF AllJobs
  <2>3. CASE t = s
        BY <1>11, <2>3, JobMoves
  <2>4. CASE t # s
        BY <1>3, <2>1, <2>2, <2>4
  <2> QED BY <2>3, <2>4
<1>12. ASSUME \E r \in Record : Activate(r) \/ Deactivate(r) \/ Delete(r) PROVE AllJobs'
       BY <1>1, <1>12 DEF Activate, Deactivate, Delete, Commanded
<1>13. ASSUME Erase PROVE AllJobs'
       BY <1>1, <1>13 DEF Erase
<1>14. ASSUME Decide PROVE AllJobs'
       BY <1>4, <1>14 DEF Decide, Invalidate
<1>15. ASSUME UNCHANGED vars PROVE AllJobs'
       BY <1>4, <1>15 DEF vars
<1> QED BY <1>5, <1>6, <1>7, <1>8, <1>9, <1>10, <1>11, <1>12, <1>13, <1>14, <1>15
        DEF Next, Aggregate

-----------------------------------------------------------------------------
(* The overview. *)

LEMMA OverviewStep ==
    ASSUME Typed, Rows, AllJobs, OverviewCurrent, [Next]_vars
    PROVE  OverviewCurrent'
<1>1. CASE overview' = NoOverview
      BY <1>1 DEF OverviewCurrent
<1>2. CASE UNCHANGED <<overview, record>>
      BY <1>2 DEF OverviewCurrent, ReadableRefs, Ref
<1>3. ASSUME NEW r \in Record, Upload(r) PROVE OverviewCurrent'
  <2>1. UNCHANGED overview
        BY <1>3 DEF Upload
  <2> QED BY <1>3, <2>1, UploadReads DEF OverviewCurrent
<1>4. ASSUME NEW s \in DOMAIN jobs, Publish(s) PROVE OverviewCurrent'
  <2>1. /\ jobs[s].step = "released" /\ jobs[s].staged.context = generation
        /\ overview' = jobs[s].staged /\ UNCHANGED record
        BY <1>4 DEF Publish, Stands
  <2>2. UpToDate(s)
        BY <2>1 DEF AllJobs, JobInv, Read
  <2>3. jobs[s].staged.saw = ReadableRefs
        BY <2>1, <2>2 DEF UpToDate
  <2>4. ReadableRefs' = ReadableRefs
        BY <2>1 DEF ReadableRefs, Ref
  <2> QED BY <2>1, <2>3, <2>4 DEF OverviewCurrent
<1>5. CASE \E r \in Record : Activate(r) \/ Deactivate(r) \/ Delete(r) \/ PublishBase(r)
      BY <1>1, <1>5 DEF Activate, Deactivate, Delete, Commanded, PublishBase, Invalidate
<1>6. CASE Erase \/ Sanitize \/ FinishErasure \/ AssociatePerson \/ Decide
      BY <1>1, <1>6 DEF Erase, Sanitize, FinishErasure, AssociatePerson, Decide, Invalidate
<1>7. CASE FinishDeletion \/ UNCHANGED vars
      BY <1>2, <1>7 DEF FinishDeletion, vars
<1>8. CASE \E s \in DOMAIN jobs : Aggregate(s) /\ ~Publish(s)
      BY <1>2, <1>8 DEF Aggregate, Begin, TakeContext, Resume, Draft, Stage, Release, Abandon,
                        OnlyJobs
<1> QED BY <1>3, <1>4, <1>5, <1>6, <1>7, <1>8 DEF Next, Aggregate

-----------------------------------------------------------------------------
(* The theorems. *)

LEMMA KnowledgeInit == Init => KnowledgeInv
<1> SUFFICES ASSUME Init PROVE KnowledgeInv
    OBVIOUS
<1>1. ASSUME NEW r \in Record
      PROVE  /\ record[r] \in RecordRow /\ record[r].version = 1
             /\ record[r].state \in {"absent", "live"}
             /\ record[r].state = "absent" => ~record[r].published
             /\ command[r] = "none"
  <2>1. command[r] = "none"
        BY DEF Init
  <2>2. CASE r \in Present
    <3>1. record[r] = [state |-> "live", version |-> 1, active |-> TRUE,
                       published |-> TRUE, quarantined |-> FALSE]
          BY <2>2 DEF Init
    <3> QED BY <2>1, <3>1 DEF RecordRow
  <2>3. CASE r \notin Present
    <3> DEFINE shown == r \in Present
    <3>1. record[r] = [state |-> "absent", version |-> 1, active |-> shown,
                       published |-> shown, quarantined |-> FALSE]
          BY <2>3 DEF Init
    <3>2. shown \in BOOLEAN /\ ~shown
          BY <2>3
    <3> HIDE DEF shown
    <3> QED BY <2>1, <3>1, <3>2 DEF RecordRow
  <2> QED BY <2>2, <2>3
<1>2. /\ cleanup.kind = "none" /\ cleanup.stage = "none" /\ cleanup.of = {}
      /\ generation = 0 /\ overview = NoOverview
      BY DEF Init
<1>3. topic \in SUBSET RefSet
      BY KnowledgeAssumption DEF Init, RefSet
<1>4. ASSUME NEW e \in history
      PROVE  /\ e \in Event
             /\ \E r \in Present : e = BaseEvent(r, 1, 0)
  <2>1. PICK r \in Present : e = BaseEvent(r, 1, 0)
        BY DEF Init
  <2>2. e \in Event
        BY <2>1, BaseTyped, KnowledgeAssumption
  <2> QED BY <2>1, <2>2
<1>5. /\ DOMAIN jobs = {0} /\ jobs[0].step = "completed" /\ jobs[0].context = 0
      /\ jobs \in [DOMAIN jobs -> JobRow]
  <2> DEFINE batch == [deps |-> topic, proposed |-> {}]
             row == [refs |-> topic, step |-> "completed", context |-> 0,
                     batch |-> batch, staged |-> NoOverview]
  <2>1. batch \in Batch
        BY <1>3 DEF Batch
  <2> HIDE DEF batch
  <2>2. row \in JobRow /\ row.step = "completed" /\ row.context = 0
        BY <1>3, <2>1 DEF JobRow, Steps
  <2>3. jobs = [s \in {0} |-> row]
        BY DEF Init, batch
  <2> HIDE DEF row
  <2> QED BY <2>2, <2>3
<1>6. Typed
  <2>1. record \in [Record -> RecordRow]
    <3>1. \A r \in Record : record[r] \in RecordRow
          BY <1>1
    <3> QED BY <3>1 DEF Init
  <2>2. /\ command \in [Record -> {"none", "ingest", "activate", "deactivate", "delete"}]
        /\ cleanup \in [kind : {"none", "erase", "delete"}, of : SUBSET Record,
                        stage : {"none", "draining", "rebuilding"}]
        BY DEF Init
  <2> QED BY <1>2, <1>3, <1>4, <1>5, <2>1, <2>2, KnowledgeAssumption DEF Typed
<1>7. Rows
      BY <1>1, <1>2 DEF Rows, Unbarred
<1>8. History
  <2>1. UniqueIds(history)
    <3> SUFFICES ASSUME NEW e \in history, NEW f \in history, e.id = f.id PROVE e = f
        BY DEF UniqueIds
    <3>1. PICK q \in Present : e = BaseEvent(q, 1, 0)
          BY <1>4
    <3>2. PICK r \in Present : f = BaseEvent(r, 1, 0)
          BY <1>4
    <3>3. e.id.of = q /\ f.id.of = r
          BY <3>1, <3>2 DEF BaseEvent
    <3> QED BY <3>1, <3>2, <3>3
  <2>2. \A ref \in topic : ref.version = 1 /\ ref.record \in Present
        BY DEF Init
  <2>3. ASSUME NEW ref \in RefSet, ref.version = 1 PROVE ~Erased(ref)
        BY <1>1, <2>3 DEF Erased, RefSet
  <2>4. ASSUME NEW e \in history PROVE Wellformed(e) /\ Rests(e) /\ ~Consequential(e)
    <3>1. PICK r \in Present : e = BaseEvent(r, 1, 0)
          BY <1>4
    <3>2. /\ e.id.from = "record" /\ e.id.n = 0 /\ e.review = "passed"
          /\ e.human = "not_required" /\ e.evidence = {[record |-> r, version |-> 1]}
          BY <3>1 DEF BaseEvent
    <3>3. \A ref \in e.evidence : ref \in RefSet /\ ref.version = 1
          BY <3>2, KnowledgeAssumption DEF RefSet
    <3> QED BY <1>2, <2>3, <3>2, <3>3 DEF Wellformed, Rests, Consequential
  <2> QED BY <1>3, <2>1, <2>2, <2>3, <2>4 DEF History
<1>9. AllJobs
      BY <1>5 DEF AllJobs, JobInv, Holding, Read, Live
<1> QED BY <1>2, <1>6, <1>7, <1>8, <1>9 DEF KnowledgeInv, OverviewCurrent

LEMMA KnowledgeStep == KnowledgeInv /\ [Next]_vars => KnowledgeInv'
BY TypedStep, RowsStep, HistoryStep, AllJobsStep, OverviewStep DEF KnowledgeInv

\* The invariant holds of every behaviour.
THEOREM KnowledgeInvariant == Spec => []KnowledgeInv
BY KnowledgeInit, KnowledgeStep, PTL DEF Spec

\* The state keeps its kinds; an id names one event; the verdict readers go by
\* is the administrator's (decide_stale_review, _apply_batches).
THEOREM KnowledgeTypes == Spec => []KnowledgeTypeOK
<1>1. KnowledgeInv => KnowledgeTypeOK
  <2> SUFFICES ASSUME KnowledgeInv PROVE KnowledgeTypeOK
      OBVIOUS
  <2>1. Typed /\ History
        BY DEF KnowledgeInv
  <2>2. generation \in 0 .. MaxGeneration
        BY <2>1, KnowledgeAssumption DEF Typed
  <2>3. /\ DOMAIN jobs \subseteq 0 .. MaxGeneration
        /\ \A s \in DOMAIN jobs : jobs[s].context \in 0 .. generation
    <3> SUFFICES ASSUME NEW s \in DOMAIN jobs
                 PROVE  s \in 0 .. MaxGeneration /\ jobs[s].context \in 0 .. generation
        OBVIOUS
    <3>1. s \in Nat /\ s <= generation /\ jobs[s].context <= generation /\ jobs[s] \in JobRow
          BY <2>1 DEF Typed
    <3> QED BY <2>2, <3>1, KnowledgeAssumption DEF JobRow
  <2>4. ASSUME NEW e \in history
        PROVE  /\ e.evidence \subseteq RefSet
               /\ Consequential(e) => /\ e.review = "passed" <=> e.human = "approved"
                                      /\ e.review = "pending" <=> e.human = "pending"
    <3>1. e \in Event /\ Wellformed(e)
          BY <2>1 DEF Typed, History
    <3> QED BY <3>1 DEF Event, Wellformed, Consequential
  <2>5. overview # NoOverview => overview.saw \subseteq RefSet
        BY <2>1 DEF Typed, Candidate
  <2>6. \A e, f \in history : e.id = f.id => e = f
        BY <2>1 DEF History, UniqueIds
  <2>7. cleanup.of \subseteq Record /\ topic \subseteq RefSet
        BY <2>1 DEF Typed
  <2> QED BY <2>1, <2>2, <2>3, <2>4, <2>5, <2>6, <2>7 DEF KnowledgeTypeOK, Typed, RecordRow
<1> QED BY <1>1, KnowledgeInvariant, PTL

\* The overview a project shows was written with exactly those records readable
\* that are readable now (get_overview, release_overview, publish).
THEOREM OverviewIsCurrent == Spec => []OverviewCurrent
<1>1. KnowledgeInv => OverviewCurrent
      BY DEF KnowledgeInv
<1> QED BY <1>1, KnowledgeInvariant, PTL

\* Nothing kept rests on what a cleanup took away, and no job brings it back
\* (prepare_cleanup, _apply_batches).
THEOREM ErasedStaysOut == Spec => []NothingOfErased
<1>1. KnowledgeInv => NothingOfErased
  <2> SUFFICES ASSUME KnowledgeInv PROVE NothingOfErased
      OBVIOUS
  <2>1. ASSUME NEW ref \in ReadableRefs PROVE ~Erased(ref)
    <3>1. PICK q \in Record : Eligible(record[q]) /\ ref = Ref(q)
          BY DEF ReadableRefs
    <3>2. record[q] \in RecordRow
          BY DEF KnowledgeInv, Typed
    <3> QED BY <3>1, <3>2 DEF Erased, Eligible, Ref, RecordRow
  <2>2. overview # NoOverview => \A ref \in overview.saw : ~Erased(ref)
        BY <2>1 DEF KnowledgeInv, OverviewCurrent
  <2> QED BY <2>2 DEF KnowledgeInv, History, Rests, NothingOfErased
<1> QED BY <1>1, KnowledgeInvariant, PTL

\* The event of a record outlives the proposals that would supersede it, so
\* that a review of them can name both sides (_stale_review).
THEOREM BasePriorsStay == Spec => []BasePriorsKept
<1>1. KnowledgeInv => BasePriorsKept
      BY DEF KnowledgeInv, History, PriorKept, BasePriorsKept
<1> QED BY <1>1, KnowledgeInvariant, PTL

\* What readers see of a proposal an administrator approved, with this prior
\* and this evidence (decide_stale_review, read_history).
THEOREM SeenAsApproved == Spec => []ApprovedAsShown
<1>1. KnowledgeInv => ApprovedAsShown
      BY DEF KnowledgeInv, History, Wellformed, ApprovedAsShown, Known, Consequential
<1> QED BY <1>1, KnowledgeInvariant, PTL

\* A proposal enters the history while everything it cites may be read
\* (release_overview, publish).
THEOREM DraftedOfReadable == Spec => ProposalsOfReadable
<1> DEFINE Entering ==
             \A e \in history' :
                (Consequential(e) /\ \A f \in history : Shown(f) # Shown(e))
                   => \A ref \in e.evidence : Readable(ref)
<1>1. KnowledgeInv /\ [Next]_vars => [Entering]_vars
  <2> SUFFICES ASSUME KnowledgeInv, Next, NEW e \in history', e \notin history, Consequential(e),
                      \A f \in history : Shown(f) # Shown(e)
               PROVE  AllReadable(e.evidence)
      BY DEF AllReadable
  <2>1. Typed /\ AllJobs
        BY DEF KnowledgeInv
  <2>2. ASSUME NEW r \in Record, PublishBase(r) PROVE FALSE
        BY <2>2 DEF PublishBase, BaseEvent, Consequential
  <2>3. ASSUME FinishErasure PROVE FALSE
    <3>1. PICK new \in SUBSET {BaseEvent(r, record'[r].version, generation + 1) :
                                 r \in cleanup.of} :
             history' = history \cup new
          BY <2>3 DEF FinishErasure
    <3>2. PICK r \in cleanup.of : e = BaseEvent(r, record'[r].version, generation + 1)
          BY <3>1
    <3> QED BY <3>2 DEF BaseEvent, Consequential
  <2>4. ASSUME NEW s \in DOMAIN jobs, Publish(s) PROVE AllReadable(e.evidence)
    <3>1. e \in jobs[s].batch.proposed
          BY <2>4 DEF Publish, Merged
    <3>2. jobs[s].step = "released" /\ jobs[s].staged.context = generation
          BY <2>4 DEF Publish, Stands
    <3>3. Kept(s) /\ UpToDate(s)
          BY <2>1, <3>2 DEF AllJobs, JobInv, Holding, Read
    <3> QED BY <3>1, <3>2, <3>3 DEF Kept, UpToDate
  <2>5. CASE Decide
    <3>1. PICK d \in history, approve \in BOOLEAN : history' = Merged({Decided(d, approve)})
          BY <2>5 DEF Decide
    <3>2. e = Decided(d, approve)
          BY <3>1 DEF Merged
    <3>3. Shown(e) = Shown(d)
          BY <2>1, <3>2, DecidedTyped DEF Shown, Typed
    <3> QED BY <3>3
  <2>6. CASE \E r \in Record : Upload(r) \/ Activate(r) \/ Deactivate(r) \/ Delete(r)
        BY <2>6 DEF Upload, Activate, Deactivate, Delete, Commanded
  <2>7. CASE Erase \/ Sanitize \/ FinishDeletion \/ AssociatePerson
        BY <2>7 DEF Erase, Sanitize, FinishDeletion, AssociatePerson
  <2>8. CASE \E s \in DOMAIN jobs : Aggregate(s) /\ ~Publish(s)
        BY <2>8 DEF Aggregate, Begin, TakeContext, Resume, Draft, Stage, Release, Abandon, OnlyJobs
  <2> QED BY <2>2, <2>3, <2>4, <2>5, <2>6, <2>7, <2>8 DEF Next, Aggregate
<1> QED BY <1>1, KnowledgeInvariant, PTL DEF Spec, ProposalsOfReadable
=============================================================================
