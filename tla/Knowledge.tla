------------------------------ MODULE Knowledge ------------------------------
(***************************************************************************)
(* What a project knows beyond its records: the topic summaries, the       *)
(* overview and the decision history, which aggregate jobs rebuild after   *)
(* every publication (evidence/service.py, evidence/jobs.py and            *)
(* MaintenanceHandlers.rebuild_affected of intelligence/maintenance.py),   *)
(* and the proposals of that history which an administrator approves or    *)
(* rejects (decide_stale_review).                                          *)
(*                                                                         *)
(* Every document holds one record.  The base jobs that publish records    *)
(* are module Jobs; here each is one command that may be published or not. *)
(* An aggregate job is followed transaction by transaction, for it reads a *)
(* snapshot in one, drafts outside of any, and stages, releases and        *)
(* publishes in three more, while commands, publications, associations     *)
(* and decisions go on.  A lifecycle command ends every aggregate job: no  *)
(* capability of an older lifecycle revision is accepted (_cap), and       *)
(* _reschedule_stale never resumes one of this kind.                       *)
(*                                                                         *)
(* One topic and one scope; an event cites one span of its own record, and *)
(* a rebuild drafts at most one proposal, of one kind.  The vectors of a   *)
(* record are module Worker, the text of summaries is left out.            *)
(***************************************************************************)
EXTENDS Integers, FiniteSets

CONSTANTS
    Record,          \* the records, one per document
    Mentioning,      \* those in which the person occurs who may be erased
    Present,         \* those that are published when the behaviour begins
    MaxGeneration,   \* bound: corpus generations
    NoEvent, NoBatch, NoOverview

ASSUME KnowledgeAssumption ==
    /\ Mentioning \subseteq Record
    /\ Present \subseteq Record
    /\ MaxGeneration \in Nat

VARIABLES
    record,       \* the row of each record and of its document
    command,      \* the base job of each document that is not yet published
    cleanup,      \* the erasure or deletion that holds the write barrier
    generation,   \* corpus_generation
    topic,        \* the versions the topic summary rests on
    overview,     \* the released overview
    history,      \* the history events
    jobs,         \* the rebuild_aggregate jobs, by the snapshot of their plan
    approved      \* history: every proposal as an administrator approved it

vars == <<record, command, cleanup, generation, topic, overview, history,
          jobs, approved>>

-----------------------------------------------------------------------------
(* Evidence. *)

Ref(r) == [record |-> r, version |-> record[r].version]

(* Whether a record may be read (_record). *)
Eligible(row) ==
    /\ row.state = "live"
    /\ row.active
    /\ row.published
    /\ ~row.quarantined

(* Whether a reference still resolves (_dependency, _receipt). *)
Readable(ref) == Eligible(record[ref.record]) /\ ref = Ref(ref.record)

ReadableRefs == {Ref(r) : r \in {q \in Record : Eligible(record[q])}}

(* Whether a staged dependency holds (_dependency with staged=True). *)
Current(ref) == record[ref.record].state # "gone" /\ ref = Ref(ref.record)

Consequential(e) == e.id.from = "proposal"

(* The events another reader may see (read_history). *)
Known(e) ==
    /\ e.review = "passed"
    /\ Consequential(e) => e.human = "approved"
    /\ \A ref \in e.evidence : Readable(ref)

Candidates == {e \in history : Known(e)}

(* What an administrator is shown, and what a decision is about. *)
Shown(e) == [id |-> e.id, prior |-> e.prior, evidence |-> e.evidence]

-----------------------------------------------------------------------------
(* What process_record proposed of a record: events that supersede nothing. *)
BaseEvent(r, version, n) ==
    [id |-> [from |-> "record", of |-> r, n |-> n],
     prior |-> NoEvent,
     evidence |-> {[record |-> r, version |-> version]},
     review |-> "passed", human |-> "not_required"]

(* A project whose first records are published, each with one event; what    *)
(* was rebuilt of them found nothing to propose.                             *)
Init ==
    /\ record = [r \in Record |->
                   [state |-> IF r \in Present THEN "live" ELSE "absent",
                    version |-> 1, active |-> r \in Present,
                    published |-> r \in Present, quarantined |-> FALSE]]
    /\ command = [r \in Record |-> "none"]
    /\ cleanup = [kind |-> "none", of |-> {}, stage |-> "none"]
    /\ generation = 0
    /\ topic = {[record |-> r, version |-> 1] : r \in Present}
    /\ overview = NoOverview
    /\ history = {BaseEvent(r, 1, 0) : r \in Present}
    /\ jobs = [s \in {0} |->
                 [refs |-> topic, step |-> "completed", context |-> 0,
                  batch |-> [deps |-> topic, proposed |-> {}],
                  staged |-> NoOverview]]
    /\ approved = {}

(* _invalidate: nothing that was released of the last corpus is shown again. *)
Invalidate ==
    /\ generation < MaxGeneration
    /\ generation' = generation + 1
    /\ overview' = NoOverview

(* The end of every job of an older lifecycle revision (_cap, _check). *)
Supersede ==
    jobs' = [s \in DOMAIN jobs |->
               IF jobs[s].step = "completed" THEN jobs[s]
               ELSE [jobs[s] EXCEPT
                       !.step = "superseded", !.context = 0,
                       !.staged = NoOverview,
                       !.batch = IF jobs[s].step = "drafted" THEN NoBatch ELSE @]]

(* publish: the aggregate job that follows the publication of rs. *)
PlanFor(rs, rows) ==
    LET refs == {[record |-> r, version |-> rows[r].version] :
                   r \in {q \in rs : Eligible(rows[q])}}
    IN  jobs' = IF refs = {} THEN jobs
                ELSE [s \in DOMAIN jobs \cup {generation + 1} |->
                        IF s \in DOMAIN jobs THEN jobs[s]
                        ELSE [refs |-> refs, step |-> "pending", context |-> 0,
                              batch |-> NoBatch, staged |-> NoOverview]]

-----------------------------------------------------------------------------
(* The documents and their commands. *)

Unbarred == cleanup.kind = "none"

(* submit_upload. *)
Upload(r) ==
    /\ Unbarred
    /\ record[r].state = "absent"
    /\ record' = [record EXCEPT ![r].state = "live", ![r].active = TRUE]
    /\ command' = [command EXCEPT ![r] = "ingest"]
    /\ UNCHANGED <<cleanup, generation, topic, overview, history, jobs, approved>>

(* mutate_document: the commands of one document go one after another. *)
Commanded(r, kind) ==
    /\ Unbarred
    /\ record[r].state = "live"
    /\ command[r] \in {"none", "ingest"}
    /\ command' = [command EXCEPT ![r] = kind]
    /\ Invalidate
    /\ Supersede
    /\ UNCHANGED <<topic, history, approved>>

Activate(r) ==
    /\ Commanded(r, "activate")
    /\ record' = [record EXCEPT ![r].active = TRUE, ![r].published = FALSE]
    /\ UNCHANGED cleanup

Deactivate(r) ==
    /\ Commanded(r, "deactivate")
    /\ record' = [record EXCEPT ![r].active = FALSE]
    /\ UNCHANGED cleanup

Delete(r) ==
    /\ Commanded(r, "delete")
    /\ record' = [record EXCEPT ![r].state = "deleted", ![r].active = FALSE,
                                ![r].published = FALSE]
    /\ cleanup' = [kind |-> "delete", of |-> {r}, stage |-> "draining"]

(* erase_person, of the one person of the instance, once, who occurs somewhere. *)
Erase ==
    /\ Unbarred
    /\ \A r \in Record : record[r].version = 1
    /\ \E r \in Mentioning : record[r].state = "live"
    /\ LET affected == {r \in Mentioning : record[r].state = "live"}
       IN  /\ record' = [r \in Record |->
                           IF r \in affected
                           THEN [record[r] EXCEPT !.quarantined = TRUE]
                           ELSE record[r]]
           /\ cleanup' = [kind |-> "erase", of |-> affected,
                          stage |-> "draining"]
    /\ Invalidate
    /\ Supersede
    /\ UNCHANGED <<command, topic, history, approved>>

(* prepare_cleanup, the stage "sanitizing". *)
Sanitized(r) == [record[r] EXCEPT !.version = @ + 1, !.published = FALSE,
                                  !.quarantined = FALSE]

(* A pending upload cannot be shown to be free of the person who is erased.  *)
Unsanitized(r) == cleanup.kind = "erase" /\ command[r] = "ingest"

Touched(refs) == \E ref \in refs : ref.record \in cleanup.of

(* An event goes with any of its evidence; a bug: only with its own record. *)
RestsOnOwn(e) == e.id.of \in cleanup.of
RestsOn(e) == Touched(e.evidence)

Sanitize ==
    /\ cleanup.stage = "draining"
    /\ cleanup' = [cleanup EXCEPT !.stage = "rebuilding"]
    /\ record' = [r \in Record |->
                    IF r \notin cleanup.of THEN record[r]
                    ELSE IF cleanup.kind = "erase" THEN Sanitized(r)
                    ELSE [record[r] EXCEPT !.state = "gone"]]
    /\ command' = [r \in Record |->
                     IF r \in cleanup.of \/ Unsanitized(r) THEN "none" ELSE command[r]]
    /\ topic' = IF Touched(topic) THEN {} ELSE topic
    /\ overview' = NoOverview
    /\ history' = {e \in history : ~RestsOn(e)}
    /\ jobs' = [s \in DOMAIN jobs |->
                  IF jobs[s].batch # NoBatch /\ Touched(jobs[s].batch.deps)
                  THEN [jobs[s] EXCEPT !.batch = NoBatch] ELSE jobs[s]]
    /\ UNCHANGED <<generation, approved>>

-----------------------------------------------------------------------------
(* Publication of base records. *)

(* publish for ingest, activate and deactivate. *)
PublishBase(r) ==
    /\ Unbarred
    /\ command[r] # "none"
    /\ LET rows == IF command[r] = "deactivate" THEN record
                   ELSE [record EXCEPT ![r].published = TRUE,
                                       ![r].quarantined = FALSE]
       IN  /\ record' = rows
           /\ \E new \in {{}, {BaseEvent(r, rows[r].version, generation + 1)}} :
                 /\ command[r] = "deactivate" => new = {}
                 /\ history' = history \cup new
           /\ Invalidate
           /\ PlanFor({r}, rows)
    /\ command' = [command EXCEPT ![r] = "none"]
    /\ UNCHANGED <<cleanup, topic, approved>>

(* publish for an erasure, whose records all carry their new version. *)
FinishErasure ==
    /\ cleanup.kind = "erase"
    /\ cleanup.stage = "rebuilding"
    /\ LET rows == [r \in Record |->
                      IF r \in cleanup.of
                      THEN [record[r] EXCEPT !.published = TRUE,
                                             !.quarantined = FALSE]
                      ELSE record[r]]
       IN  /\ record' = rows
           /\ \E new \in SUBSET {BaseEvent(r, rows[r].version, generation + 1) :
                                   r \in cleanup.of} :
                 history' = history \cup new
           /\ Invalidate
           /\ PlanFor(cleanup.of, rows)
    /\ cleanup' = [kind |-> "none", of |-> {}, stage |-> "none"]
    /\ UNCHANGED <<command, topic, approved>>

(* publish for a deletion: nothing is invalidated and nothing rebuilt. *)
FinishDeletion ==
    /\ cleanup.kind = "delete"
    /\ cleanup.stage = "rebuilding"
    /\ cleanup' = [kind |-> "none", of |-> {}, stage |-> "none"]
    /\ UNCHANGED <<record, command, generation, topic, overview, history,
                   jobs, approved>>

(* associate_person with an existing person: every record is quarantined; a  *)
(* bug: nothing is invalidated.                                              *)
AssociateQuietly ==
    /\ Unbarred
    /\ record' = [r \in Record |->
                    IF record[r].state = "live"
                    THEN [record[r] EXCEPT !.quarantined = TRUE]
                    ELSE record[r]]
    /\ UNCHANGED <<command, cleanup, generation, topic, overview, history,
                   jobs, approved>>

AssociatePerson ==
    /\ Unbarred
    /\ record' = [r \in Record |->
                    IF record[r].state = "live"
                    THEN [record[r] EXCEPT !.quarantined = TRUE]
                    ELSE record[r]]
    /\ Invalidate
    /\ UNCHANGED <<command, cleanup, topic, history, jobs, approved>>

-----------------------------------------------------------------------------
(* Aggregate jobs. *)

Step(s, from, to) == jobs[s].step = from /\ jobs' = [jobs EXCEPT ![s].step = to]

OnlyJobs == UNCHANGED <<record, command, cleanup, generation, topic, overview,
                        history, approved>>

(* load_rebuild_plan and load_staged_artifacts: the plan is of this snapshot. *)
Begin(s) ==
    /\ Step(s, "pending", "planned")
    /\ s = generation
    /\ \A ref \in jobs[s].refs : Readable(ref)
    /\ OnlyJobs

(* published_context, a later transaction: its snapshot may be a newer one. *)
TakeContext(s) ==
    /\ jobs[s].step = "planned"
    /\ jobs' = [jobs EXCEPT ![s].context = generation, ![s].step = "reading"]
    /\ OnlyJobs

(* Reads under a WorkReadContext fail once its snapshot has passed. *)
Fresh(s) == jobs[s].context = generation

(* rebuild_affected reads every record of the plan, with a checkpoint too. *)
HasRead(s) ==
    /\ jobs[s].step = "reading"
    /\ Fresh(s)
    /\ \A ref \in jobs[s].refs : Readable(ref)

Resume(s) ==
    /\ HasRead(s)
    /\ jobs[s].batch # NoBatch
    /\ jobs' = [jobs EXCEPT ![s].step = "staged"]
    /\ OnlyJobs

(* _stale_proposals and _history: a proposal names the prior it supersedes,  *)
(* and carries the evidence of that prior beside its own.  Its id is stable: *)
(* it depends on the record and not on the prior.                            *)
(* A bug: the evidence of the prior is not added.                            *)
ProposalOfOwn(ref, prior, passed) ==
    [id |-> [from |-> "proposal", of |-> ref.record, n |-> ref.version],
     prior |-> prior.id,
     evidence |-> {ref},
     review |-> IF passed THEN "pending" ELSE "failed",
     human |-> IF passed THEN "pending" ELSE "not_required"]

Proposal(ref, prior, passed) ==
    [id |-> [from |-> "proposal", of |-> ref.record, n |-> ref.version],
     prior |-> prior.id,
     evidence |-> {ref} \cup prior.evidence,
     review |-> IF passed THEN "pending" ELSE "failed",
     human |-> IF passed THEN "pending" ELSE "not_required"]

(* At most one proposal, which the review of the draft may have failed.      *)
Proposals(s) ==
    {{}} \cup {{Proposal(ref, prior, passed)} :
                 ref \in jobs[s].refs, prior \in Candidates, passed \in BOOLEAN}

(* rebuild_affected, what is drafted under the context: a topic from the     *)
(* records of the plan, and perhaps a proposal about one of them.            *)
Draft(s) ==
    /\ HasRead(s)
    /\ jobs[s].batch = NoBatch
    /\ \E proposed \in Proposals(s) :
          jobs' = [jobs EXCEPT
                     ![s].step = "drafted",
                     ![s].batch = [deps |-> jobs[s].refs, proposed |-> proposed]]
    /\ OnlyJobs

(* stage_artifacts asks for the versions of the records, not for a snapshot. *)
Stage(s) ==
    /\ Step(s, "drafted", "staged")
    /\ \A ref \in jobs[s].batch.deps : Current(ref)
    /\ OnlyJobs

(* release_overview: the candidate, which is written and reviewed from what  *)
(* was readable in the context, is kept beside the job.                      *)
Release(s) ==
    /\ jobs[s].step = "staged"
    /\ Fresh(s)
    /\ jobs' = [jobs EXCEPT ![s].step = "released",
                            ![s].staged = [context |-> jobs[s].context,
                                           saw |-> ReadableRefs]]
    /\ OnlyJobs

(* _apply_batches: an event replaces whatever is kept under its id; a bug:   *)
(* the verdict that was given on that id stays.                              *)
MergedUnderVerdict(events) ==
    LET kept(f) == {e \in history : e.id = f.id}
    IN  {e \in history : \A f \in events : f.id # e.id}
        \cup {IF f.human = "pending" /\ \E e \in kept(f) : e.human = "approved"
              THEN [f EXCEPT !.human = "approved", !.review = "passed"] ELSE f :
                f \in events}
Merged(events) ==
    {e \in history : \A f \in events : f.id # e.id} \cup events

(* _validate_candidate, of the snapshot the candidate was written in; a bug: *)
(* only the versions are compared.                                           *)
StandsByVersion(s) == \A ref \in jobs[s].refs : Current(ref)
Stands(s) == jobs[s].staged.context = generation

(* publish for rebuild_aggregate, where the candidate is validated again. *)
Publish(s) ==
    /\ jobs[s].step = "released"
    /\ \A ref \in jobs[s].batch.deps : Current(ref)
    /\ Stands(s)
    /\ topic' = jobs[s].batch.deps
    /\ history' = Merged(jobs[s].batch.proposed)
    /\ overview' = jobs[s].staged
    /\ jobs' = [jobs EXCEPT ![s].step = "completed", ![s].context = 0,
                            ![s].staged = NoOverview]
    /\ UNCHANGED <<record, command, cleanup, generation, approved>>

(* A crash, or a failure that is retried (retry_job): what was staged stays. *)
Abandon(s) ==
    /\ jobs[s].step \in {"planned", "reading", "drafted", "staged", "released"}
    /\ jobs' = [jobs EXCEPT
                  ![s].step = "pending", ![s].context = 0,
                  ![s].batch = IF jobs[s].step = "drafted" THEN NoBatch ELSE @]
    /\ OnlyJobs

-----------------------------------------------------------------------------
(* Decisions. *)

EventOf(id) == CHOOSE e \in history : e.id = id

(* _stale_review: both sides of a proposal can be shown to the administrator. *)
Reviewable(e) ==
    /\ \E p \in history : p.id = e.prior
    /\ LET prior == EventOf(e.prior)
       IN  /\ \A ref \in prior.evidence \cup e.evidence : Readable(ref)
           /\ e.evidence \ prior.evidence # {}

(* decide_stale_review: no job follows; a bug: the verdict readers go by is  *)
(* left as it was.                                                           *)
DecidedHalf(e, approve) ==
    [e EXCEPT !.human = IF approve THEN "approved" ELSE "rejected"]

Decided(e, approve) ==
    [e EXCEPT !.human = IF approve THEN "approved" ELSE "rejected",
              !.review = IF approve THEN "passed" ELSE "failed"]

Decide ==
    /\ Unbarred
    /\ \E e \in history, approve \in BOOLEAN :
          /\ e.human = "pending" /\ e.review = "pending"
          /\ Reviewable(e)
          /\ history' = Merged({Decided(e, approve)})
          /\ approved' = IF approve THEN approved \cup {Shown(e)} ELSE approved
    /\ Invalidate
    /\ UNCHANGED <<record, command, cleanup, topic, jobs>>

-----------------------------------------------------------------------------
Next ==
    \/ \E r \in Record : \/ Upload(r) \/ Activate(r) \/ Deactivate(r)
                         \/ Delete(r) \/ PublishBase(r)
    \/ Erase \/ Sanitize \/ FinishErasure \/ FinishDeletion
    \/ AssociatePerson
    \/ \E s \in DOMAIN jobs : \/ Begin(s) \/ TakeContext(s) \/ Resume(s)
                              \/ Draft(s) \/ Stage(s) \/ Release(s) \/ Publish(s)
                              \/ Abandon(s)
    \/ Decide

Spec == Init /\ [][Next]_vars

-----------------------------------------------------------------------------
(* Properties. *)

RefSet == [record : Record, version : 1 .. 2]

(* The kinds of values the state holds; and of every proposal, the verdict   *)
(* that readers go by and the one the administrator gave are the same.       *)
KnowledgeTypeOK ==
    /\ record \in [Record -> [state : {"absent", "live", "deleted", "gone"},
                              version : 1 .. 2, active : BOOLEAN,
                              published : BOOLEAN, quarantined : BOOLEAN]]
    /\ command \in [Record -> {"none", "ingest", "activate", "deactivate",
                               "delete"}]
    /\ cleanup.of \subseteq Record
    /\ generation \in 0 .. MaxGeneration
    /\ topic \subseteq RefSet
    /\ overview # NoOverview => overview.saw \subseteq RefSet
    /\ DOMAIN jobs \subseteq 0 .. MaxGeneration
    /\ \A s \in DOMAIN jobs : jobs[s].context \in 0 .. generation
    /\ \A e \in history :
          /\ e.evidence \subseteq RefSet
          /\ Consequential(e) =>
                /\ e.review = "passed" <=> e.human = "approved"
                /\ e.review = "pending" <=> e.human = "pending"
    /\ \A e, f \in history : e.id = f.id => e = f

(* The overview a project shows was written with exactly those records       *)
(* readable that are readable now: a draft that another publication, an      *)
(* association or a command overtook is never shown (get_overview,           *)
(* release_overview, publish).                                               *)
OverviewCurrent == overview # NoOverview => overview.saw = ReadableRefs

(* A version that an erasure or a deletion took away.                        *)
Erased(ref) ==
    \/ record[ref.record].state = "gone"
    \/ ref.version < record[ref.record].version

(* Once a cleanup has sanitized, nothing that is kept of the project's       *)
(* knowledge rests on a version it took away, and no job that had read such  *)
(* a version puts it back (prepare_cleanup, _apply_batches).                 *)
NothingOfErased ==
    /\ \A e \in history : \A ref \in e.evidence : ~Erased(ref)
    /\ \A ref \in topic : ~Erased(ref)
    /\ overview # NoOverview => \A ref \in overview.saw : ~Erased(ref)

(* The event of a record that a proposal would supersede is kept as long as  *)
(* the proposal, so that a review of it can name both sides (_stale_review): *)
(* nothing replaces such an event, and the sanitizing stage takes the        *)
(* proposal with the evidence of its prior.                                  *)
BasePriorsKept ==
    \A e \in history :
       Consequential(e) /\ e.prior.from = "record" => \E p \in history : p.id = e.prior

(* A proposal that readers see is one an administrator approved as it        *)
(* stands, with this prior and this evidence: a later draft under the same   *)
(* stable id is not seen on the strength of the earlier decision.            *)
ApprovedAsShown ==
    \A e \in history : Consequential(e) /\ Known(e) => Shown(e) \in approved

(* A proposal enters the history while all it cites, on both sides, may be   *)
(* read: not after an association has quarantined it, nor after a command    *)
(* (release_overview and publish compare snapshots).                         *)
ProposalsOfReadable ==
    [][\A e \in history' :
         (Consequential(e) /\ \A f \in history : Shown(f) # Shown(e))
            => \A ref \in e.evidence : Readable(ref)]_vars

(* What the documentation says, and the code does not do. *)

(* A proposal that was approved or rejected remains as it was decided, until *)
(* a cleanup takes its evidence away.                                        *)
DecisionsKept ==
    [][\A e \in history :
         e.human \in {"approved", "rejected"}
            => \/ e \in history'
               \/ \E ref \in e.evidence : Erased(ref)']_vars

(* The prior of every proposal is kept as long as the proposal, whatever it  *)
(* is: a proposal that is itself a prior may be drafted again under its id,  *)
(* with other evidence, and then a cleanup takes it alone.                   *)
PriorsKnown ==
    \A e \in history : Consequential(e) => \E p \in history : p.id = e.prior

(* Every record that may be read is one that an aggregate job has covered or *)
(* still can: its plan is of this snapshot, or its context is.               *)
RecordsCovered ==
    \A ref \in ReadableRefs :
       \E s \in DOMAIN jobs :
          /\ ref \in jobs[s].refs
          /\ \/ jobs[s].step = "completed"
             \/ jobs[s].step = "pending" /\ s = generation
             \/ jobs[s].step = "planned"
             \/ jobs[s].context = generation

(* Once a cleanup has sanitized, no checkpoint holds a proposal about a      *)
(* version it took away.                                                     *)
CheckpointsForgotten ==
    \A s \in DOMAIN jobs :
       jobs[s].batch # NoBatch =>
          \A e \in jobs[s].batch.proposed : \A ref \in e.evidence : ~Erased(ref)

(* The list of proposals can be shown, of all states at once.                *)
ReviewsListable == \A e \in history : e.human # "not_required" => Reviewable(e)
=============================================================================
