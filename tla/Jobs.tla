-------------------------------- MODULE Jobs --------------------------------
(***************************************************************************)
(* The job coordinator of one project: evidence/jobs.py with the commands  *)
(* of evidence/service.py that create or revive jobs.                      *)
(*                                                                         *)
(* Every API call of the program loads the project under FOR UPDATE,       *)
(* mutates it and saves it in one SQL transaction, so every call is one    *)
(* action.  A worker is a client of that API: run_once keeps nothing that  *)
(* the job's row does not hold, so its next call is a function of the      *)
(* job's kind and stage, and a crash of the worker is the lease running    *)
(* out.  A document has one record and a record one index entry; entry     *)
(* identifiers are content-addressed (make_entry_id), so two jobs that     *)
(* draft the same text write the same point.  The replies of the external  *)
(* index are the choice of the outcome in Report.                          *)
(***************************************************************************)
EXTENDS Naturals, Sequences

CONSTANTS
    Doc,         \* uploads the administrators may submit
    Person,      \* people registered with the project
    Mentions,    \* Mentions[d]: the people the text of upload d names
    Draft,       \* texts the language model may produce for one record
    ClaimKinds,  \* the kinds a worker passes to claim
    MaxJobs,     \* BOUND: jobs created in the life of the project
    Outcomes,    \* BOUND: what the index may be reported to have done
    Codes,       \* BOUND: the error codes a worker may fail with
    None         \* no job, no person, no entry, no error code

Kind == {"ingest", "activate", "deactivate", "delete_document",
         "erase_person", "rebuild_aggregate"}

Cleanup == {"delete_document", "erase_person"}

\* The stages of each kind, in order; only publish reaches the last one.
CleanupSequence == <<"invalidating", "inventory", "draining", "sanitizing",
                     "rebuilding", "removing_index", "verifying", "done">>

Sequence == [kind \in Kind |->
    CASE kind = "ingest" ->
           <<"received", "parsed", "privacy_ready", "extracted", "indexed", "published">>
      [] kind = "activate" -> <<"received", "rebuilding", "indexed", "published">>
      [] kind = "deactivate" -> <<"invalidating", "rebuilding", "verifying", "done">>
      [] kind \in Cleanup -> CleanupSequence
      [] OTHER -> <<"received", "extracted", "verifying", "published">>]

Stage == {"received", "parsed", "privacy_ready", "extracted", "indexed", "published",
          "rebuilding", "invalidating", "verifying", "done", "inventory",
          "draining", "sanitizing", "removing_index"}

FailureCode == {"transient", "contract_violation", "capability_denied", "ambiguous_person"}

ASSUME ConstantsAssumption ==
    /\ MaxJobs \in Nat
    /\ Outcomes \subseteq {"succeeded", "failed", "unknown"}
    /\ Codes \subseteq FailureCode
    /\ Mentions \in [Doc -> SUBSET Person]
    /\ ClaimKinds \subseteq Kind
    /\ None \notin Nat \cup Person \cup Kind
    /\ Doc \cap {"remove", "remove_again"} = {}

Job   == 1 .. MaxJobs
Entry == Doc \X (Nat \ {0}) \X Draft       \* document, record version, draft
Slot  == Doc \cup {"remove", "remove_again"}
NoRefs == [d \in Doc |-> 0]

OpState == {"none", "pending", "in_flight", "unknown", "failed", "succeeded"}
UnresolvedKnown == {"in_flight"}             \* mutant: a timeout counts as settled

Unresolved == {"in_flight", "unknown"}
Outstanding == Unresolved \cup {"pending"}

VARIABLES
    lifecycle_revision,  \* the fence every job is stamped with
    write_barrier,       \* set while a deletion or an erasure is cleaning up
    people,              \* "active", "erasing", or "gone" from the registry
    doc,                 \* documents: state, ai_status, latest job, raw upload
    rec,                 \* the record of each document; version 0: none
    njobs,               \* jobs 1 .. njobs exist
    job,                 \* the public job, its lease and its target
    work,                \* its work plan and the flags kept beside it
    entry,               \* entry[j][d]: the entry job j checkpointed for d
    op,                  \* op[j][x]: the ledger's operation of j for slot x
    purged               \* purged[j]: the slots whose operation a cleanup emptied

project == <<lifecycle_revision, write_barrier, people>>
ledger  == <<entry, op, purged>>
vars    == <<lifecycle_revision, write_barrier, people, doc, rec, njobs, job,
             work, entry, op, purged>>

Created == 1 .. njobs

NoJob  == [kind |-> None, docs |-> {}, person |-> None, life |-> 0,
           state |-> "none", stage |-> "none", code |-> None,
           retryable |-> FALSE, lease |-> "none"]
NoWork == [refs |-> NoRefs, removals |-> {}, successor |-> None,
           forbidden |-> FALSE, cleaned |-> FALSE, fresh |-> FALSE]
NoDoc  == [state |-> "unused", active |-> FALSE, latest |-> None,
           processing |-> "none", raw |-> FALSE]
NoRecord == [version |-> 0, names |-> {}, reviewed |-> FALSE,
             published |-> FALSE, quarantined |-> FALSE, entry |-> None]

Init ==
    /\ lifecycle_revision = 0
    /\ write_barrier = FALSE
    /\ people = [p \in Person |-> "active"]
    /\ doc = [d \in Doc |-> NoDoc]
    /\ rec = [d \in Doc |-> NoRecord]
    /\ njobs = 0
    /\ job = [j \in Job |-> NoJob]
    /\ work = [j \in Job |-> NoWork]
    /\ entry = [j \in Job |-> [d \in Doc |-> None]]
    /\ op = [j \in Job |-> [x \in Slot |-> "none"]]
    /\ purged = [j \in Job |-> {}]

-----------------------------------------------------------------------------
(* Commands of the administrators (service.py).                            *)

InitialStage(kind) == Head(Sequence[kind])

NewJob(kind, docs, person, life, stage) ==
    [kind |-> kind, docs |-> docs, person |-> person, life |-> life,
     state |-> "pending", stage |-> stage, code |-> None,
     retryable |-> FALSE, lease |-> "none"]

NewWork(refs, removals, fresh) ==
    [NoWork EXCEPT !.refs = refs, !.removals = removals, !.fresh = fresh]

\* _invalidate moves the corpus generation, so the snapshot of every rebuild
\* plan made before it is stale.
Invalidated(w) == [j \in Job |-> [w[j] EXCEPT !.fresh = FALSE]]

Uncompleted(j) == job[j].state # "completed"

SubmitUpload(d) ==
    /\ ~write_barrier
    /\ doc[d].state = "unused"
    /\ njobs < MaxJobs
    /\ njobs' = njobs + 1
    /\ job' = [job EXCEPT ![njobs'] =
                  NewJob("ingest", {d}, None, lifecycle_revision, "received")]
    /\ work' = [work EXCEPT ![njobs'] = NewWork(NoRefs, {}, FALSE)]
    /\ doc' = [doc EXCEPT ![d] = [state |-> "live", active |-> TRUE,
                  latest |-> njobs', processing |-> "pending", raw |-> TRUE]]
    /\ UNCHANGED <<project, rec, ledger>>

\* _active_lifecycle: an uncompleted command on the document answers instead
\* of a new one being created (same kind) or refuses it; ingestion does not.
Blocks(j, d) ==
    d \in job[j].docs /\ Uncompleted(j) /\ job[j].kind # "ingest"

EntriesOfAny(D) == {rec[d].entry : d \in D}  \* mutant: records without one

EntriesOf(D) == {rec[d].entry : d \in D} \ {None}

MutatedDocument(r, kind, j) ==
    [r EXCEPT !.active = (kind = "activate"),
              !.state = IF kind = "delete_document" THEN "deleted" ELSE "live",
              !.latest = j, !.processing = "pending"]

MutatedRecord(r, kind) == [r EXCEPT !.published = @ /\ kind = "deactivate"]

MutateDocument(d, kind) ==
    /\ \A j \in Created : ~Blocks(j, d)
    /\ doc[d].state = "live"
    /\ ~write_barrier
    /\ njobs < MaxJobs
    /\ njobs' = njobs + 1
    /\ lifecycle_revision' = lifecycle_revision + 1
    /\ write_barrier' = (kind = "delete_document")
    /\ doc' = [doc EXCEPT ![d] = MutatedDocument(@, kind, njobs')]
    /\ rec' = [rec EXCEPT ![d] = MutatedRecord(@, kind)]
    /\ job' = [job EXCEPT ![njobs'] =
                  NewJob(kind, {d}, None, lifecycle_revision', InitialStage(kind))]
    /\ work' = [Invalidated(work) EXCEPT ![njobs'] =
                  NewWork(IF kind = "activate"
                          THEN [NoRefs EXCEPT ![d] = rec[d].version] ELSE NoRefs,
                          EntriesOf({d}), FALSE)]
    /\ UNCHANGED <<people, ledger>>

Occurs(p, d) == rec[d].version # 0 /\ p \in rec[d].names

ErasePerson(p) ==
    LET affected == {d \in Doc : Occurs(p, d)}
    IN  /\ people[p] # "gone"
        /\ \A j \in Created : Uncompleted(j) => job[j].person # p
        /\ ~write_barrier
        /\ njobs < MaxJobs
        /\ njobs' = njobs + 1
        /\ lifecycle_revision' = lifecycle_revision + 1
        /\ write_barrier' = TRUE
        /\ people' = [people EXCEPT ![p] = "erasing"]
        /\ rec' = [d \in Doc |-> IF d \in affected
                                 THEN [rec[d] EXCEPT !.quarantined = TRUE] ELSE rec[d]]
        /\ job' = [job EXCEPT ![njobs'] =
                      NewJob("erase_person", affected, p, lifecycle_revision', "invalidating")]
        /\ work' = [Invalidated(work) EXCEPT ![njobs'] =
                      NewWork(NoRefs, EntriesOf(affected), FALSE)]
        /\ UNCHANGED <<doc, ledger>>

\* associate_person on a person already registered: every record of the
\* project is quarantined until it is reviewed again.
AssociatePerson(p) ==
    /\ ~write_barrier
    /\ people[p] # "gone"
    /\ rec' = [d \in Doc |-> IF rec[d].version # 0
                             THEN [rec[d] EXCEPT !.quarantined = TRUE] ELSE rec[d]]
    /\ work' = Invalidated(work)
    /\ UNCHANGED <<project, doc, njobs, job, ledger>>

\* _recoverable_cleanup: two failures that a retry may resume although their
\* code is not a retryable one.
Recoverable(kind, stage, code) ==
    \/ kind \in Cleanup /\ stage = "rebuilding" /\ code = "contract_violation"
    \/ kind = "ingest" /\ stage = "privacy_ready" /\ code = "capability_denied"

MayRetry(j) ==
    /\ job[j].state = "failed"
    /\ \/ job[j].retryable
       \/ Recoverable(job[j].kind, job[j].stage, job[j].code)
    /\ job[j].life = lifecycle_revision

\* The documents of D that still have a row.
Marked(D, status) == [d \in Doc |->
    IF d \in D /\ doc[d].state # "gone" THEN [doc[d] EXCEPT !.processing = status]
                                        ELSE doc[d]]

RetryJob(j) ==
    /\ MayRetry(j)
    /\ job' = [job EXCEPT ![j] = [@ EXCEPT !.state = "pending", !.code = None,
                                           !.retryable = FALSE, !.lease = "none"]]
    /\ doc' = Marked(job[j].docs, "pending")
    /\ UNCHANGED <<project, rec, njobs, work, ledger>>

-----------------------------------------------------------------------------
(* Leases and the rescheduling of fenced work (jobs.py, class Jobs).       *)

Stale(j) ==
    /\ job[j].life # lifecycle_revision
    /\ Uncompleted(j)
    /\ job[j].state = "failed" => job[j].code = "superseded"

OwnedByAny(j) == job[j].docs # {}            \* mutant: a later command ignored

Owned(j) ==
    /\ job[j].docs # {}
    /\ \A d \in job[j].docs : doc[d].state # "gone" /\ doc[d].latest = j

Current(d, version) == version # 0 /\ rec[d].version = version

MayReplaceForbidden(j) == work[j].successor = None   \* mutant: forbidden too

MayReplace(j) == work[j].successor = None /\ ~work[j].forbidden

\* The fenced jobs whose independent document work a new job takes over.
Replaceable == {j \in Created :
    /\ Stale(j)
    /\ Owned(j)
    /\ ~write_barrier
    /\ MayReplace(j)
    /\ job[j].kind \in {"ingest", "activate", "deactivate"}
    /\ \A d \in job[j].docs :
          /\ doc[d].state = "live"
          /\ doc[d].active = (job[j].kind # "deactivate")
          /\ job[j].kind = "ingest" /\ job[j].stage \in {"received", "parsed"}
                => doc[d].raw
    /\ \A d \in Doc : work[j].refs[d] # 0 => Current(d, work[j].refs[d])
    /\ \A x \in Slot : op[j][x] \notin Unresolved}

\* The new jobs take the next numbers, in the order of the jobs they replace.
Renumberings(n) ==
    {f \in [Replaceable -> (njobs + 1) .. (njobs + n)] :
        /\ \A k \in (njobs + 1) .. (njobs + n) : \E j \in Replaceable : f[j] = k
        /\ \A i, j \in Replaceable : i < j => f[i] < f[j]}

Superseded(r) == [r EXCEPT !.state = "failed", !.code = "superseded",
                           !.retryable = FALSE, !.lease = "none"]

ResumedStage(j) ==
    IF job[j].kind # "ingest" THEN InitialStage(job[j].kind)
    ELSE IF job[j].stage \in {"received", "parsed"} THEN job[j].stage
    ELSE "privacy_ready"

UpsertedVerified(j) ==                       \* mutant: acknowledged ones only
    {entry[j][d] : d \in {c \in Doc : op[j][c] = "succeeded"}}

\* Entries the old job may have written join what the new one removes first.
Upserted(j) == {entry[j][d] : d \in {c \in Doc : op[j][c] # "none"}}

Rescheduled(f) == [k \in Job |->
    IF \E j \in DOMAIN f : f[j] = k
    THEN LET j == CHOOSE i \in DOMAIN f : f[i] = k
         IN  NewJob(job[j].kind, job[j].docs, None, lifecycle_revision, ResumedStage(j))
    ELSE IF k \in Created /\ Stale(k) THEN Superseded(job[k]) ELSE job[k]]

RescheduledWork(f) == [k \in Job |->
    IF \E j \in DOMAIN f : f[j] = k
    THEN LET j == CHOOSE i \in DOMAIN f : f[i] = k
         IN  NewWork(work[j].refs, work[j].removals \cup Upserted(j), FALSE)
    ELSE IF k \in DOMAIN f THEN [work[k] EXCEPT !.successor = f[k]] ELSE work[k]]

RescheduledDoc(f) == [d \in Doc |->
    IF \E j \in DOMAIN f : d \in job[j].docs
    THEN LET j == CHOOSE i \in DOMAIN f : d \in job[i].docs
         IN  [doc[d] EXCEPT !.latest = f[j], !.processing = "pending"]
    ELSE IF \E j \in Created : Stale(j) /\ Owned(j) /\ d \in job[j].docs
    THEN [doc[d] EXCEPT !.processing = "failed"] ELSE doc[d]]

CancelledNever(s) == s                       \* mutant

\* An operation prepared but never dispatched is cancelled.
Cancelled(s) == IF s = "pending" THEN "failed" ELSE s

Claimable(r) ==
    /\ r.kind \in ClaimKinds
    /\ r.state = "pending" \/ (r.state = "running" /\ r.lease # "live")
    /\ r.life = lifecycle_revision
    /\ write_barrier => r.kind \in Cleanup

Rescheduling(f) ==
    /\ work' = RescheduledWork(f)
    /\ doc' = RescheduledDoc(f)
    /\ op' = [j \in Job |-> [x \in Slot |->
                 IF j \in DOMAIN f THEN Cancelled(op[j][x]) ELSE op[j][x]]]

Leasing(jobs) ==
    \/ \E j \in Job :
          /\ Claimable(jobs[j])
          /\ job' = [jobs EXCEPT ![j] = [@ EXCEPT !.state = "running", !.lease = "live"]]
    \/ /\ \A j \in Job : ~Claimable(jobs[j])
       /\ job' = jobs

\* claim: _reschedule_stale, then the lease of one claimable job, if any.
Claim ==
    \E n \in 0 .. (MaxJobs - njobs) : \E f \in Renumberings(n) :
        /\ njobs' = njobs + n
        /\ Rescheduling(f)
        /\ Leasing(Rescheduled(f))
        /\ UNCHANGED <<project, rec, entry, purged>>

\* The lease runs out: its worker crashed, stalled or lost the database.
Expire(j) ==
    /\ job[j].state = "running" /\ job[j].lease = "live"
    /\ job' = [job EXCEPT ![j].lease = "expired"]
    /\ UNCHANGED <<project, doc, rec, njobs, work, ledger>>

WorkingUnfenced(j) ==                        \* mutant: the lease alone
    job[j].state = "running" /\ job[j].lease = "live"

\* _check: the caller holds the newest lease and no lifecycle change fenced it.
Working(j) ==
    /\ job[j].state = "running" /\ job[j].lease = "live"
    /\ job[j].life = lifecycle_revision

At(j, kinds, stages) == job[j].kind \in kinds /\ job[j].stage \in stages

\* run_once: a replacement first removes what the job it replaces wrote.
Ready(j) ==
    /\ Working(j)
    /\ job[j].kind \in {"ingest", "activate"} /\ work[j].removals # {}
         => work[j].cleaned

\* The stage at which process_record runs for each record of the work plan.
Processing(j) ==
    At(j, {"ingest"}, {"privacy_ready"}) \/ At(j, {"activate"} \cup Cleanup, {"rebuilding"})

Refs(j) == {d \in Doc : work[j].refs[d] # 0}
AllUpserted(j) == \A d \in Refs(j) : op[j][d] = "succeeded"

RemovingEarly(j) ==                          \* mutant: before the others have settled
    /\ work[j].removals # {}
    /\ \/ job[j].kind \in {"ingest", "activate"} /\ ~work[j].cleaned
       \/ At(j, {"deactivate"}, {"rebuilding"})
       \/ At(j, Cleanup, {"draining", "removing_index"})

\* remove_index_entries is called for the removals of the work plan.
Removing(j) ==
    /\ work[j].removals # {}
    /\ \/ job[j].kind \in {"ingest", "activate"} /\ ~work[j].cleaned
       \/ At(j, {"deactivate"}, {"rebuilding"})
       \/ At(j, Cleanup, {"removing_index"})

Removed(j) == op[j]["remove"] = "succeeded" /\ op[j]["remove_again"] \in {"none", "succeeded"}

ObsoleteIndexRemoved(j) ==
    /\ Working(j) /\ Removing(j) /\ Removed(j)
    /\ job[j].kind \in {"ingest", "activate"}
    /\ work' = [work EXCEPT ![j].cleaned = TRUE]
    /\ UNCHANGED <<project, doc, rec, njobs, job, ledger>>

\* What run_once waits for before it moves a job on with advance.
StepDone(j) ==
    /\ ~At(j, {"ingest"}, {"received", "parsed"})
    /\ ~At(j, Cleanup, {"invalidating", "inventory", "draining", "sanitizing"})
    /\ Processing(j) => AllUpserted(j)
    /\ Removing(j) => Removed(j)
    /\ At(j, {"rebuild_aggregate"}, {"received"}) => work[j].fresh

Advance(j) ==
    /\ Ready(j) /\ StepDone(j)
    /\ LET sequence == Sequence[job[j].kind]
       IN  \E i \in 1 .. (Len(sequence) - 2) :
              /\ sequence[i] = job[j].stage
              /\ job' = [job EXCEPT ![j].stage = sequence[i + 1]]
    /\ UNCHANGED <<project, doc, rec, njobs, work, ledger>>

\* Codes a stage can fail with; "transient" stands for the retryable ones.  A
\* removal already acknowledged is verified again when its stage is resumed:
\* an index failure there is reported on a succeeded operation and refused.
FailureCodes(j) == {"transient"}
    \cup (IF \/ Processing(j) \/ At(j, {"rebuild_aggregate"}, {"received"})
             \/ Removing(j) /\ op[j]["remove"] = "succeeded"
          THEN {"contract_violation"} ELSE {})
    \cup (IF Processing(j) /\ \E d \in Refs(j) : rec[d].quarantined
          THEN {"capability_denied"} ELSE {})
    \cup (IF /\ At(j, {"erase_person"}, {"sanitizing"})
             /\ \E d \in Doc : Occurs(job[j].person, d)
          THEN {"ambiguous_person"} ELSE {})

Fail(j, code) ==
    /\ Working(j)
    /\ code \in FailureCodes(j)
    /\ job' = [job EXCEPT ![j] = [@ EXCEPT !.state = "failed", !.code = code,
                  !.retryable = (code = "transient") \/ Recoverable(job[j].kind, job[j].stage, code)]]
    /\ doc' = Marked(job[j].docs, "failed")
    /\ UNCHANGED <<project, rec, njobs, work, ledger>>

-----------------------------------------------------------------------------
(* Ingestion: prepare_ingestion.  What the privacy agent decides about the *)
(* text is a choice between PrivacyReady and PrivacyUnresolved.            *)

Parse(j) ==
    /\ Ready(j) /\ At(j, {"ingest"}, {"received"})
    /\ \A d \in job[j].docs : doc[d].raw
    /\ rec' = [d \in Doc |->
                 IF d \in job[j].docs
                 THEN [NoRecord EXCEPT !.version = 1, !.names = Mentions[d],
                                       !.quarantined = TRUE]
                 ELSE rec[d]]
    /\ work' = [work EXCEPT ![j].refs =
                  [d \in Doc |-> IF d \in job[j].docs THEN 1 ELSE 0]]
    /\ job' = [job EXCEPT ![j].stage = "parsed"]
    /\ doc' = Marked(job[j].docs, "running")
    /\ UNCHANGED <<project, njobs, ledger>>

Compiled(j, quarantined) == [d \in Doc |->
    IF d \in Refs(j)
    THEN [rec[d] EXCEPT !.reviewed = ~quarantined, !.quarantined = quarantined]
    ELSE rec[d]]

PrivacyReady(j) ==
    /\ Ready(j) /\ At(j, {"ingest"}, {"parsed"})
    /\ rec' = Compiled(j, FALSE)
    /\ job' = [job EXCEPT ![j].stage = "privacy_ready"]
    /\ UNCHANGED <<project, doc, njobs, work, ledger>>

PrivacyUnresolved(j) ==
    /\ Ready(j) /\ At(j, {"ingest"}, {"parsed"})
    /\ rec' = Compiled(j, TRUE)
    /\ job' = [job EXCEPT ![j] = [@ EXCEPT !.state = "failed", !.code = "transient",
                                           !.retryable = TRUE]]
    /\ doc' = Marked(job[j].docs, "failed")
    /\ UNCHANGED <<project, njobs, work, ledger>>

-----------------------------------------------------------------------------
(* Deletion and erasure: prepare_cleanup.                                  *)

Invalidating(j) ==
    /\ Ready(j) /\ At(j, Cleanup, {"invalidating"})
    /\ job' = [job EXCEPT ![j].stage = "inventory"]
    /\ UNCHANGED <<project, doc, rec, njobs, work, ledger>>

ResidualOutstanding(i, j) ==                 \* mutant: settled ones forgotten
    {d \in Doc : op[i][d] \in Outstanding}

\* The entry of an older operation joins the inventory when its write may
\* still land or when it holds the target's content.
Residual(i, j) == {d \in Doc :
    /\ op[i][d] # "none"
    /\ \/ op[i][d] \in Outstanding
       \/ d \notin purged[i] /\ (d \in job[j].docs \/ job[j].person \in Mentions[d])}

Inventoried(j) ==
    UNION {{entry[i][d] : d \in Residual(i, j)} :
              i \in {k \in Created : job[k].life < job[j].life}}

Inventory(j) ==
    /\ Ready(j) /\ At(j, Cleanup, {"inventory"})
    /\ work' = [work EXCEPT ![j].removals = @ \cup Inventoried(j)]
    /\ job' = [job EXCEPT ![j].stage = "draining"]
    /\ UNCHANGED <<project, doc, rec, njobs, ledger>>

Drain(j) ==
    /\ Ready(j) /\ At(j, Cleanup, {"draining"})
    /\ \A i \in Created : job[i].life < job[j].life =>
          \A x \in Slot : op[i][x] \notin Unresolved
    /\ op' = [i \in Job |-> [x \in Slot |->
                IF i \in Created /\ job[i].life < job[j].life
                THEN Cancelled(op[i][x]) ELSE op[i][x]]]
    /\ job' = [job EXCEPT ![j].stage = "sanitizing"]
    /\ UNCHANGED <<project, doc, rec, njobs, work, entry, purged>>

SanitizeDeleted(j) ==
    /\ Ready(j) /\ At(j, {"delete_document"}, {"sanitizing"})
    /\ doc' = [d \in Doc |-> IF d \in job[j].docs
                             THEN [NoDoc EXCEPT !.state = "gone"] ELSE doc[d]]
    /\ rec' = [d \in Doc |-> IF d \in job[j].docs THEN NoRecord ELSE rec[d]]
    /\ job' = [job EXCEPT ![j].stage = "rebuilding"]
    /\ UNCHANGED <<project, njobs, work, ledger>>

SanitizedRecord(r, p) ==
    [r EXCEPT !.version = @ + 1, !.names = @ \ {p}, !.published = FALSE,
              !.quarantined = FALSE, !.entry = None]

\* Erasing rewrites every record the person occurs in, drops the uploads of
\* the affected documents and forbids every unfinished ingestion to resume.
SanitizeErased(j) ==
    LET p == job[j].person
        affected == {d \in Doc : Occurs(p, d)}
        ingests == {i \in Created : job[i].kind = "ingest" /\ Uncompleted(i)}
    IN  /\ Ready(j) /\ At(j, {"erase_person"}, {"sanitizing"})
        /\ rec' = [d \in Doc |-> IF d \in affected
                                 THEN SanitizedRecord(rec[d], p) ELSE rec[d]]
        /\ doc' = [d \in Doc |->
             [doc[d] EXCEPT !.raw = @ /\ d \notin job[j].docs,
                 !.processing = IF /\ doc[d].state # "gone"
                                   /\ \E i \in ingests : d \in job[i].docs
                                THEN "failed" ELSE @]]
        /\ job' = [i \in Job |->
             IF i \in ingests
             THEN [job[i] EXCEPT !.state = "failed", !.code = "superseded",
                                 !.retryable = FALSE]
             ELSE IF i = j THEN [job[i] EXCEPT !.stage = "rebuilding"] ELSE job[i]]
        /\ work' = [i \in Job |->
             IF i \in ingests THEN [work[i] EXCEPT !.forbidden = TRUE]
             ELSE IF i = j
             THEN [work[i] EXCEPT !.refs = [d \in Doc |->
                      IF d \in affected THEN rec[d].version + 1 ELSE 0]]
             ELSE work[i]]
        /\ UNCHANGED <<project, njobs, ledger>>

-----------------------------------------------------------------------------
(* Checkpoints and the operation ledger.                                   *)

\* stage_artifacts: the work plan's version of the record is the current one
\* and it is not quarantined (_staged); the draft is kept across retries.
StageArtifacts(j, d) ==
    /\ Ready(j) /\ Processing(j)
    /\ Current(d, work[j].refs[d])
    /\ ~rec[d].quarantined
    /\ entry[j][d] = None
    /\ \E text \in Draft : entry' = [entry EXCEPT ![j][d] = <<d, work[j].refs[d], text>>]
    /\ UNCHANGED <<project, doc, rec, njobs, job, work, op, purged>>

\* Ledger.prepare, once per slot: the idempotency key of a second call finds
\* the operation of the first.  A removal that was acknowledged but finds its
\* points present again is prepared anew (remove_index_entries).
Prepare(j, x) ==
    /\ op[j][x] = "none"
    /\ \/ x \in Doc /\ Ready(j) /\ Processing(j) /\ entry[j][x] # None
       \/ x = "remove" /\ Working(j) /\ Removing(j)
       \/ x = "remove_again" /\ Working(j) /\ Removing(j) /\ op[j]["remove"] = "succeeded"
    /\ op' = [op EXCEPT ![j][x] = "pending"]
    /\ UNCHANGED <<project, doc, rec, njobs, job, work, entry, purged>>

\* Ledger.start: an upsert with an unknown outcome is never sent again.
Start(j, x) ==
    /\ IF x \in Doc THEN Ready(j) /\ Processing(j) ELSE Working(j) /\ Removing(j)
    /\ \/ op[j][x] \in {"pending", "failed"}
       \/ x \notin Doc /\ op[j][x] = "unknown"
    /\ op' = [op EXCEPT ![j][x] = "in_flight"]
    /\ UNCHANGED <<project, doc, rec, njobs, job, work, entry, purged>>

\* Ledger.report needs the ticket of the operation and no lease: an outcome
\* may come from a worker that lost its job long ago.  A caller whose ensure
\* call fails reports on an operation it never started.
Report(j, x, outcome) ==
    /\ op[j][x] \in {"pending", "in_flight", "unknown", "failed"}
    /\ op[j][x] = "pending" => x \in Doc /\ outcome # "succeeded"
    /\ op[j][x] = "failed" => outcome # "unknown"
    /\ op' = [op EXCEPT ![j][x] = outcome]
    /\ UNCHANGED <<project, doc, rec, njobs, job, work, entry, purged>>

-----------------------------------------------------------------------------
(* Publication (publish).                                                  *)

Penultimate(j) ==
    LET sequence == Sequence[job[j].kind]
    IN  job[j].stage = sequence[Len(sequence) - 1]

\* Nothing written before the cleanup may still land, and each entry of the
\* inventory has an acknowledged removal.
CleanupVerified(j) ==
    /\ \A i \in Created : job[i].life <= job[j].life =>
          \A x \in Slot : op[i][x] \notin Outstanding
    /\ work[j].removals # {} => "succeeded" \in {op[j]["remove"], op[j]["remove_again"]}

\* _apply_batches: the drafted entries become the records' entries.
Published(j) == [d \in Doc |->
    IF d \in Refs(j) /\ job[j].kind \in {"ingest", "activate", "erase_person"}
    THEN [rec[d] EXCEPT !.published = TRUE, !.quarantined = FALSE, !.entry = entry[j][d]]
    ELSE rec[d]]

\* The published records a rebuild_aggregate job is created for.
Eligible(j, records) == {d \in job[j].docs \cup Refs(j) :
    /\ records[d].version # 0 /\ records[d].published /\ ~records[d].quarantined
    /\ doc[d].state = "live" /\ doc[d].active}

PublishedWork(j, eligible) ==
    IF job[j].kind \notin {"ingest", "activate", "erase_person", "deactivate"} THEN work
    ELSE IF eligible = {} THEN Invalidated(work)
    ELSE [Invalidated(work) EXCEPT ![njobs + 1] =
            NewWork([d \in Doc |-> IF d \in eligible THEN rec[d].version ELSE 0], {}, TRUE)]

Publish(j) ==
    LET kind == job[j].kind
        based == kind \in {"ingest", "activate", "erase_person", "deactivate"}
        eligible == IF based THEN Eligible(j, Published(j)) ELSE {}
        created == IF eligible = {} THEN 0 ELSE 1
        completed == [job EXCEPT ![j] = [@ EXCEPT !.state = "completed",
                        !.stage = Sequence[kind][Len(Sequence[kind])],
                        !.code = None, !.retryable = FALSE, !.lease = "none"]]
    IN  /\ Ready(j) /\ Penultimate(j)
        /\ kind \in Cleanup => CleanupVerified(j)
        /\ kind \in {"ingest", "activate", "erase_person"} =>
             \A d \in Refs(j) : Current(d, work[j].refs[d]) /\ op[j][d] = "succeeded"
        /\ kind = "rebuild_aggregate" => work[j].fresh
        /\ kind = "erase_person" => \A d \in Doc : ~Occurs(job[j].person, d)
        /\ njobs + created <= MaxJobs
        /\ njobs' = njobs + created
        /\ rec' = Published(j)
        /\ work' = PublishedWork(j, eligible)
        /\ job' = IF eligible = {} THEN completed
                  ELSE [completed EXCEPT ![njobs'] =
                          NewJob("rebuild_aggregate", {}, None, lifecycle_revision, "received")]
        /\ doc' = [d \in Doc |->
             IF based /\ d \in job[j].docs /\ doc[d].state = "live"
             THEN [doc[d] EXCEPT !.processing = "completed"] ELSE doc[d]]
        /\ write_barrier' = (write_barrier /\ kind \notin Cleanup)
        /\ people' = [p \in Person |-> IF kind = "erase_person" /\ p = job[j].person
                                       THEN "gone" ELSE people[p]]
        /\ purged' = [i \in Job |-> IF kind \notin Cleanup THEN purged[i]
             ELSE purged[i] \cup {d \in Doc : op[i][d] # "none" /\ entry[i][d] \in work[j].removals}]
        /\ UNCHANGED <<lifecycle_revision, entry, op>>

-----------------------------------------------------------------------------
Admin ==
    \/ \E d \in Doc : SubmitUpload(d)
    \/ \E d \in Doc : \E kind \in {"activate", "deactivate", "delete_document"} :
          MutateDocument(d, kind)
    \/ \E p \in Person : ErasePerson(p) \/ AssociatePerson(p)
    \/ \E j \in Job : RetryJob(j)

Worker(j) ==
    \/ Parse(j) \/ PrivacyReady(j) \/ PrivacyUnresolved(j)
    \/ Invalidating(j) \/ Inventory(j) \/ Drain(j)
    \/ SanitizeDeleted(j) \/ SanitizeErased(j)
    \/ \E d \in Doc : StageArtifacts(j, d)
    \/ \E x \in Slot : Prepare(j, x) \/ Start(j, x)
    \/ ObsoleteIndexRemoved(j) \/ Advance(j) \/ Publish(j)
    \/ \E code \in Codes : Fail(j, code)

Network ==
    \E j \in Job : \E x \in Slot : \E outcome \in Outcomes :
        Report(j, x, outcome)

Next ==
    \/ Admin
    \/ Claim
    \/ \E j \in Job : Worker(j) \/ Expire(j)
    \/ Network

Spec == Init /\ [][Next]_vars

-----------------------------------------------------------------------------
(* Properties.                                                             *)

DocumentRow == [state : {"unused", "live", "deleted", "gone"}, active : BOOLEAN,
                latest : Job \cup {None}, raw : BOOLEAN,
                processing : {"none", "pending", "running", "failed", "completed"}]
RecordRow == [version : Nat, names : SUBSET Person, reviewed : BOOLEAN,
              published : BOOLEAN, quarantined : BOOLEAN, entry : Entry \cup {None}]
JobRow == [kind : Kind \cup {None}, docs : SUBSET Doc, person : Person \cup {None},
           life : Nat, state : {"none", "pending", "running", "failed", "completed"},
           stage : Stage \cup {"none"}, code : {None, "superseded"} \cup FailureCode,
           retryable : BOOLEAN, lease : {"none", "live", "expired"}]
WorkRow == [refs : [Doc -> Nat], removals : SUBSET Entry, successor : Job \cup {None},
            forbidden : BOOLEAN, cleaned : BOOLEAN, fresh : BOOLEAN]

\* Type correctness of the project's state; a job that exists has a kind and a
\* stage of its own, and an operation of the ledger has the entry it was
\* prepared for.
TypeOK ==
    /\ lifecycle_revision \in Nat
    /\ write_barrier \in BOOLEAN
    /\ people \in [Person -> {"active", "erasing", "gone"}]
    /\ doc \in [Doc -> DocumentRow]
    /\ rec \in [Doc -> RecordRow]
    /\ njobs \in 0 .. MaxJobs
    /\ job \in [Job -> JobRow]
    /\ \A j \in Created : job[j].kind \in Kind /\ job[j].stage \in Stage
    /\ \A j \in Job \ Created : job[j] = NoJob
    /\ work \in [Job -> WorkRow]
    /\ entry \in [Job -> [Doc -> Entry \cup {None}]]
    /\ op \in [Job -> [Slot -> OpState]]
    /\ purged \in [Job -> SUBSET Doc]
    /\ \A j \in Job, d \in Doc : op[j][d] # "none" => entry[j][d] # None

OpenCleanup(j) == j \in Created /\ job[j].kind \in Cleanup /\ Uncompleted(j)

\* While the write barrier is up exactly one cleanup is open, it carries the
\* project's lifecycle revision, and every other unfinished job is fenced by
\* an older one: the cleanup is the only writer of the project (_check, the
\* barrier guards of the commands).  With the barrier down no cleanup is open,
\* so no retry can resume one outside the barrier.
BarrierExclusive ==
    IF write_barrier
    THEN \E j \in Created :
            /\ OpenCleanup(j) /\ job[j].life = lifecycle_revision
            /\ \A i \in Created \ {j} :
                  ~OpenCleanup(i) /\ (Uncompleted(i) => job[i].life < lifecycle_revision)
    ELSE \A j \in Created : ~OpenCleanup(j)

\* Once a cleanup has drained, no index call dispatched before it can be
\* outstanding again, whatever late reports arrive (prepare_cleanup draining,
\* Ledger.report): nothing fenced can recreate what it removes.
Drained ==
    \A j \in Created :
        At(j, Cleanup, {"sanitizing", "rebuilding", "removing_index", "verifying"}) =>
            \A i \in Created : job[i].life < job[j].life =>
                \A x \in Slot : op[i][x] \notin Outstanding

\* When a deletion or an erasure has completed, every entry an earlier job ever
\* prepared for its documents, whatever its outcome, is in the inventory of a
\* completed cleanup whose removal the index acknowledged (prepare_cleanup
\* inventory, publish).
InventoryComplete ==
    \A j \in Created : job[j].kind \in Cleanup /\ job[j].state = "completed" =>
        \A i \in Created, d \in job[j].docs :
            job[i].life < job[j].life /\ op[i][d] # "none" =>
                \E k \in Created :
                    /\ job[k].kind \in Cleanup /\ job[k].state = "completed"
                    /\ entry[i][d] \in work[k].removals
                    /\ "succeeded" \in {op[k]["remove"], op[k]["remove_again"]}

\* No record made from an upload accepted before an erasure completed still
\* names the erased person: neither the sanitizing pass nor an ingestion that
\* was pending when it ran leaves or brings the name back (prepare_cleanup
\* sanitizing, resumption_forbidden).
ErasedForgotten ==
    \A j \in Created : job[j].kind = "erase_person" /\ job[j].state = "completed" =>
        \A i \in 1 .. (j - 1) : \A d \in job[i].docs :
            job[j].person \notin rec[d].names

\* The barrier comes down only in a publication that leaves no operation of
\* the whole project outstanding and no published record whose index entry
\* the same cleanup has just removed (publish, CleanupVerified).
BarrierReleaseVerified ==
    [][write_barrier /\ ~write_barrier' =>
          \E j \in Created :
             /\ OpenCleanup(j) /\ job'[j].state = "completed"
             /\ \A i \in Created, x \in Slot : op[i][x] \in {"none", "failed", "succeeded"}
             /\ \A d \in job[j].docs : rec'[d].published =>
                   rec'[d].entry \notin work[j].removals]_vars

\* A completed job is final: no fence, retry, erasure or late worker reopens
\* or rewrites it (retry_job, _reschedule_stale, prepare_cleanup sanitizing).
CompletedFinal ==
    [][\A j \in Created : job[j].state = "completed" => job'[j] = job[j]]_vars

\* At one lifecycle revision at most one unfinished job writes a document, and
\* outside an erasure it is the one the document names as its latest: neither
\* a command nor rescheduling leaves two writers for it (_active_lifecycle,
\* _reschedule_stale).
OneWriterPerDocument ==
    \A i, j \in Created :
        /\ Uncompleted(i) /\ job[i].life = lifecycle_revision
        /\ Uncompleted(j) /\ job[j].life = lifecycle_revision
        => \A d \in job[i].docs \cap job[j].docs :
              /\ i = j
              /\ job[i].kind = "erase_person" \/ doc[d].latest \in {i, None}

\* Once a replacement has completed, everything the job it replaced may have
\* written to the index was removed by it or belongs to the record again
\* (_reschedule_stale removals, obsolete_index_removed).
NoOrphanedEntry ==
    \A i \in Created : \A d \in job[i].docs :
        LET k == work[i].successor
        IN  k # None /\ op[i][d] # "none" =>
               /\ entry[i][d] \in work[k].removals
               /\ job[k].state = "completed" => "succeeded" = op[k]["remove"]

-----------------------------------------------------------------------------
(* The state of the abstract promise (Barrier): what the jobs other than   *)
(* the open cleanup have done to the index.                                *)

PastDraining(k) == At(k, Cleanup, {"sanitizing", "rebuilding", "removing_index", "verifying"})

Others == {i \in Created : ~OpenCleanup(i)}

BarrierPhase ==
    IF ~write_barrier THEN "open"
    ELSE IF \E k \in Created : OpenCleanup(k) /\ PastDraining(k) THEN "drained"
    ELSE "closed"

CallsIn(states) == {c \in Others \X Slot : op[c[1]][c[2]] \in states}
WrittenFor(d) == {entry[i][d] : i \in {k \in Others : op[k][d] # "none"}}
RemovedBy(k) ==
    IF "succeeded" \in {op[k]["remove"], op[k]["remove_again"]} THEN work[k].removals ELSE {}

BarrierTargets == UNION {job[k].docs : k \in {i \in Created : OpenCleanup(i)}}
BarrierWritten == [d \in Doc |-> WrittenFor(d)]
BarrierRemoved == UNION {RemovedBy(k) : k \in {i \in Created : job[i].kind \in Cleanup}}

Promise ==
    INSTANCE Barrier WITH
        Target   <- Doc,
        Point    <- Entry,
        Call     <- Job \X Slot,
        phase    <- BarrierPhase,
        targets  <- BarrierTargets,
        prepared <- CallsIn({"pending"}),
        sent     <- CallsIn(Unresolved),
        written  <- BarrierWritten,
        removed  <- BarrierRemoved

\* Under the write barrier nobody but the cleanup dispatches a call, the cleanup
\* removes nothing before the rest has settled, and the barrier comes down only
\* when all that was ever written for its documents is removed (the fence of
\* _check, prepare_cleanup, publish).
KeepsBarrier == Promise!Spec

-----------------------------------------------------------------------------
(* Properties the documentation states and the code does not have.         *)

\* "Keep failed cleanup resumable" (worker-a-evidence-platform.md:62): a
\* deletion or an erasure that failed can be retried.  It is the only job that
\* can ever lower the write barrier.
FailedCleanupResumable ==
    \A j \in Created : OpenCleanup(j) /\ job[j].state = "failed" => MayRetry(j)

\* "Duplicate active lifecycle commands for the same target/action return the
\* active job; incompatible target mutations return write_barrier while cleanup
\* is active" (shared-interfaces.md:280): with no cleanup active, the job that
\* answers or refuses a command on a live document can still make progress.
BlockedOnlyByActive ==
    \A j \in Created, d \in Doc :
        Blocks(j, d) /\ doc[d].state = "live" /\ ~write_barrier =>
            job[j].state \in {"pending", "running"} \/ MayRetry(j) \/ Stale(j)

\* "no publication without a completed validated privacy result"
\* (compliance-repair-spec.md:27).
PublishedReviewed ==
    \A d \in Doc : rec[d].published /\ ~rec[d].quarantined => rec[d].reviewed

\* "activate | received -> rebuilding -> indexed -> published | Rebuilt active
\* version is eligible" (shared-interfaces.md:537): an activation that completes
\* has published the record of its document.
ActivatedEligible ==
    [][\A j \in Created : job[j].kind = "activate" /\ Uncompleted(j)
                            /\ job'[j].state = "completed" =>
          \A d \in job[j].docs : rec'[d].published /\ ~rec'[d].quarantined]_vars

\* "preserving unrelated vectors" (architecture.md): a cleanup past draining
\* is not about to remove the index entry of a published record that it does
\* not touch.
UnrelatedEntryKept ==
    \A j \in Created, d \in Doc :
        /\ OpenCleanup(j) /\ d \notin job[j].docs
        /\ At(j, Cleanup, {"sanitizing", "rebuilding", "removing_index", "verifying"})
        /\ doc[d].state = "live" /\ rec[d].published /\ ~rec[d].quarantined
        => rec[d].entry \notin work[j].removals
=============================================================================
