----------------------------- MODULE JobsProofs -----------------------------
(***************************************************************************)
(* Jobs keeps its types, its fences and leases and the promise of Barrier, *)
(* and the inventory of a cleanup is complete, for every value of the      *)
(* constants.                                                              *)
(***************************************************************************)
EXTENDS Jobs, TLAPS

\* Every stage of every kind's sequence is a stage.
LEMMA SequenceStages ==
    ASSUME NEW kind \in Kind
    PROVE  /\ Len(Sequence[kind]) \in Nat
           /\ Len(Sequence[kind]) >= 4
           /\ \A i \in 1 .. Len(Sequence[kind]) : Sequence[kind][i] \in Stage
           /\ InitialStage(kind) \in Stage
<1>1. CASE kind = "ingest"
      BY <1>1 DEF Kind, Sequence, Stage, InitialStage, Cleanup
<1>2. CASE kind = "activate"
      BY <1>2 DEF Kind, Sequence, Stage, InitialStage, Cleanup
<1>3. CASE kind = "deactivate"
      BY <1>3 DEF Kind, Sequence, Stage, InitialStage, Cleanup
<1>4. CASE kind \in Cleanup
      BY <1>4 DEF Kind, Sequence, Stage, InitialStage, Cleanup, CleanupSequence
<1>5. CASE kind = "rebuild_aggregate"
      BY <1>5 DEF Kind, Sequence, Stage, InitialStage, Cleanup
<1> QED BY <1>1, <1>2, <1>3, <1>4, <1>5 DEF Kind, Cleanup

\* The job a command or a publication creates is a job row (_new_job).
LEMMA NewJobType ==
    ASSUME NEW kind \in Kind, NEW docs \in SUBSET Doc, NEW person \in Person \cup {None},
           NEW life \in Nat, NEW stage \in Stage
    PROVE  NewJob(kind, docs, person, life, stage) \in JobRow
BY DEF NewJob, JobRow

\* The work plan created with it is a work row (_new_job).
LEMMA NewWorkType ==
    ASSUME NEW refs \in [Doc -> Nat], NEW removals \in SUBSET Entry, NEW fresh \in BOOLEAN
    PROVE  NewWork(refs, removals, fresh) \in WorkRow
BY DEF NewWork, NoWork, WorkRow

\* Moving the corpus generation keeps every work plan well formed (_invalidate).
LEMMA InvalidatedType ==
    ASSUME NEW w \in [Job -> WorkRow]
    PROVE  Invalidated(w) \in [Job -> WorkRow]
BY DEF Invalidated, WorkRow

\* The state of a new project is type correct (fresh_state).
LEMMA InitType == Init => TypeOK
<1> SUFFICES ASSUME Init PROVE TypeOK
    OBVIOUS
<1>1. NoJob \in JobRow
      BY DEF NoJob, JobRow
<1>2. NoWork \in WorkRow
      BY DEF NoWork, NoRefs, WorkRow
<1>3. NoDoc \in DocumentRow /\ NoRecord \in RecordRow
      BY DEF NoDoc, NoRecord, DocumentRow, RecordRow
<1>4. Created = {}
      BY DEF Init, Created
<1>5. njobs \in 0 .. MaxJobs
      BY ConstantsAssumption DEF Init
<1>6. op \in [Job -> [Slot -> OpState]] /\ \A j \in Job, d \in Doc : op[j][d] = "none"
      BY DEF Init, OpState, Slot
<1> QED BY <1>1, <1>2, <1>3, <1>4, <1>5, <1>6 DEF Init, TypeOK

\* Accepting an upload preserves type correctness (submit_upload).
LEMMA SubmitType ==
    ASSUME TypeOK, NEW d \in Doc, SubmitUpload(d)
    PROVE  TypeOK'
<1>1. njobs + 1 \in Job /\ njobs' = njobs + 1 /\ njobs' \in 0 .. MaxJobs
      BY ConstantsAssumption DEF SubmitUpload, TypeOK, Job
<1>2. job' \in [Job -> JobRow]
      BY <1>1, NewJobType DEF SubmitUpload, TypeOK, Kind, Stage
<1>3. work' \in [Job -> WorkRow]
      BY <1>1, NewWorkType DEF SubmitUpload, TypeOK, NoRefs
<1>4. doc' \in [Doc -> DocumentRow]
      BY <1>1 DEF SubmitUpload, TypeOK, DocumentRow
<1>5. \A j \in Created' : job'[j].kind \in Kind /\ job'[j].stage \in Stage
      BY <1>1 DEF SubmitUpload, TypeOK, NewJob, Created, Kind, Stage, Job
<1>6. \A j \in Job \ Created' : job'[j] = NoJob
      BY <1>1 DEF SubmitUpload, TypeOK, Created, Job
<1> QED BY <1>1, <1>2, <1>3, <1>4, <1>5, <1>6 DEF SubmitUpload, TypeOK, project, ledger

\* A job that is somewhere in its life exists.
LEMMA StateCreated ==
    ASSUME TypeOK, NEW j \in Job, job[j].state # "none"
    PROVE  j \in Created
BY DEF TypeOK, NoJob

\* A document a lifecycle command touched is a document row (mutate_document).
LEMMA MutatedDocType ==
    ASSUME NEW r \in DocumentRow, NEW j \in Job, NEW kind
    PROVE  MutatedDocument(r, kind, j) \in DocumentRow
BY DEF MutatedDocument, DocumentRow

\* A record a lifecycle command touched is a record row (mutate_document).
LEMMA MutatedRecordType ==
    ASSUME NEW r \in RecordRow, NEW kind
    PROVE  MutatedRecord(r, kind) \in RecordRow
BY DEF MutatedRecord, RecordRow

\* A lifecycle command preserves type correctness; the removals of its plan
\* are the entries the document's record has (mutate_document).
LEMMA MutateType ==
    ASSUME TypeOK, NEW d \in Doc, NEW kind \in {"activate", "deactivate", "delete_document"},
           MutateDocument(d, kind)
    PROVE  TypeOK'
<1>1. njobs + 1 \in Job /\ njobs' = njobs + 1 /\ njobs' \in 0 .. MaxJobs
      BY ConstantsAssumption DEF MutateDocument, TypeOK, Job
<1>2. kind \in Kind /\ InitialStage(kind) \in Stage
      BY SequenceStages DEF Kind
<1>3. lifecycle_revision' \in Nat /\ lifecycle_revision' = lifecycle_revision + 1
      BY DEF MutateDocument, TypeOK
<1>4. job' \in [Job -> JobRow]
      BY <1>1, <1>2, <1>3, NewJobType DEF MutateDocument, TypeOK
<1>5. EntriesOf({d}) \in SUBSET Entry
      BY DEF EntriesOf, TypeOK, RecordRow
<1>6. rec[d].version \in Nat
      BY DEF TypeOK, RecordRow
<1>7. work' \in [Job -> WorkRow]
      BY <1>1, <1>5, <1>6, NewWorkType, InvalidatedType DEF MutateDocument, TypeOK, NoRefs
<1>8. doc' \in [Doc -> DocumentRow]
      BY <1>1, MutatedDocType DEF MutateDocument, TypeOK
<1>11. rec' \in [Doc -> RecordRow]
      BY MutatedRecordType DEF MutateDocument, TypeOK
<1>9. \A j \in Created' : job'[j].kind \in Kind /\ job'[j].stage \in Stage
      BY <1>1, <1>2 DEF MutateDocument, TypeOK, NewJob, Created, Job
<1>10. \A j \in Job \ Created' : job'[j] = NoJob
      BY <1>1 DEF MutateDocument, TypeOK, Created, Job
<1> QED BY <1>1, <1>3, <1>4, <1>7, <1>8, <1>9, <1>10, <1>11 DEF MutateDocument, TypeOK, ledger

\* A quarantined record is a record row (erase_person, associate_person).
LEMMA QuarantinedType ==
    ASSUME NEW r \in RecordRow
    PROVE  [r EXCEPT !.quarantined = TRUE] \in RecordRow
BY DEF RecordRow

\* Requesting an erasure preserves type correctness (erase_person).
LEMMA EraseType ==
    ASSUME TypeOK, NEW p \in Person, ErasePerson(p)
    PROVE  TypeOK'
<1> DEFINE affected == {d \in Doc : Occurs(p, d)}
<1>1. njobs + 1 \in Job /\ njobs' = njobs + 1 /\ njobs' \in 0 .. MaxJobs
      BY ConstantsAssumption DEF ErasePerson, TypeOK, Job
<1>2. lifecycle_revision' \in Nat /\ lifecycle_revision' = lifecycle_revision + 1
      BY DEF ErasePerson, TypeOK
<1>3. job' \in [Job -> JobRow]
      BY <1>1, <1>2, NewJobType DEF ErasePerson, TypeOK, Kind, Stage
<1>4. EntriesOf(affected) \in SUBSET Entry
      BY DEF EntriesOf, TypeOK, RecordRow
<1>5. work' \in [Job -> WorkRow]
      BY <1>1, <1>4, NewWorkType, InvalidatedType DEF ErasePerson, TypeOK, NoRefs
<1>6. rec' \in [Doc -> RecordRow]
      BY QuarantinedType DEF ErasePerson, TypeOK
<1>7. people' \in [Person -> {"active", "erasing", "gone"}]
      BY DEF ErasePerson, TypeOK
<1>8. \A j \in Created' : job'[j].kind \in Kind /\ job'[j].stage \in Stage
      BY <1>1 DEF ErasePerson, TypeOK, NewJob, Created, Kind, Stage, Job
<1>9. \A j \in Job \ Created' : job'[j] = NoJob
      BY <1>1 DEF ErasePerson, TypeOK, Created, Job
<1> QED BY <1>1, <1>2, <1>3, <1>5, <1>6, <1>7, <1>8, <1>9 DEF ErasePerson, TypeOK, ledger

\* Associating a person preserves type correctness (associate_person).
LEMMA AssociateType ==
    ASSUME TypeOK, NEW p \in Person, AssociatePerson(p)
    PROVE  TypeOK'
<1>1. rec' \in [Doc -> RecordRow]
      BY QuarantinedType DEF AssociatePerson, TypeOK
<1>2. work' \in [Job -> WorkRow]
      BY InvalidatedType DEF AssociatePerson, TypeOK
<1> QED BY <1>1, <1>2 DEF AssociatePerson, TypeOK, project, ledger, Created

\* Marking the documents of a job keeps them document rows (retry_job, fail).
LEMMA MarkedType ==
    ASSUME TypeOK, NEW D, NEW status \in {"pending", "running", "failed", "completed"}
    PROVE  Marked(D, status) \in [Doc -> DocumentRow]
<1>1. ASSUME NEW d \in Doc
      PROVE  [doc[d] EXCEPT !.processing = status] \in DocumentRow /\ doc[d] \in DocumentRow
  <2>1. doc[d] \in DocumentRow
        BY DEF TypeOK
  <2> QED BY <2>1 DEF DocumentRow
<1> QED BY <1>1 DEF Marked

\* What an action that rewrites the row of one existing job owes to TypeOK.
LEMMA JobRewritten ==
    ASSUME TypeOK, NEW j \in Created, NEW r \in JobRow, r.kind \in Kind, r.stage \in Stage,
           job' = [job EXCEPT ![j] = r], njobs' = njobs
    PROVE  /\ job' \in [Job -> JobRow]
           /\ \A i \in Created' : job'[i].kind \in Kind /\ job'[i].stage \in Stage
           /\ \A i \in Job \ Created' : job'[i] = NoJob
<1>1. Created \subseteq Job /\ Created' = Created
      BY ConstantsAssumption DEF TypeOK, Created, Job
<1> QED BY <1>1 DEF TypeOK

\* A job put back to pending is a job row (retry_job).
LEMMA RetriedType ==
    ASSUME NEW r \in JobRow, r.kind \in Kind, r.stage \in Stage
    PROVE  LET s == [r EXCEPT !.state = "pending", !.code = None,
                              !.retryable = FALSE, !.lease = "none"]
           IN  s \in JobRow /\ s.kind \in Kind /\ s.stage \in Stage
BY DEF JobRow

\* A retry preserves type correctness (retry_job).
LEMMA RetryType ==
    ASSUME TypeOK, NEW j \in Job, RetryJob(j)
    PROVE  TypeOK'
<1>1. j \in Created
      BY StateCreated DEF RetryJob, MayRetry
<1>2. doc' \in [Doc -> DocumentRow]
      BY MarkedType DEF RetryJob
<1>3. job[j] \in JobRow /\ job[j].kind \in Kind /\ job[j].stage \in Stage
      BY <1>1 DEF TypeOK
<1>4. /\ job' \in [Job -> JobRow]
      /\ \A i \in Created' : job'[i].kind \in Kind /\ job'[i].stage \in Stage
      /\ \A i \in Job \ Created' : job'[i] = NoJob
      BY <1>1, <1>3, RetriedType, JobRewritten DEF RetryJob
<1> QED BY <1>2, <1>4 DEF RetryJob, TypeOK, project, ledger

\* A lease that runs out preserves type correctness (_check).
LEMMA ExpireType ==
    ASSUME TypeOK, NEW j \in Job, Expire(j)
    PROVE  TypeOK'
<1>1. j \in Created
      BY StateCreated DEF Expire
<1>2. job[j] \in JobRow /\ job[j].kind \in Kind /\ job[j].stage \in Stage
      BY <1>1 DEF TypeOK
<1> DEFINE r == [job[j] EXCEPT !.lease = "expired"]
<1>3. r \in JobRow /\ r.kind \in Kind /\ r.stage \in Stage
      BY <1>2 DEF JobRow
<1>4. job' = [job EXCEPT ![j] = r] /\ njobs' = njobs
      BY DEF Expire
<1> HIDE DEF r
<1>5. /\ job' \in [Job -> JobRow]
      /\ \A i \in Created' : job'[i].kind \in Kind /\ job'[i].stage \in Stage
      /\ \A i \in Job \ Created' : job'[i] = NoJob
      BY <1>1, <1>3, <1>4, JobRewritten
<1> QED BY <1>5 DEF Expire, TypeOK, project, ledger

\* A job somebody works on exists, and its row is well typed.
LEMMA WorkingRow ==
    ASSUME TypeOK, NEW j \in Job, Working(j)
    PROVE  /\ j \in Created
           /\ job[j] \in JobRow /\ job[j].kind \in Kind /\ job[j].stage \in Stage
           /\ work[j] \in WorkRow
BY StateCreated DEF Working, TypeOK

\* The actions that move one job to another stage.
LEMMA StageMoved ==
    ASSUME TypeOK, NEW j \in Job, Working(j), NEW stage \in Stage,
           job' = [job EXCEPT ![j].stage = stage], njobs' = njobs
    PROVE  /\ job' \in [Job -> JobRow]
           /\ \A i \in Created' : job'[i].kind \in Kind /\ job'[i].stage \in Stage
           /\ \A i \in Job \ Created' : job'[i] = NoJob
<1> DEFINE r == [job[j] EXCEPT !.stage = stage]
<1>1. r \in JobRow /\ r.kind \in Kind /\ r.stage \in Stage
      BY WorkingRow DEF JobRow
<1>2. job' = [job EXCEPT ![j] = r]
      OBVIOUS
<1> HIDE DEF r
<1> QED BY <1>1, <1>2, WorkingRow, JobRewritten

\* The next stage of a sequence is a stage: advancing preserves type
\* correctness (advance).
LEMMA AdvanceType ==
    ASSUME TypeOK, NEW j \in Job, Advance(j)
    PROVE  TypeOK'
<1>1. Working(j)
      BY DEF Advance, Ready
<1>2. PICK i \in 1 .. (Len(Sequence[job[j].kind]) - 2) :
           job' = [job EXCEPT ![j].stage = Sequence[job[j].kind][i + 1]]
      BY DEF Advance
<1>3. Sequence[job[j].kind][i + 1] \in Stage
  <2>1. job[j].kind \in Kind
        BY <1>1, WorkingRow
  <2>2. i + 1 \in 1 .. Len(Sequence[job[j].kind])
        BY <2>1, SequenceStages
  <2> QED BY <2>1, <2>2, SequenceStages
<1>4. njobs' = njobs
      BY DEF Advance
<1>5. /\ job' \in [Job -> JobRow]
      /\ \A k \in Created' : job'[k].kind \in Kind /\ job'[k].stage \in Stage
      /\ \A k \in Job \ Created' : job'[k] = NoJob
      BY <1>1, <1>2, <1>3, <1>4, StageMoved
<1> QED BY <1>5 DEF Advance, TypeOK, project, ledger

\* The first stage of a cleanup preserves type correctness (prepare_cleanup).
LEMMA InvalidatingType ==
    ASSUME TypeOK, NEW j \in Job, Invalidating(j)
    PROVE  TypeOK'
<1>1. /\ job' \in [Job -> JobRow]
      /\ \A i \in Created' : job'[i].kind \in Kind /\ job'[i].stage \in Stage
      /\ \A i \in Job \ Created' : job'[i] = NoJob
      BY StageMoved DEF Invalidating, Ready, Stage
<1> QED BY <1>1 DEF Invalidating, TypeOK, project, ledger

\* A failure preserves type correctness (fail).
LEMMA FailType ==
    ASSUME TypeOK, NEW j \in Job, NEW code \in Codes, Fail(j, code)
    PROVE  TypeOK'
<1>1. Working(j)
      BY DEF Fail
<1> DEFINE b == code = "transient" \/ Recoverable(job[j].kind, job[j].stage, code)
           r == [job[j] EXCEPT !.state = "failed", !.code = code, !.retryable = b]
<1>2. b \in BOOLEAN /\ code \in FailureCode
      BY ConstantsAssumption
<1>3. job' = [job EXCEPT ![j] = r] /\ njobs' = njobs
      BY DEF Fail
<1> HIDE DEF b
<1>4. r \in JobRow /\ r.kind \in Kind /\ r.stage \in Stage
      BY <1>1, <1>2, WorkingRow DEF JobRow
<1> HIDE DEF r
<1>5. /\ job' \in [Job -> JobRow]
      /\ \A i \in Created' : job'[i].kind \in Kind /\ job'[i].stage \in Stage
      /\ \A i \in Job \ Created' : job'[i] = NoJob
      BY <1>1, <1>3, <1>4, WorkingRow, JobRewritten
<1>6. doc' \in [Doc -> DocumentRow]
      BY MarkedType DEF Fail
<1> QED BY <1>5, <1>6 DEF Fail, TypeOK, project, ledger

\* A record the privacy plan was applied to is a record row (prepare_ingestion).
LEMMA RecordReviewed ==
    ASSUME NEW r \in RecordRow, NEW reviewed \in BOOLEAN, NEW quarantined \in BOOLEAN
    PROVE  [r EXCEPT !.reviewed = reviewed, !.quarantined = quarantined] \in RecordRow
BY DEF RecordRow

\* Noting that a replacement has removed obsolete entries preserves type
\* correctness (run_once).
LEMMA ObsoleteIndexRemovedType ==
    ASSUME TypeOK, NEW j \in Job, ObsoleteIndexRemoved(j)
    PROVE  TypeOK'
<1> DEFINE r == [work[j] EXCEPT !.cleaned = TRUE]
<1>1. r \in WorkRow
  <2>1. work[j] \in WorkRow
        BY DEF TypeOK
  <2> QED BY <2>1 DEF WorkRow
<1>2. work' = [work EXCEPT ![j] = r]
      BY DEF ObsoleteIndexRemoved
<1> HIDE DEF r
<1>3. work' \in [Job -> WorkRow]
      BY <1>1, <1>2 DEF TypeOK
<1> QED BY <1>3 DEF ObsoleteIndexRemoved, TypeOK, project, ledger, Created

\* Parsing makes record rows and a work plan for them (prepare_ingestion).
LEMMA ParseType ==
    ASSUME TypeOK, NEW j \in Job, Parse(j)
    PROVE  TypeOK'
<1>1. Working(j)
      BY DEF Parse, Ready
<1>2. /\ job' \in [Job -> JobRow]
      /\ \A i \in Created' : job'[i].kind \in Kind /\ job'[i].stage \in Stage
      /\ \A i \in Job \ Created' : job'[i] = NoJob
      BY <1>1, StageMoved DEF Parse, Stage
<1>3. \A d \in Doc : [NoRecord EXCEPT !.version = 1, !.names = Mentions[d],
                                     !.quarantined = TRUE] \in RecordRow
      BY ConstantsAssumption DEF NoRecord, RecordRow
<1>4. rec' \in [Doc -> RecordRow]
      BY <1>3 DEF Parse, TypeOK
<1> DEFINE refs == [d \in Doc |-> IF d \in job[j].docs THEN 1 ELSE 0]
           r == [work[j] EXCEPT !.refs = refs]
<1>5. refs \in [Doc -> Nat]
      OBVIOUS
<1>6. work' = [work EXCEPT ![j] = r]
      BY DEF Parse
<1> HIDE DEF refs
<1>7. r \in WorkRow
      BY <1>1, <1>5, WorkingRow DEF WorkRow
<1> HIDE DEF r
<1>8. work' \in [Job -> WorkRow]
      BY <1>6, <1>7 DEF TypeOK
<1>9. doc' \in [Doc -> DocumentRow]
      BY MarkedType DEF Parse
<1> QED BY <1>2, <1>4, <1>8, <1>9 DEF Parse, TypeOK, project, ledger

\* Applying the privacy plans keeps every record a record row (prepare_ingestion).
LEMMA CompiledType ==
    ASSUME TypeOK, NEW j \in Job, NEW b \in BOOLEAN
    PROVE  Compiled(j, b) \in [Doc -> RecordRow]
<1>1. \A d \in Doc : [rec[d] EXCEPT !.reviewed = ~b, !.quarantined = b] \in RecordRow
      BY RecordReviewed DEF TypeOK
<1> QED BY <1>1 DEF Compiled, TypeOK

\* A completed privacy review preserves type correctness (prepare_ingestion).
LEMMA PrivacyReadyType ==
    ASSUME TypeOK, NEW j \in Job, PrivacyReady(j)
    PROVE  TypeOK'
<1>1. /\ job' \in [Job -> JobRow]
      /\ \A i \in Created' : job'[i].kind \in Kind /\ job'[i].stage \in Stage
      /\ \A i \in Job \ Created' : job'[i] = NoJob
      BY StageMoved DEF PrivacyReady, Ready, Stage
<1>2. rec' \in [Doc -> RecordRow]
      BY CompiledType DEF PrivacyReady
<1> QED BY <1>1, <1>2 DEF PrivacyReady, TypeOK, project, ledger

\* An unresolved privacy review preserves type correctness (prepare_ingestion).
LEMMA PrivacyUnresolvedType ==
    ASSUME TypeOK, NEW j \in Job, PrivacyUnresolved(j)
    PROVE  TypeOK'
<1>1. Working(j)
      BY DEF PrivacyUnresolved, Ready
<1> DEFINE r == [job[j] EXCEPT !.state = "failed", !.code = "transient", !.retryable = TRUE]
<1>2. job' = [job EXCEPT ![j] = r] /\ njobs' = njobs
      BY DEF PrivacyUnresolved
<1>3. r \in JobRow /\ r.kind \in Kind /\ r.stage \in Stage
      BY <1>1, WorkingRow DEF JobRow, FailureCode
<1> HIDE DEF r
<1>4. /\ job' \in [Job -> JobRow]
      /\ \A i \in Created' : job'[i].kind \in Kind /\ job'[i].stage \in Stage
      /\ \A i \in Job \ Created' : job'[i] = NoJob
      BY <1>1, <1>2, <1>3, WorkingRow, JobRewritten
<1>5. doc' \in [Doc -> DocumentRow] /\ rec' \in [Doc -> RecordRow]
      BY MarkedType, CompiledType DEF PrivacyUnresolved
<1> QED BY <1>4, <1>5 DEF PrivacyUnresolved, TypeOK, project, ledger

\* The inventory takes up entries only, since an operation in the ledger has
\* a checkpointed entry (prepare_cleanup inventory).
LEMMA InventoryType ==
    ASSUME TypeOK, NEW j \in Job, Inventory(j)
    PROVE  TypeOK'
<1>1. /\ job' \in [Job -> JobRow]
      /\ \A i \in Created' : job'[i].kind \in Kind /\ job'[i].stage \in Stage
      /\ \A i \in Job \ Created' : job'[i] = NoJob
      BY StageMoved DEF Inventory, Ready, Stage
<1>2. Inventoried(j) \subseteq Entry
  <2> SUFFICES ASSUME NEW i \in Created, NEW d \in Residual(i, j)
               PROVE  entry[i][d] \in Entry
      BY DEF Inventoried
  <2>1. i \in Job /\ d \in Doc /\ op[i][d] # "none"
        BY ConstantsAssumption DEF Residual, Created, Job, TypeOK
  <2> QED BY <2>1 DEF TypeOK
<1> DEFINE r == [work[j] EXCEPT !.removals = @ \cup Inventoried(j)]
<1>3. r \in WorkRow
  <2>1. work[j] \in WorkRow /\ work[j].removals \cup Inventoried(j) \subseteq Entry
        BY <1>2 DEF TypeOK, WorkRow
  <2> QED BY <2>1 DEF WorkRow
<1>4. work' = [work EXCEPT ![j] = r]
      BY DEF Inventory
<1> HIDE DEF r
<1>5. work' \in [Job -> WorkRow]
      BY <1>3, <1>4 DEF TypeOK
<1> QED BY <1>1, <1>5 DEF Inventory, TypeOK, project, ledger

\* Draining preserves type correctness (prepare_cleanup draining).
LEMMA DrainType ==
    ASSUME TypeOK, NEW j \in Job, Drain(j)
    PROVE  TypeOK'
<1>1. /\ job' \in [Job -> JobRow]
      /\ \A i \in Created' : job'[i].kind \in Kind /\ job'[i].stage \in Stage
      /\ \A i \in Job \ Created' : job'[i] = NoJob
      BY StageMoved DEF Drain, Ready, Stage
<1>2. \A s \in OpState : Cancelled(s) \in OpState /\ (s = "none" => Cancelled(s) = "none")
      BY DEF Cancelled, OpState
<1>3. op' \in [Job -> [Slot -> OpState]]
      BY <1>2 DEF Drain, TypeOK
<1>4. \A i \in Job, d \in Doc : op'[i][d] # "none" => op[i][d] # "none"
      BY <1>2 DEF Drain, TypeOK, Slot
<1> QED BY <1>1, <1>3, <1>4 DEF Drain, TypeOK, project, ledger

\* Dropping a deleted document preserves type correctness (prepare_cleanup).
LEMMA SanitizeDeletedType ==
    ASSUME TypeOK, NEW j \in Job, SanitizeDeleted(j)
    PROVE  TypeOK'
<1>1. /\ job' \in [Job -> JobRow]
      /\ \A i \in Created' : job'[i].kind \in Kind /\ job'[i].stage \in Stage
      /\ \A i \in Job \ Created' : job'[i] = NoJob
      BY StageMoved DEF SanitizeDeleted, Ready, Stage
<1>2. [NoDoc EXCEPT !.state = "gone"] \in DocumentRow
      BY DEF NoDoc, DocumentRow
<1>3. NoRecord \in RecordRow
      BY DEF NoRecord, RecordRow
<1>4. doc' \in [Doc -> DocumentRow] /\ rec' \in [Doc -> RecordRow]
      BY <1>2, <1>3 DEF SanitizeDeleted, TypeOK
<1> QED BY <1>1, <1>4 DEF SanitizeDeleted, TypeOK, project, ledger

\* A record rewritten without the erased person is a record row
\* (prepare_cleanup sanitizing).
LEMMA SanitizedRecordType ==
    ASSUME NEW r \in RecordRow, NEW p
    PROVE  SanitizedRecord(r, p) \in RecordRow
<1> DEFINE v == r.version + 1
           n == r.names \ {p}
<1>1. v \in Nat /\ n \in SUBSET Person
      BY DEF RecordRow
<1>2. SanitizedRecord(r, p) = [r EXCEPT !.version = v, !.names = n, !.published = FALSE,
                                         !.quarantined = FALSE, !.entry = None]
      BY DEF SanitizedRecord
<1> HIDE DEF v, n
<1> QED BY <1>1, <1>2 DEF RecordRow

\* A document whose upload was dropped is a document row (prepare_cleanup).
LEMMA DocumentRewritten ==
    ASSUME NEW s \in DocumentRow, NEW raw \in BOOLEAN,
           NEW processing \in {"none", "pending", "running", "failed", "completed"}
    PROVE  [s EXCEPT !.raw = raw, !.processing = processing] \in DocumentRow
BY DEF DocumentRow

\* An ingestion an erasure gave up is a job row (prepare_cleanup sanitizing).
LEMMA SupersededType ==
    ASSUME NEW r \in JobRow
    PROVE  LET s == [r EXCEPT !.state = "failed", !.code = "superseded", !.retryable = FALSE]
           IN  /\ s \in JobRow /\ s.kind = r.kind /\ s.stage = r.stage
               /\ Superseded(r) \in JobRow
               /\ Superseded(r).kind = r.kind /\ Superseded(r).stage = r.stage
<1>1. LET s == [r EXCEPT !.state = "failed", !.code = "superseded", !.retryable = FALSE]
      IN  s \in JobRow /\ s.kind = r.kind /\ s.stage = r.stage
      BY DEF JobRow
<1>2. /\ Superseded(r) \in JobRow
      /\ Superseded(r).kind = r.kind /\ Superseded(r).stage = r.stage
      BY DEF JobRow, Superseded
<1> QED BY <1>1, <1>2

\* The sanitizing pass of an erasure preserves type correctness
\* (prepare_cleanup sanitizing).
LEMMA SanitizeErasedType ==
    ASSUME TypeOK, NEW j \in Job, SanitizeErased(j)
    PROVE  TypeOK'
<1> DEFINE p == job[j].person
           affected == {d \in Doc : Occurs(p, d)}
           ingests == {i \in Created : job[i].kind = "ingest" /\ Uncompleted(i)}
           refs == [d \in Doc |-> IF d \in affected THEN rec[d].version + 1 ELSE 0]
           moved == [job[j] EXCEPT !.stage = "rebuilding"]
<1>1. Working(j) /\ njobs' = njobs
      BY DEF SanitizeErased, Ready
<1>2. rec' \in [Doc -> RecordRow]
      BY SanitizedRecordType DEF SanitizeErased, TypeOK
<1>3. doc' \in [Doc -> DocumentRow]
  <2> DEFINE raw(d) == doc[d].raw /\ d \notin job[j].docs
             processing(d) == IF /\ doc[d].state # "gone"
                                 /\ \E i \in ingests : d \in job[i].docs
                              THEN "failed" ELSE doc[d].processing
  <2>1. doc' = [d \in Doc |-> [doc[d] EXCEPT !.raw = raw(d), !.processing = processing(d)]]
        BY DEF SanitizeErased
  <2>2. \A d \in Doc : /\ doc[d] \in DocumentRow
                       /\ raw(d) \in BOOLEAN
                       /\ processing(d) \in {"none", "pending", "running", "failed", "completed"}
        BY DEF TypeOK, DocumentRow
  <2> HIDE DEF raw, processing
  <2>3. \A d \in Doc : [doc[d] EXCEPT !.raw = raw(d), !.processing = processing(d)] \in DocumentRow
        BY <2>2, DocumentRewritten
  <2> QED BY <2>1, <2>3
<1>4. moved \in JobRow /\ moved.kind \in Kind /\ moved.stage \in Stage
      BY <1>1, WorkingRow DEF JobRow, Stage
<1>5. job' = [i \in Job |->
             IF i \in ingests
             THEN [job[i] EXCEPT !.state = "failed", !.code = "superseded",
                                 !.retryable = FALSE]
             ELSE IF i = j THEN moved ELSE job[i]]
      BY DEF SanitizeErased
<1>6. j \in Created /\ Created \subseteq Job /\ Created' = Created
      BY <1>1, WorkingRow, ConstantsAssumption DEF TypeOK, Created, Job
<1> HIDE DEF moved
<1>7. job' \in [Job -> JobRow]
      BY <1>4, <1>5, SupersededType DEF TypeOK
<1>8. \A i \in Created' : job'[i].kind \in Kind /\ job'[i].stage \in Stage
      BY <1>4, <1>5, <1>6, SupersededType DEF TypeOK
<1>9. \A i \in Job \ Created' : job'[i] = NoJob
      BY <1>5, <1>6 DEF TypeOK
<1>10. refs \in [Doc -> Nat]
       BY DEF TypeOK, RecordRow
<1>11. work' = [i \in Job |->
             IF i \in ingests THEN [work[i] EXCEPT !.forbidden = TRUE]
             ELSE IF i = j THEN [work[i] EXCEPT !.refs = refs] ELSE work[i]]
       BY DEF SanitizeErased
<1> HIDE DEF refs
<1>12. \A i \in Job : /\ [work[i] EXCEPT !.forbidden = TRUE] \in WorkRow
                      /\ [work[i] EXCEPT !.refs = refs] \in WorkRow
  <2> TAKE i \in Job
  <2>1. work[i] \in WorkRow
        BY DEF TypeOK
  <2>2. [work[i] EXCEPT !.forbidden = TRUE] \in WorkRow
        BY <2>1 DEF WorkRow
  <2>3. [work[i] EXCEPT !.refs = refs] \in WorkRow
        BY <1>10, <2>1 DEF WorkRow
  <2> QED BY <2>2, <2>3
<1>13. work' \in [Job -> WorkRow]
       BY <1>11, <1>12 DEF TypeOK
<1> QED BY <1>2, <1>3, <1>7, <1>8, <1>9, <1>13 DEF SanitizeErased, TypeOK, project, ledger

\* A checkpoint holds an entry of the current version (stage_artifacts).
LEMMA StageArtifactsType ==
    ASSUME TypeOK, NEW j \in Job, NEW d \in Doc, StageArtifacts(j, d)
    PROVE  TypeOK'
<1>1. PICK text \in Draft : entry' = [entry EXCEPT ![j][d] = <<d, work[j].refs[d], text>>]
      BY DEF StageArtifacts
<1>2. work[j].refs[d] \in Nat \ {0}
  <2>1. work[j].refs \in [Doc -> Nat]
        BY DEF TypeOK, WorkRow
  <2>2. work[j].refs[d] # 0
        BY DEF StageArtifacts, Current
  <2> QED BY <2>1, <2>2
<1>3. <<d, work[j].refs[d], text>> \in Entry
      BY <1>2 DEF Entry
<1>4. entry' \in [Job -> [Doc -> Entry \cup {None}]]
      BY <1>1, <1>3 DEF TypeOK
<1>5. op[j][d] = "none"
      BY DEF StageArtifacts, TypeOK
<1>6. \A i \in Job, c \in Doc : op[i][c] # "none" => entry'[i][c] # None
      BY <1>1, <1>5 DEF TypeOK
<1> QED BY <1>4, <1>6 DEF StageArtifacts, TypeOK, project, Created

\* What an action that moves one operation of the ledger owes to TypeOK.
LEMMA OperationMoved ==
    ASSUME TypeOK, NEW j \in Job, NEW x \in Slot, NEW s \in OpState,
           x \in Doc => entry[j][x] # None, op' = [op EXCEPT ![j][x] = s],
           UNCHANGED <<project, doc, rec, njobs, job, work, entry, purged>>
    PROVE  TypeOK'
<1>1. op' \in [Job -> [Slot -> OpState]]
      BY DEF TypeOK
<1>2. \A i \in Job, d \in Doc : op'[i][d] # "none" => entry[i][d] # None
      BY DEF TypeOK, Slot
<1> QED BY <1>1, <1>2 DEF TypeOK, project, Created

\* An operation is prepared for a checkpointed entry only (Ledger.prepare).
LEMMA PrepareType ==
    ASSUME TypeOK, NEW j \in Job, NEW x \in Slot, Prepare(j, x)
    PROVE  TypeOK'
<1>1. x \in Doc => entry[j][x] # None
      BY ConstantsAssumption DEF Prepare
<1> QED BY <1>1, OperationMoved DEF Prepare, OpState

\* Starting an operation preserves type correctness (Ledger.start).
LEMMA StartType ==
    ASSUME TypeOK, NEW j \in Job, NEW x \in Slot, Start(j, x)
    PROVE  TypeOK'
<1>1. x \in Doc => entry[j][x] # None
      BY DEF Start, TypeOK
<1> QED BY <1>1, OperationMoved DEF Start, OpState

\* A report, however late, preserves type correctness (Ledger.report).
LEMMA ReportType ==
    ASSUME TypeOK, NEW j \in Job, NEW x \in Slot, NEW outcome \in Outcomes,
           Report(j, x, outcome)
    PROVE  TypeOK'
<1>1. x \in Doc => entry[j][x] # None
      BY DEF Report, TypeOK
<1>2. outcome \in OpState
      BY ConstantsAssumption DEF OpState
<1> QED BY <1>1, <1>2, OperationMoved DEF Report

\* A published record is a record row whose entry, if its job wrote one, is
\* the checkpointed one (_apply_batches).
LEMMA PublishedType ==
    ASSUME TypeOK, NEW j \in Job
    PROVE  Published(j) \in [Doc -> RecordRow]
<1>1. \A r \in RecordRow, e \in Entry \cup {None} :
         [r EXCEPT !.published = TRUE, !.quarantined = FALSE, !.entry = e] \in RecordRow
      BY DEF RecordRow
<1> DEFINE row(d) == [rec[d] EXCEPT !.published = TRUE, !.quarantined = FALSE,
                                     !.entry = entry[j][d]]
<1>2. \A d \in Doc : rec[d] \in RecordRow /\ entry[j][d] \in Entry \cup {None}
      BY DEF TypeOK
<1>3. \A d \in Doc : row(d) \in RecordRow
      BY <1>1, <1>2
<1>4. Published(j) =
         [d \in Doc |->
            IF d \in Refs(j) /\ job[j].kind \in {"ingest", "activate", "erase_person"}
            THEN row(d) ELSE rec[d]]
      BY DEF Published
<1> HIDE DEF row
<1> QED BY <1>2, <1>3, <1>4

\* A completed job is a job row (publish).
LEMMA CompletedRow ==
    ASSUME NEW r \in JobRow, r.kind \in Kind, NEW stage \in Stage
    PROVE  LET c == [r EXCEPT !.state = "completed", !.stage = stage, !.code = None,
                              !.retryable = FALSE, !.lease = "none"]
           IN  c \in JobRow /\ c.kind \in Kind /\ c.stage \in Stage
BY DEF JobRow

\* The plan of the aggregate job is a work row (publish).
LEMMA PublishedWorkType ==
    ASSUME TypeOK, NEW j \in Job, NEW D \in SUBSET Doc, D # {} => njobs + 1 \in Job
    PROVE  PublishedWork(j, D) \in [Job -> WorkRow]
<1> DEFINE refs == [d \in Doc |-> IF d \in D THEN rec[d].version ELSE 0]
<1>1. refs \in [Doc -> Nat]
      BY DEF TypeOK, RecordRow
<1>2. work \in [Job -> WorkRow] /\ Invalidated(work) \in [Job -> WorkRow]
      BY InvalidatedType DEF TypeOK
<1> HIDE DEF refs
<1>3. NewWork(refs, {}, TRUE) \in WorkRow
      BY <1>1, NewWorkType
<1>4. PublishedWork(j, D) \in {work, Invalidated(work),
                              [Invalidated(work) EXCEPT ![njobs + 1] = NewWork(refs, {}, TRUE)]}
      BY DEF PublishedWork, refs
<1>5. CASE D = {}
      BY <1>2, <1>5 DEF PublishedWork
<1>6. CASE D # {}
      BY <1>2, <1>3, <1>4, <1>6
<1> QED BY <1>5, <1>6

\* A publication preserves type correctness, with the aggregate job it may
\* create (publish).
LEMMA PublishType ==
    ASSUME TypeOK, NEW j \in Job, Publish(j)
    PROVE  TypeOK'
<1> DEFINE kind == job[j].kind
           last == Sequence[kind][Len(Sequence[kind])]
           based == kind \in {"ingest", "activate", "erase_person", "deactivate"}
           eligible == IF based THEN Eligible(j, Published(j)) ELSE {}
           row == [job[j] EXCEPT !.state = "completed", !.stage = last, !.code = None,
                                 !.retryable = FALSE, !.lease = "none"]
           completed == [job EXCEPT ![j] = row]
           new == NewJob("rebuild_aggregate", {}, None, lifecycle_revision, "received")
<1>1. Working(j)
      BY DEF Publish, Ready
<1>2. j \in Created /\ job[j] \in JobRow /\ kind \in Kind
      BY <1>1, WorkingRow
<1>3. last \in Stage
      BY <1>2, SequenceStages
<1>4. row \in JobRow /\ row.kind \in Kind /\ row.stage \in Stage
      BY <1>2, <1>3, CompletedRow
<1>5. new \in JobRow /\ new.kind \in Kind /\ new.stage \in Stage
      BY NewJobType DEF NewJob, TypeOK, Kind, Stage
<1>6. /\ eligible \subseteq Doc
      /\ eligible = {} => njobs' = njobs
      /\ eligible # {} => njobs' = njobs + 1 /\ njobs + 1 \in Job
      /\ njobs' \in 0 .. MaxJobs
  <2>1. eligible \subseteq Doc
    <3>1. job[j].docs \subseteq Doc /\ Refs(j) \subseteq Doc
          BY <1>2 DEF JobRow, Refs
    <3> QED BY <3>1 DEF Eligible
  <2> DEFINE created == IF eligible = {} THEN 0 ELSE 1
  <2>2. njobs + created <= MaxJobs /\ njobs' = njobs + created
        BY DEF Publish
  <2> HIDE DEF eligible
  <2>3. njobs \in Nat /\ MaxJobs \in Nat /\ created \in {0, 1}
        BY ConstantsAssumption DEF TypeOK
  <2> QED BY <2>1, <2>2, <2>3 DEF Job
<1>7. job' = IF eligible = {} THEN completed ELSE [completed EXCEPT ![njobs'] = new]
      BY DEF Publish
<1>8. work' = PublishedWork(j, eligible) /\ rec' = Published(j)
      BY DEF Publish
<1>9. work' \in [Job -> WorkRow] /\ rec' \in [Doc -> RecordRow]
  <2> HIDE DEF eligible
  <2> QED BY <1>6, <1>8, PublishedWorkType, PublishedType
<1> HIDE DEF row, new, eligible
<1>10. /\ job' \in [Job -> JobRow]
       /\ \A i \in Created' : job'[i].kind \in Kind /\ job'[i].stage \in Stage
       /\ \A i \in Job \ Created' : job'[i] = NoJob
  <2>1. CASE eligible = {}
        BY <1>2, <1>4, <1>6, <1>7, <2>1, JobRewritten
  <2>2. CASE eligible # {}
    <3>1. job' \in [Job -> JobRow]
          BY <1>4, <1>5, <1>6, <1>7, <2>2 DEF TypeOK
    <3>2. \A i \in Created' : i \in Created \/ i = njobs + 1
          BY <1>6, <2>2 DEF Created, TypeOK
    <3>3. \A i \in Job \ Created' : i \in Job \ Created /\ i # njobs + 1
          BY <1>6, <2>2 DEF Created, TypeOK, Job
    <3>4. Created \subseteq Job /\ njobs + 1 \notin Created
          BY ConstantsAssumption DEF Created, TypeOK, Job
    <3>5. /\ job'[njobs + 1] = new
          /\ \A i \in Job \ {njobs + 1} : job'[i] = completed[i]
          BY <1>6, <1>7, <2>2 DEF TypeOK
    <3>6. completed[j] = row /\ \A i \in Job \ {j} : completed[i] = job[i]
          BY <1>2, <3>4 DEF TypeOK
    <3> HIDE DEF completed
    <3>7. ASSUME NEW i \in Created' PROVE job'[i].kind \in Kind /\ job'[i].stage \in Stage
      <4>1. CASE i = njobs + 1
            BY <1>5, <3>5, <4>1
      <4>2. CASE i = j
            BY <1>2, <1>4, <3>4, <3>5, <3>6, <4>2
      <4>3. CASE i \in Created \ {j}
            BY <3>4, <3>5, <3>6, <4>3 DEF TypeOK
      <4> QED BY <3>2, <4>1, <4>2, <4>3
    <3>8. ASSUME NEW i \in Job \ Created' PROVE job'[i] = NoJob
          BY <1>2, <3>3, <3>5, <3>6 DEF TypeOK
    <3> QED BY <3>1, <3>7, <3>8
  <2> QED BY <2>1, <2>2
<1>11. doc' \in [Doc -> DocumentRow]
  <2>1. \A r \in DocumentRow : [r EXCEPT !.processing = "completed"] \in DocumentRow
        BY DEF DocumentRow
  <2> QED BY <2>1 DEF Publish, TypeOK
<1>12. /\ write_barrier' \in BOOLEAN
       /\ people' \in [Person -> {"active", "erasing", "gone"}]
       /\ purged' \in [Job -> SUBSET Doc]
       /\ UNCHANGED <<lifecycle_revision, entry, op>>
       BY DEF Publish, TypeOK
<1> QED BY <1>6, <1>9, <1>10, <1>11, <1>12 DEF TypeOK

\* The renumbering of the jobs that are replaced fills the next numbers.
LEMMA RenumberedType ==
    ASSUME TypeOK, NEW n \in 0 .. (MaxJobs - njobs), NEW f \in Renumberings(n)
    PROVE  /\ DOMAIN f = Replaceable /\ Replaceable \subseteq Created
           /\ \A i \in Replaceable : f[i] \in (njobs + 1) .. (njobs + n)
           /\ \A k \in (njobs + 1) .. (njobs + n) : \E i \in Replaceable : f[i] = k
           /\ Created \subseteq Job /\ (njobs + 1) .. (njobs + n) \subseteq Job
           /\ njobs \in Nat /\ n \in Nat /\ njobs + n \in 0 .. MaxJobs
<1>1. njobs \in Nat /\ n \in Nat /\ njobs + n \in 0 .. MaxJobs /\ MaxJobs \in Nat
      BY ConstantsAssumption DEF TypeOK
<1>2. Created \subseteq Job /\ (njobs + 1) .. (njobs + n) \subseteq Job
      BY <1>1 DEF Created, Job
<1>3. /\ DOMAIN f = Replaceable
      /\ \A i \in Replaceable : f[i] \in (njobs + 1) .. (njobs + n)
      /\ \A k \in (njobs + 1) .. (njobs + n) : \E i \in Replaceable : f[i] = k
      BY DEF Renumberings
<1>4. Replaceable \subseteq Created
      BY DEF Replaceable
<1> QED BY <1>1, <1>2, <1>3, <1>4

\* The job that replaces a fenced one is a job row (_reschedule_stale).
LEMMA ReplacementType ==
    ASSUME TypeOK, NEW i \in Replaceable, i \in Created, i \in Job
    PROVE  LET r == NewJob(job[i].kind, job[i].docs, None, lifecycle_revision, ResumedStage(i))
           IN  /\ r \in JobRow /\ r.kind \in Kind /\ r.stage \in Stage
               /\ r.life = lifecycle_revision
<1>1. job[i].kind \in Kind /\ job[i].docs \in SUBSET Doc /\ job[i].stage \in Stage
      BY DEF TypeOK, JobRow
<1>2. ResumedStage(i) \in Stage
      BY <1>1, SequenceStages DEF ResumedStage, Stage
<1>3. NewJob(job[i].kind, job[i].docs, None, lifecycle_revision, ResumedStage(i)) \in JobRow
      BY <1>1, <1>2, NewJobType DEF TypeOK
<1> QED BY <1>1, <1>2, <1>3 DEF NewJob

\* Rescheduling: a new number holds a job stamped with the lifecycle revision,
\* an older one keeps its job, or fences it.
LEMMA RescheduledRows ==
    ASSUME TypeOK, NEW n \in 0 .. (MaxJobs - njobs), NEW f \in Renumberings(n)
    PROVE  LET jobs == Rescheduled(f)
           IN  /\ jobs \in [Job -> JobRow]
               /\ \A k \in (njobs + 1) .. (njobs + n) :
                     \E i \in Replaceable :
                        jobs[k] = NewJob(job[i].kind, job[i].docs, None, lifecycle_revision,
                                         ResumedStage(i))
               /\ \A k \in Created :
                     jobs[k] = IF Stale(k) THEN Superseded(job[k]) ELSE job[k]
               /\ \A k \in Job : k > njobs + n => jobs[k] = NoJob
<1> DEFINE new(i) == NewJob(job[i].kind, job[i].docs, None, lifecycle_revision, ResumedStage(i))
           jobs == Rescheduled(f)
<1>1. \A k \in (njobs + 1) .. (njobs + n) : \E i \in Replaceable : jobs[k] = new(i)
  <2> TAKE k \in (njobs + 1) .. (njobs + n)
  <2>1. k \in Job /\ DOMAIN f = Replaceable /\ \E i \in Replaceable : f[i] = k
        BY RenumberedType
  <2> DEFINE i == CHOOSE i \in DOMAIN f : f[i] = k
  <2>2. i \in Replaceable
        BY <2>1
  <2>3. jobs[k] = new(i)
        BY <2>1 DEF Rescheduled
  <2> QED BY <2>2, <2>3
<1>2. \A k \in Job : k \notin (njobs + 1) .. (njobs + n) =>
         jobs[k] = IF k \in Created /\ Stale(k) THEN Superseded(job[k]) ELSE job[k]
  <2> SUFFICES ASSUME NEW k \in Job, k \notin (njobs + 1) .. (njobs + n)
               PROVE  jobs[k] = IF k \in Created /\ Stale(k) THEN Superseded(job[k])
                                                            ELSE job[k]
      OBVIOUS
  <2>1. ~ \E i \in DOMAIN f : f[i] = k
        BY RenumberedType
  <2> QED BY <2>1 DEF Rescheduled
<1>3. \A k \in Created : k \in Job /\ k \notin (njobs + 1) .. (njobs + n)
      BY RenumberedType DEF Created
<1>4. \A k \in Job : k > njobs + n => k \notin Created /\ k \notin (njobs + 1) .. (njobs + n)
      BY RenumberedType DEF Created, Job
<1>5. jobs \in [Job -> JobRow]
  <2>1. \A k \in Job : jobs[k] \in JobRow
    <3> TAKE k \in Job
    <3>1. CASE k \in (njobs + 1) .. (njobs + n)
      <4>1. PICK i \in Replaceable : jobs[k] = new(i)
            BY <1>1, <3>1
      <4>2. i \in Created /\ i \in Job
            BY RenumberedType
      <4>3. new(i) \in JobRow
            BY <4>2, ReplacementType
      <4> HIDE DEF new, jobs
      <4> QED BY <4>1, <4>3
    <3>2. CASE k \notin (njobs + 1) .. (njobs + n)
      <4>1. job[k] \in JobRow
            BY DEF TypeOK
      <4>2. jobs[k] = Superseded(job[k]) \/ jobs[k] = job[k]
            BY <1>2, <3>2
      <4> HIDE DEF jobs
      <4> QED BY <4>1, <4>2, SupersededType
    <3> QED BY <3>1, <3>2
  <2>2. jobs = [k \in Job |-> jobs[k]]
        BY DEF Rescheduled
  <2> QED BY <2>1, <2>2
<1>6. \A k \in Created : jobs[k] = IF Stale(k) THEN Superseded(job[k]) ELSE job[k]
      BY <1>2, <1>3
<1>7. \A k \in Job : k > njobs + n => jobs[k] = NoJob
      BY <1>2, <1>4 DEF TypeOK
<1> QED BY <1>1, <1>5, <1>6, <1>7

\* The documents handed to replacement jobs are document rows
\* (_reschedule_stale).
LEMMA RescheduledDocType ==
    ASSUME TypeOK, NEW n \in 0 .. (MaxJobs - njobs), NEW f \in Renumberings(n)
    PROVE  RescheduledDoc(f) \in [Doc -> DocumentRow]
<1>1. \A r \in DocumentRow, k \in Job :
         /\ [r EXCEPT !.latest = k, !.processing = "pending"] \in DocumentRow
         /\ [r EXCEPT !.processing = "failed"] \in DocumentRow
  <2> TAKE r \in DocumentRow, k \in Job
  <2>1. [r EXCEPT !.latest = k, !.processing = "pending"] \in DocumentRow
        BY DEF DocumentRow
  <2>2. [r EXCEPT !.processing = "failed"] \in DocumentRow
        BY DEF DocumentRow
  <2> QED BY <2>1, <2>2
<1>2. \A d \in Doc : RescheduledDoc(f)[d] \in DocumentRow
  <2> TAKE d \in Doc
  <2> DEFINE i == CHOOSE j \in DOMAIN f : d \in job[j].docs
  <2>1. doc[d] \in DocumentRow
        BY DEF TypeOK
  <2>2. CASE \E j \in DOMAIN f : d \in job[j].docs
    <3>1. i \in DOMAIN f
          BY <2>2
    <3>2. f[i] \in Job
          BY <3>1, RenumberedType
    <3>3. RescheduledDoc(f)[d] = [doc[d] EXCEPT !.latest = f[i], !.processing = "pending"]
          BY <2>2 DEF RescheduledDoc
    <3> HIDE DEF i
    <3>4. [doc[d] EXCEPT !.latest = f[i], !.processing = "pending"] \in DocumentRow
          BY <1>1, <2>1, <3>2
    <3> QED BY <3>3, <3>4
  <2>3. CASE ~ \E j \in DOMAIN f : d \in job[j].docs
    <3>1. RescheduledDoc(f)[d] \in {doc[d], [doc[d] EXCEPT !.processing = "failed"]}
          BY <2>3 DEF RescheduledDoc
    <3>2. [doc[d] EXCEPT !.processing = "failed"] \in DocumentRow
          BY <2>1 DEF DocumentRow
    <3> QED BY <2>1, <3>1, <3>2
  <2> QED BY <2>2, <2>3
<1>3. RescheduledDoc(f) = [d \in Doc |-> RescheduledDoc(f)[d]]
      BY DEF RescheduledDoc
<1> QED BY <1>2, <1>3

\* What a fenced job may have written is a set of entries (_reschedule_stale).
LEMMA UpsertedType ==
    ASSUME TypeOK, NEW j \in Job
    PROVE  Upserted(j) \in SUBSET Entry
BY DEF Upserted, TypeOK

\* The work plans of replacement jobs are work rows (_reschedule_stale).
LEMMA RescheduledWorkType ==
    ASSUME TypeOK, NEW n \in 0 .. (MaxJobs - njobs), NEW f \in Renumberings(n)
    PROVE  RescheduledWork(f) \in [Job -> WorkRow]
<1>1. \A k \in Job : RescheduledWork(f)[k] \in WorkRow
  <2> TAKE k \in Job
  <2>1. work[k] \in WorkRow
        BY DEF TypeOK
  <2>2. CASE \E j \in DOMAIN f : f[j] = k
    <3> DEFINE i == CHOOSE j \in DOMAIN f : f[j] = k
    <3>1. i \in Job
          BY <2>2, RenumberedType
    <3>2. RescheduledWork(f)[k] =
             NewWork(work[i].refs, work[i].removals \cup Upserted(i), FALSE)
          BY <2>2 DEF RescheduledWork
    <3> HIDE DEF i
    <3>3. work[i].refs \in [Doc -> Nat] /\ work[i].removals \in SUBSET Entry
          BY <3>1 DEF TypeOK, WorkRow
    <3>4. NewWork(work[i].refs, work[i].removals \cup Upserted(i), FALSE) \in WorkRow
          BY <3>1, <3>3, UpsertedType, NewWorkType
    <3> QED BY <3>2, <3>4
  <2>3. CASE k \in DOMAIN f /\ ~ \E j \in DOMAIN f : f[j] = k
    <3>1. RescheduledWork(f)[k] = [work[k] EXCEPT !.successor = f[k]]
          BY <2>3 DEF RescheduledWork
    <3>2. f[k] \in Job
          BY <2>3, RenumberedType
    <3> QED BY <2>1, <3>1, <3>2 DEF WorkRow
  <2>4. CASE k \notin DOMAIN f /\ ~ \E j \in DOMAIN f : f[j] = k
    <3>1. RescheduledWork(f)[k] = work[k]
          BY <2>4 DEF RescheduledWork
    <3> QED BY <2>1, <3>1
  <2> QED BY <2>2, <2>3, <2>4
<1>2. RescheduledWork(f) = [k \in Job |-> RescheduledWork(f)[k]]
      BY DEF RescheduledWork
<1> QED BY <1>1, <1>2

\* Rescheduling and leasing a job keep the jobs well typed, and leave every
\* existing job its kind, its documents, its target and its revision.
LEMMA LeasedRows ==
    ASSUME TypeOK, NEW n \in 0 .. (MaxJobs - njobs), NEW f \in Renumberings(n),
           njobs' = njobs + n, Leasing(Rescheduled(f))
    PROVE  /\ job' \in [Job -> JobRow]
           /\ \A k \in Created' : job'[k].kind \in Kind /\ job'[k].stage \in Stage
           /\ \A k \in Job \ Created' : job'[k] = NoJob
<1> DEFINE jobs == Rescheduled(f)
<1>1. jobs \in [Job -> JobRow] /\ \A k \in Job \ Created' : jobs[k] = NoJob
  <2>1. \A k \in Job \ Created' : k > njobs + n
        BY RenumberedType DEF Created, Job
  <2> QED BY <2>1, RescheduledRows
<1>2. \A k \in Created' : jobs[k].kind \in Kind /\ jobs[k].stage \in Stage
  <2> TAKE k \in Created'
  <2>1. k \in Created \/ k \in (njobs + 1) .. (njobs + n)
        BY RenumberedType DEF Created
  <2>2. CASE k \in Created
    <3>1. job[k] \in JobRow /\ job[k].kind \in Kind /\ job[k].stage \in Stage
          BY <2>2, RenumberedType DEF TypeOK
    <3>2. jobs[k] = Superseded(job[k]) \/ jobs[k] = job[k]
          BY <2>2, RescheduledRows
    <3> HIDE DEF jobs
    <3> QED BY <3>1, <3>2, SupersededType
  <2>3. CASE k \in (njobs + 1) .. (njobs + n)
    <3>1. PICK i \in Replaceable :
             jobs[k] = NewJob(job[i].kind, job[i].docs, None, lifecycle_revision,
                              ResumedStage(i))
          BY <2>3, RescheduledRows
    <3>2. i \in Created /\ i \in Job
          BY RenumberedType
    <3>3. LET r == NewJob(job[i].kind, job[i].docs, None, lifecycle_revision, ResumedStage(i))
          IN  r.kind \in Kind /\ r.stage \in Stage
          BY <3>2, ReplacementType
    <3> HIDE DEF jobs
    <3> QED BY <3>1, <3>3
  <2> QED BY <2>1, <2>2, <2>3
<1>3. CASE job' = jobs
      BY <1>1, <1>2, <1>3
<1>4. ASSUME NEW j \in Job, Claimable(jobs[j]),
             job' = [jobs EXCEPT ![j] = [@ EXCEPT !.state = "running", !.lease = "live"]]
      PROVE  /\ job' \in [Job -> JobRow]
             /\ \A k \in Created' : job'[k].kind \in Kind /\ job'[k].stage \in Stage
             /\ \A k \in Job \ Created' : job'[k] = NoJob
  <2> HIDE DEF jobs
  <2> DEFINE r == [jobs[j] EXCEPT !.state = "running", !.lease = "live"]
  <2>1. /\ r \in JobRow
        /\ r.kind = jobs[j].kind /\ r.stage = jobs[j].stage
    <3>1. jobs[j] \in JobRow
          BY <1>1
    <3> QED BY <3>1 DEF JobRow
  <2>2. job' = [jobs EXCEPT ![j] = r]
        BY <1>4
  <2>3. j \in Created'
        BY <1>1, <1>4 DEF Claimable, NoJob
  <2> HIDE DEF r
  <2> QED BY <1>1, <1>2, <2>1, <2>2, <2>3
<1> QED BY <1>3, <1>4 DEF Leasing

\* A claim, with all the rescheduling it does, preserves type correctness (claim).
LEMMA ClaimType ==
    ASSUME TypeOK, Claim
    PROVE  TypeOK'
<1>1. PICK n \in 0 .. (MaxJobs - njobs) : \E f \in Renumberings(n) :
         /\ njobs' = njobs + n
         /\ Rescheduling(f)
         /\ Leasing(Rescheduled(f))
         /\ UNCHANGED <<project, rec, entry, purged>>
      BY DEF Claim
<1>2. PICK f \in Renumberings(n) :
         /\ njobs' = njobs + n
         /\ Rescheduling(f)
         /\ Leasing(Rescheduled(f))
         /\ UNCHANGED <<project, rec, entry, purged>>
      BY <1>1
<1>3. /\ job' \in [Job -> JobRow]
      /\ \A k \in Created' : job'[k].kind \in Kind /\ job'[k].stage \in Stage
      /\ \A k \in Job \ Created' : job'[k] = NoJob
      BY <1>2, LeasedRows
<1>4. work' \in [Job -> WorkRow] /\ doc' \in [Doc -> DocumentRow]
      BY <1>2, RescheduledWorkType, RescheduledDocType DEF Rescheduling
<1>5. /\ op' \in [Job -> [Slot -> OpState]]
      /\ \A j \in Job, d \in Doc : op'[j][d] # "none" => op[j][d] # "none"
  <2>1. \A s \in OpState : Cancelled(s) \in OpState /\ (s = "none" => Cancelled(s) = "none")
        BY DEF Cancelled, OpState
  <2> QED BY <1>2, <2>1 DEF Rescheduling, TypeOK, Slot
<1>6. njobs' \in 0 .. MaxJobs
      BY <1>2, RenumberedType
<1> QED BY <1>2, <1>3, <1>4, <1>5, <1>6 DEF TypeOK, project

\* Every step preserves type correctness.
LEMMA TypeStep == TypeOK /\ [Next]_vars => TypeOK'
<1> SUFFICES ASSUME TypeOK, [Next]_vars PROVE TypeOK'
    OBVIOUS
<1>1. CASE Admin
  <2>1. ASSUME NEW d \in Doc, SubmitUpload(d) PROVE TypeOK'
        BY <2>1, SubmitType
  <2>2. ASSUME NEW d \in Doc, NEW kind \in {"activate", "deactivate", "delete_document"},
               MutateDocument(d, kind)
        PROVE  TypeOK'
        BY <2>2, MutateType
  <2>3. ASSUME NEW p \in Person, ErasePerson(p) PROVE TypeOK'
        BY <2>3, EraseType
  <2>4. ASSUME NEW p \in Person, AssociatePerson(p) PROVE TypeOK'
        BY <2>4, AssociateType
  <2>5. ASSUME NEW j \in Job, RetryJob(j) PROVE TypeOK'
        BY <2>5, RetryType
  <2> QED BY <1>1, <2>1, <2>2, <2>3, <2>4, <2>5 DEF Admin
<1>2. CASE Claim
      BY <1>2, ClaimType
<1>3. ASSUME NEW j \in Job, Worker(j) PROVE TypeOK'
  <2>1. CASE Parse(j) \/ PrivacyReady(j) \/ PrivacyUnresolved(j)
        BY <2>1, ParseType, PrivacyReadyType, PrivacyUnresolvedType
  <2>2. CASE Invalidating(j) \/ Inventory(j) \/ Drain(j)
        BY <2>2, InvalidatingType, InventoryType, DrainType
  <2>3. CASE SanitizeDeleted(j) \/ SanitizeErased(j)
        BY <2>3, SanitizeDeletedType, SanitizeErasedType
  <2>4. ASSUME NEW d \in Doc, StageArtifacts(j, d) PROVE TypeOK'
        BY <2>4, StageArtifactsType
  <2>5. ASSUME NEW x \in Slot, Prepare(j, x) \/ Start(j, x) PROVE TypeOK'
        BY <2>5, PrepareType, StartType
  <2>6. CASE ObsoleteIndexRemoved(j) \/ Advance(j) \/ Publish(j)
        BY <2>6, ObsoleteIndexRemovedType, AdvanceType, PublishType
  <2>7. ASSUME NEW code \in Codes, Fail(j, code) PROVE TypeOK'
        BY <2>7, FailType
  <2> QED BY <1>3, <2>1, <2>2, <2>3, <2>4, <2>5, <2>6, <2>7 DEF Worker
<1>4. ASSUME NEW j \in Job, Expire(j) PROVE TypeOK'
      BY <1>4, ExpireType
<1>5. ASSUME NEW j \in Job, NEW x \in Slot, NEW outcome \in Outcomes, Report(j, x, outcome)
      PROVE  TypeOK'
      BY <1>5, ReportType
<1>6. CASE UNCHANGED vars
      BY <1>6 DEF TypeOK, vars, Created
<1> QED BY <1>1, <1>2, <1>3, <1>4, <1>5, <1>6 DEF Next, Network

\* Every reachable state is well typed: the rows of the project keep the fields
\* and values the contracts give them whatever commands, workers and late
\* reports interleave (service.py, jobs.py).
THEOREM TypeCorrect == Spec => []TypeOK
BY InitType, TypeStep, PTL DEF Spec

-----------------------------------------------------------------------------
(* The safety of cleanups.  The argument rests on what one step may do to  *)
(* the rows of existing jobs: none changes its kind, target or revision, a *)
(* completed row never changes (RowKept), and only Publish completes one   *)
(* (StillOpen).                                                            *)

RowKept(k) ==
    /\ job'[k].kind = job[k].kind /\ job'[k].life = job[k].life
    /\ job'[k].docs = job[k].docs /\ job'[k].person = job[k].person
    /\ job[k].state = "completed" => job'[k] = job[k]

StageKept(k) == job'[k].stage = job[k].stage

StillOpen(k) == Uncompleted(k) => job'[k].state # "completed"

\* The rewriting of one unfinished row keeps all rows.
LEMMA RewriteKeeps ==
    ASSUME TypeOK, NEW j \in Created, Uncompleted(j), NEW r,
           r.kind = job[j].kind, r.life = job[j].life, r.docs = job[j].docs /\ r.person = job[j].person,
           job' = [job EXCEPT ![j] = r]
    PROVE  /\ \A k \in Created : RowKept(k) /\ (k # j => StillOpen(k))
           /\ r.state # "completed" => \A k \in Created : StillOpen(k)
           /\ r.stage = job[j].stage => \A k \in Created : StageKept(k)
<1>1. Created \subseteq Job
      BY ConstantsAssumption DEF Created, Job, TypeOK
<1>2. job'[j] = r /\ \A k \in Created \ {j} : job'[k] = job[k]
      BY <1>1 DEF TypeOK
<1> QED BY <1>2 DEF RowKept, StillOpen, StageKept, Uncompleted

\* A step that leaves the jobs alone keeps every row and every stage.
LEMMA UnchangedKeeps ==
    ASSUME \A k \in Created : job'[k] = job[k]
    PROVE  \A k \in Created : RowKept(k) /\ StillOpen(k) /\ StageKept(k)
BY DEF RowKept, StillOpen, StageKept, Uncompleted

\* A stage move keeps all rows and completes none.
LEMMA StageMoveKeeps ==
    ASSUME TypeOK, NEW j \in Job, Working(j), NEW stage, job' = [job EXCEPT ![j].stage = stage]
    PROVE  \A k \in Created : RowKept(k) /\ StillOpen(k)
<1> DEFINE r == [job[j] EXCEPT !.stage = stage]
<1>1. j \in Created /\ Uncompleted(j) /\ job[j] \in JobRow
      BY WorkingRow DEF Working, Uncompleted
<1>2. r.kind = job[j].kind /\ r.life = job[j].life /\ r.docs = job[j].docs /\ r.person = job[j].person /\ r.state = job[j].state
      BY <1>1 DEF JobRow
<1>3. job' = [job EXCEPT ![j] = r]
      OBVIOUS
<1> HIDE DEF r
<1> QED BY <1>1, <1>2, <1>3, RewriteKeeps DEF Uncompleted

\* The commands that create a job leave the existing rows alone.
LEMMA CreationKeeps ==
    ASSUME TypeOK, NEW r, njobs < MaxJobs, njobs' = njobs + 1,
           job' = [job EXCEPT ![njobs'] = r]
    PROVE  /\ \A k \in Created : /\ job'[k] = job[k]
                                 /\ RowKept(k) /\ StillOpen(k) /\ StageKept(k)
           /\ job'[njobs + 1] = r
           /\ Created' = Created \cup {njobs + 1}
<1>1. njobs \in Nat /\ MaxJobs \in Nat /\ njobs + 1 \in Job
      BY ConstantsAssumption DEF TypeOK, Job
<1>2. Created' = Created \cup {njobs + 1} /\ njobs + 1 \notin Created /\ Created \subseteq Job
      BY <1>1 DEF Created, Job
<1>3. job'[njobs + 1] = r /\ \A k \in Created : job'[k] = job[k]
      BY <1>1, <1>2 DEF TypeOK
<1> QED BY <1>2, <1>3, UnchangedKeeps

\* A retry changes the row of a failed job only (retry_job).
LEMMA RetryKeeps ==
    ASSUME TypeOK, NEW j \in Job, RetryJob(j)
    PROVE  \A k \in Created : RowKept(k) /\ StillOpen(k) /\ StageKept(k)
<1> DEFINE r == [job[j] EXCEPT !.state = "pending", !.code = None,
                               !.retryable = FALSE, !.lease = "none"]
<1>1. j \in Created /\ Uncompleted(j) /\ job[j] \in JobRow
      BY StateCreated DEF RetryJob, MayRetry, Uncompleted, TypeOK
<1>2. /\ r.kind = job[j].kind /\ r.life = job[j].life /\ r.docs = job[j].docs /\ r.person = job[j].person
      /\ r.stage = job[j].stage /\ r.state = "pending"
      BY <1>1 DEF JobRow
<1>3. job' = [job EXCEPT ![j] = r]
      BY DEF RetryJob
<1> HIDE DEF r
<1> QED BY <1>1, <1>2, <1>3, RewriteKeeps

\* A lease that runs out changes the row of a running job only.
LEMMA ExpireKeeps ==
    ASSUME TypeOK, NEW j \in Job, Expire(j)
    PROVE  \A k \in Created : RowKept(k) /\ StillOpen(k) /\ StageKept(k)
<1> DEFINE r == [job[j] EXCEPT !.lease = "expired"]
<1>1. j \in Created /\ Uncompleted(j) /\ job[j] \in JobRow /\ job[j].state = "running"
      BY StateCreated DEF Expire, Uncompleted, TypeOK
<1>2. /\ r.kind = job[j].kind /\ r.life = job[j].life /\ r.docs = job[j].docs /\ r.person = job[j].person
      /\ r.stage = job[j].stage /\ r.state = job[j].state
      BY <1>1 DEF JobRow
<1>3. job' = [job EXCEPT ![j] = r]
      BY DEF Expire
<1> HIDE DEF r
<1> QED BY <1>1, <1>2, <1>3, RewriteKeeps

\* A failure changes the row of the worker's own job only (fail).
LEMMA FailKeeps ==
    ASSUME TypeOK, NEW j \in Job, NEW code, Fail(j, code)
    PROVE  \A k \in Created : RowKept(k) /\ StillOpen(k) /\ StageKept(k)
<1> DEFINE b == code = "transient" \/ Recoverable(job[j].kind, job[j].stage, code)
           r == [job[j] EXCEPT !.state = "failed", !.code = code, !.retryable = b]
<1>1. j \in Created /\ Uncompleted(j) /\ job[j] \in JobRow
      BY WorkingRow DEF Fail, Working, Uncompleted
<1>2. job' = [job EXCEPT ![j] = r]
      BY DEF Fail
<1> HIDE DEF b
<1>3. /\ r.kind = job[j].kind /\ r.life = job[j].life /\ r.docs = job[j].docs /\ r.person = job[j].person
      /\ r.stage = job[j].stage /\ r.state = "failed"
      BY <1>1 DEF JobRow
<1> HIDE DEF r
<1> QED BY <1>1, <1>2, <1>3, RewriteKeeps

\* An unresolved review fails the worker's own job only (prepare_ingestion).
LEMMA PrivacyUnresolvedKeeps ==
    ASSUME TypeOK, NEW j \in Job, PrivacyUnresolved(j)
    PROVE  \A k \in Created : RowKept(k) /\ StillOpen(k) /\ StageKept(k)
<1> DEFINE r == [job[j] EXCEPT !.state = "failed", !.code = "transient", !.retryable = TRUE]
<1>1. j \in Created /\ Uncompleted(j) /\ job[j] \in JobRow
      BY WorkingRow DEF PrivacyUnresolved, Ready, Working, Uncompleted
<1>2. job' = [job EXCEPT ![j] = r]
      BY DEF PrivacyUnresolved
<1>3. /\ r.kind = job[j].kind /\ r.life = job[j].life /\ r.docs = job[j].docs /\ r.person = job[j].person
      /\ r.stage = job[j].stage /\ r.state = "failed"
      BY <1>1 DEF JobRow
<1> HIDE DEF r
<1> QED BY <1>1, <1>2, <1>3, RewriteKeeps

\* Superseding a fenced job keeps its kind, targets, revision and stage, and
\* leaves it unfinished (_reschedule_stale).
LEMMA SupersededRow ==
    ASSUME NEW r \in JobRow
    PROVE  LET s == [r EXCEPT !.state = "failed", !.code = "superseded", !.retryable = FALSE]
           IN  /\ s.kind = r.kind /\ s.life = r.life /\ s.docs = r.docs /\ s.person = r.person
               /\ s.stage = r.stage /\ s.state = "failed"
               /\ Superseded(r).kind = r.kind /\ Superseded(r).life = r.life /\ Superseded(r).docs = r.docs /\ Superseded(r).person = r.person
               /\ Superseded(r).stage = r.stage /\ Superseded(r).state = "failed"
<1>1. LET s == [r EXCEPT !.state = "failed", !.code = "superseded", !.retryable = FALSE]
      IN  /\ s.kind = r.kind /\ s.life = r.life /\ s.docs = r.docs /\ s.person = r.person
          /\ s.stage = r.stage /\ s.state = "failed"
      BY DEF JobRow
<1>2. /\ Superseded(r).kind = r.kind /\ Superseded(r).life = r.life /\ Superseded(r).docs = r.docs /\ Superseded(r).person = r.person
      /\ Superseded(r).stage = r.stage /\ Superseded(r).state = "failed"
      BY DEF JobRow, Superseded
<1> QED BY <1>1, <1>2

\* What claim does to the rows: an existing job keeps its kind, revision and
\* stage and is not completed; a new one is at its initial stage, no cleanup,
\* and stamped with the lifecycle revision; none is created under the barrier.
LEMMA ClaimRows ==
    ASSUME TypeOK, Claim
    PROVE  /\ \A k \in Created : /\ RowKept(k) /\ StillOpen(k)
                                 /\ job'[k].stage = job[k].stage
           /\ \A k \in Created' \ Created :
                 /\ ~write_barrier
                 /\ job'[k].kind \in Kind \ Cleanup
                 /\ job'[k].life = lifecycle_revision
           /\ Created \subseteq Created' /\ UNCHANGED project
<1>1. PICK n \in 0 .. (MaxJobs - njobs) : \E f \in Renumberings(n) :
         /\ njobs' = njobs + n /\ Leasing(Rescheduled(f)) /\ UNCHANGED project
      BY DEF Claim
<1>2. PICK f \in Renumberings(n) :
         /\ njobs' = njobs + n /\ Leasing(Rescheduled(f)) /\ UNCHANGED project
      BY <1>1
<1> DEFINE jobs == Rescheduled(f)
<1>3. jobs \in [Job -> JobRow]
      BY RescheduledRows
<1>4. Created \subseteq Job /\ Created' \subseteq Job /\ Created \subseteq Created'
      BY <1>2, RenumberedType DEF Created, Job
<1>5. \A k \in Created : /\ jobs[k].kind = job[k].kind /\ jobs[k].life = job[k].life
                         /\ jobs[k].docs = job[k].docs /\ jobs[k].person = job[k].person
                         /\ jobs[k].stage = job[k].stage
                         /\ job[k].state = "completed" => jobs[k] = job[k]
                         /\ Uncompleted(k) => jobs[k].state # "completed"
  <2> TAKE k \in Created
  <2>1. jobs[k] = IF Stale(k) THEN Superseded(job[k]) ELSE job[k]
        BY RescheduledRows
  <2>2. job[k] \in JobRow
        BY <1>4 DEF TypeOK
  <2> HIDE DEF jobs
  <2> QED BY <2>1, <2>2, SupersededRow DEF Stale, Uncompleted
<1>6. \A k \in Created' \ Created : /\ ~write_barrier
                                   /\ jobs[k].kind \in Kind \ Cleanup
                                   /\ jobs[k].life = lifecycle_revision
  <2> TAKE k \in Created' \ Created
  <2>1. k \in (njobs + 1) .. (njobs + n)
        BY <1>2, RenumberedType DEF Created
  <2>2. PICK i \in Replaceable :
           jobs[k] = NewJob(job[i].kind, job[i].docs, None, lifecycle_revision, ResumedStage(i))
        BY <2>1, RescheduledRows
  <2> HIDE DEF jobs
  <2> QED BY <2>2 DEF Replaceable, NewJob, Kind, Cleanup
<1>7. CASE job' = jobs
  <2> HIDE DEF jobs
  <2> QED BY <1>2, <1>4, <1>5, <1>6, <1>7 DEF RowKept, StillOpen
<1>8. ASSUME NEW j \in Job, Claimable(jobs[j]),
             job' = [jobs EXCEPT ![j] = [@ EXCEPT !.state = "running", !.lease = "live"]]
      PROVE  /\ \A k \in Created : /\ RowKept(k) /\ StillOpen(k)
                                   /\ job'[k].stage = job[k].stage
             /\ \A k \in Created' \ Created :
                   /\ job'[k].kind \in Kind \ Cleanup
                   /\ job'[k].life = lifecycle_revision
  <2> DEFINE r == [jobs[j] EXCEPT !.state = "running", !.lease = "live"]
  <2> HIDE DEF jobs
  <2>1. jobs[j] \in JobRow
        BY <1>3
  <2>2. /\ r.kind = jobs[j].kind /\ r.life = jobs[j].life /\ r.docs = jobs[j].docs /\ r.person = jobs[j].person /\ r.stage = jobs[j].stage
        /\ r.state = "running"
        BY <2>1 DEF JobRow
  <2>3. job' = [jobs EXCEPT ![j] = r]
        BY <1>8
  <2>4. jobs[j].state # "completed"
        BY <1>8 DEF Claimable
  <2> HIDE DEF r
  <2>5. job'[j] = r /\ \A k \in Job \ {j} : job'[k] = jobs[k]
        BY <1>3, <2>3
  <2>6. \A k \in Created : /\ RowKept(k) /\ StillOpen(k)
                           /\ job'[k].stage = job[k].stage
        BY <1>4, <1>5, <2>2, <2>4, <2>5 DEF RowKept, StillOpen, Uncompleted
  <2>7. \A k \in Created' \ Created :
                   /\ job'[k].kind \in Kind \ Cleanup
                   /\ job'[k].life = lifecycle_revision
        BY <1>4, <1>6, <2>2, <2>5
  <2> QED BY <2>6, <2>7
<1> QED BY <1>2, <1>4, <1>6, <1>7, <1>8 DEF Leasing

\* Sanitizing an erased person moves its own row and supersedes unfinished
\* ingestions; nothing completes.
LEMMA SanitizeErasedRows ==
    ASSUME TypeOK, NEW j \in Job, SanitizeErased(j)
    PROVE  \A k \in Created : /\ RowKept(k) /\ StillOpen(k)
                              /\ k # j => job'[k].stage = job[k].stage
<1> DEFINE ingests == {i \in Created : job[i].kind = "ingest" /\ Uncompleted(i)}
           moved == [job[j] EXCEPT !.stage = "rebuilding"]
           fenced(i) == [job[i] EXCEPT !.state = "failed", !.code = "superseded",
                                       !.retryable = FALSE]
<1>1. j \in Created /\ Uncompleted(j) /\ job[j] \in JobRow /\ Created \subseteq Job
  <2>1. Working(j)
        BY DEF SanitizeErased, Ready
  <2>2. Created \subseteq Job
        BY ConstantsAssumption DEF TypeOK, Created, Job
  <2> QED BY <2>1, <2>2, WorkingRow DEF Working, Uncompleted
<1>2. job' = [i \in Job |-> IF i \in ingests THEN fenced(i)
                            ELSE IF i = j THEN moved ELSE job[i]]
      BY DEF SanitizeErased
<1>3. /\ moved.kind = job[j].kind /\ moved.life = job[j].life
      /\ moved.docs = job[j].docs /\ moved.person = job[j].person /\ moved.state = job[j].state
      BY <1>1 DEF JobRow
<1>4. \A i \in Created : /\ fenced(i).kind = job[i].kind /\ fenced(i).life = job[i].life
                         /\ fenced(i).docs = job[i].docs /\ fenced(i).person = job[i].person
                         /\ fenced(i).stage = job[i].stage /\ fenced(i).state = "failed"
  <2> TAKE i \in Created
  <2>1. job[i] \in JobRow
        BY <1>1 DEF TypeOK
  <2> QED BY <2>1, SupersededRow
<1> HIDE DEF moved, fenced
<1>5. \A k \in Created : job'[k] = IF k \in ingests THEN fenced(k)
                                   ELSE IF k = j THEN moved ELSE job[k]
      BY <1>1, <1>2
<1> QED BY <1>1, <1>3, <1>4, <1>5 DEF RowKept, StillOpen, Uncompleted

\* Publication completes its own row, leaves the other rows alone and creates
\* at most an aggregate's rebuild.
LEMMA PublishRows ==
    ASSUME TypeOK, NEW j \in Job, Publish(j)
    PROVE  /\ \A k \in Created : RowKept(k) /\ (k # j => job'[k] = job[k])
           /\ job'[j].state = "completed"
           /\ \A k \in Created' \ Created :
                 job'[k].kind = "rebuild_aggregate" /\ job'[k].life = lifecycle_revision
           /\ Created \subseteq Created'
<1> DEFINE kind == job[j].kind
           last == Sequence[kind][Len(Sequence[kind])]
           based == kind \in {"ingest", "activate", "erase_person", "deactivate"}
           eligible == IF based THEN Eligible(j, Published(j)) ELSE {}
           row == [job[j] EXCEPT !.state = "completed", !.stage = last, !.code = None,
                                 !.retryable = FALSE, !.lease = "none"]
           completed == [job EXCEPT ![j] = row]
           new == NewJob("rebuild_aggregate", {}, None, lifecycle_revision, "received")
           created == IF eligible = {} THEN 0 ELSE 1
<1>1. j \in Created /\ Uncompleted(j) /\ job[j] \in JobRow
      BY WorkingRow DEF Publish, Ready, Working, Uncompleted
<1>2. /\ row.kind = job[j].kind /\ row.life = job[j].life /\ row.docs = job[j].docs /\ row.person = job[j].person
      /\ row.state = "completed"
      BY <1>1 DEF JobRow
<1>3. job' = IF eligible = {} THEN completed ELSE [completed EXCEPT ![njobs'] = new]
      BY DEF Publish
<1>4. njobs + created <= MaxJobs /\ njobs' = njobs + created
      BY DEF Publish
<1>5. new.kind = "rebuild_aggregate" /\ new.life = lifecycle_revision
      BY DEF NewJob
<1> HIDE DEF row, new, eligible
<1>6. njobs \in Nat /\ MaxJobs \in Nat
      BY ConstantsAssumption DEF TypeOK
<1>7. Created \subseteq Job /\ Created \subseteq Created'
      BY <1>4, <1>6 DEF Created, Job
<1>8. completed[j] = row /\ \A k \in Created \ {j} : completed[k] = job[k]
      BY <1>1, <1>7 DEF TypeOK
<1>9. completed \in [Job -> {completed[k] : k \in Job}]
      BY DEF TypeOK
<1> HIDE DEF completed
<1>10. CASE eligible = {}
  <2>1. job' = completed /\ Created' = Created
        BY <1>3, <1>4, <1>6, <1>10 DEF Created
  <2> QED BY <1>1, <1>2, <1>7, <1>8, <2>1 DEF RowKept, Uncompleted
<1>11. CASE eligible # {}
  <2>1. njobs' = njobs + 1 /\ njobs + 1 \in Job
        BY <1>4, <1>6, <1>11 DEF Job
  <2>2. Created' = Created \cup {njobs + 1} /\ njobs + 1 \notin Created
        BY <1>6, <2>1 DEF Created
  <2>3. job'[njobs + 1] = new /\ \A k \in Created : job'[k] = completed[k]
        BY <1>3, <1>7, <1>9, <1>11, <2>1, <2>2
  <2> QED BY <1>1, <1>2, <1>5, <1>7, <1>8, <2>2, <2>3 DEF RowKept, Uncompleted
<1> QED BY <1>10, <1>11

-----------------------------------------------------------------------------
\* Every step, by what it does to the existing rows: only Publish completes.
LEMMA WorkerRows ==
    ASSUME TypeOK, NEW j \in Job, Worker(j)
    PROVE  /\ \A k \in Created : RowKept(k) /\ (StillOpen(k) \/ (k = j /\ Publish(j)))
           /\ Publish(j) \/ UNCHANGED <<lifecycle_revision, write_barrier, njobs>>
<1>1. CASE Parse(j) \/ PrivacyReady(j)
      BY <1>1, StageMoveKeeps DEF Parse, PrivacyReady, Ready, project
<1>2. CASE PrivacyUnresolved(j)
      BY <1>2, PrivacyUnresolvedKeeps DEF PrivacyUnresolved, project
<1>3. CASE Invalidating(j) \/ Inventory(j) \/ Drain(j) \/ SanitizeDeleted(j)
  <2>1. CASE Invalidating(j)
        BY <2>1, StageMoveKeeps DEF Invalidating, Ready, project
  <2>2. CASE Inventory(j)
        BY <2>2, StageMoveKeeps DEF Inventory, Ready, project
  <2>3. CASE Drain(j)
        BY <2>3, StageMoveKeeps DEF Drain, Ready, project
  <2>4. CASE SanitizeDeleted(j)
        BY <2>4, StageMoveKeeps DEF SanitizeDeleted, Ready, project
  <2> QED BY <1>3, <2>1, <2>2, <2>3, <2>4
<1>4. CASE SanitizeErased(j)
      BY <1>4, SanitizeErasedRows DEF SanitizeErased, project
<1>5. ASSUME NEW d \in Doc, StageArtifacts(j, d)
      PROVE  /\ \A k \in Created : RowKept(k) /\ StillOpen(k)
             /\ UNCHANGED <<lifecycle_revision, write_barrier, njobs>>
      BY <1>5, UnchangedKeeps DEF StageArtifacts, project
<1>6. ASSUME NEW x \in Slot, Prepare(j, x) \/ Start(j, x)
      PROVE  /\ \A k \in Created : RowKept(k) /\ StillOpen(k)
             /\ UNCHANGED <<lifecycle_revision, write_barrier, njobs>>
  <2>1. UNCHANGED <<project, njobs, job>>
        BY <1>6 DEF Prepare, Start
  <2> QED BY <2>1, UnchangedKeeps DEF project
<1>7. CASE ObsoleteIndexRemoved(j)
      BY <1>7, UnchangedKeeps DEF ObsoleteIndexRemoved, project
<1>8. CASE Advance(j)
  <2>1. Working(j) /\ \E stage : job' = [job EXCEPT ![j].stage = stage]
        BY <1>8 DEF Advance, Ready
  <2> QED BY <1>8, <2>1, StageMoveKeeps DEF Advance, project
<1>9. CASE Publish(j)
  <2> SUFFICES ASSUME NEW k \in Created
               PROVE  RowKept(k) /\ (StillOpen(k) \/ k = j)
      BY <1>9
  <2> QED BY <1>9, PublishRows DEF StillOpen, Uncompleted
<1>10. ASSUME NEW code \in Codes, Fail(j, code)
       PROVE  /\ \A k \in Created : RowKept(k) /\ StillOpen(k)
              /\ UNCHANGED <<lifecycle_revision, write_barrier, njobs>>
       BY <1>10, FailKeeps DEF Fail, project
<1> QED BY <1>1, <1>2, <1>3, <1>4, <1>5, <1>6, <1>7, <1>8, <1>9, <1>10 DEF Worker

\* A command keeps the rows of existing jobs, or revives a failed one.
LEMMA AdminRows ==
    ASSUME TypeOK, Admin
    PROVE  \A k \in Created : RowKept(k) /\ StillOpen(k)
<1>1. ASSUME NEW d \in Doc, SubmitUpload(d)
      PROVE  \A k \in Created : RowKept(k) /\ StillOpen(k)
      BY <1>1, CreationKeeps DEF SubmitUpload
<1>2. ASSUME NEW d \in Doc, NEW kind, MutateDocument(d, kind)
      PROVE  \A k \in Created : RowKept(k) /\ StillOpen(k)
      BY <1>2, CreationKeeps DEF MutateDocument
<1>3. ASSUME NEW p \in Person, ErasePerson(p)
      PROVE  \A k \in Created : RowKept(k) /\ StillOpen(k)
      BY <1>3, CreationKeeps DEF ErasePerson
<1>4. ASSUME NEW p \in Person, AssociatePerson(p)
      PROVE  \A k \in Created : RowKept(k) /\ StillOpen(k)
      BY <1>4, UnchangedKeeps DEF AssociatePerson
<1>5. ASSUME NEW j \in Job, RetryJob(j)
      PROVE  \A k \in Created : RowKept(k) /\ StillOpen(k)
      BY <1>5, RetryKeeps
<1> QED BY <1>1, <1>2, <1>3, <1>4, <1>5 DEF Admin

\* A completed job is final: no fence, retry, erasure or late worker reopens
\* or rewrites it (retry_job, _reschedule_stale, prepare_cleanup sanitizing).
THEOREM CompletedJobsFinal == Spec => CompletedFinal
<1>1. TypeOK /\ [Next]_vars =>
         [\A j \in Created : job[j].state = "completed" => job'[j] = job[j]]_vars
  <2> SUFFICES ASSUME TypeOK, Next, NEW k \in Created, job[k].state = "completed"
               PROVE  job'[k] = job[k]
      OBVIOUS
  <2>1. CASE Admin
        BY <2>1, AdminRows DEF RowKept
  <2>2. CASE Claim
        BY <2>2, ClaimRows DEF RowKept
  <2>3. ASSUME NEW j \in Job, Worker(j) PROVE RowKept(k)
        BY <2>3, WorkerRows
  <2>4. ASSUME NEW j \in Job, Expire(j) PROVE RowKept(k)
        BY <2>4, ExpireKeeps
  <2>5. CASE Network
        BY <2>5 DEF Network, Report
  <2> QED BY <2>1, <2>2, <2>3, <2>4, <2>5 DEF Next, RowKept
<1> QED BY <1>1, TypeCorrect, PTL DEF Spec, CompletedFinal

-----------------------------------------------------------------------------
(* The write barrier.  BarrierExclusive is inductive once every revision a *)
(* job is stamped with is known to be at most the project's.               *)

LifeBounded == \A j \in Created : job[j].life <= lifecycle_revision

BarrierInv == TypeOK /\ LifeBounded /\ BarrierExclusive

Creates(kind, docs, person, stage) ==
    /\ ~write_barrier
    /\ write_barrier' <=> kind \in Cleanup
    /\ lifecycle_revision' = lifecycle_revision + IF kind = "ingest" THEN 0 ELSE 1
    /\ Created' = Created \cup {njobs + 1}
    /\ job'[njobs + 1] = NewJob(kind, docs, person, lifecycle_revision', stage)
    /\ \A k \in Created : job'[k] = job[k]

\* What a command that creates a job, the only one to move the revision, does.
LEMMA CreatedRows ==
    ASSUME TypeOK, Admin
    PROVE  \/ UNCHANGED <<lifecycle_revision, write_barrier, njobs>>
           \/ \E kind \in Kind : \E docs, person, stage : Creates(kind, docs, person, stage)
<1>1. ASSUME NEW d \in Doc, SubmitUpload(d)
      PROVE  LET r == NewJob("ingest", {d}, None, lifecycle_revision', "received")
             IN  /\ ~write_barrier /\ ~write_barrier'
                 /\ lifecycle_revision' = lifecycle_revision
                 /\ Created' = Created \cup {njobs + 1}
                 /\ job'[njobs + 1] = r
                 /\ \A k \in Created : job'[k] = job[k]
      BY <1>1, CreationKeeps DEF SubmitUpload, project
<1>2. ASSUME NEW d \in Doc, NEW kind \in {"activate", "deactivate", "delete_document"},
             MutateDocument(d, kind)
      PROVE  LET r == NewJob(kind, {d}, None, lifecycle_revision', InitialStage(kind))
             IN  /\ ~write_barrier /\ write_barrier' = (kind \in Cleanup)
                 /\ lifecycle_revision' = lifecycle_revision + 1
                 /\ Created' = Created \cup {njobs + 1}
                 /\ job'[njobs + 1] = r
                 /\ \A k \in Created : job'[k] = job[k]
  <2>1. /\ ~write_barrier /\ write_barrier' = (kind = "delete_document")
        /\ lifecycle_revision' = lifecycle_revision + 1
        /\ njobs < MaxJobs /\ njobs' = njobs + 1
        /\ job' = [job EXCEPT ![njobs'] =
                      NewJob(kind, {d}, None, lifecycle_revision', InitialStage(kind))]
        BY <1>2 DEF MutateDocument
  <2>2. write_barrier' = (kind \in Cleanup)
        BY <2>1 DEF Cleanup
  <2>3. /\ Created' = Created \cup {njobs + 1}
        /\ job'[njobs + 1] = NewJob(kind, {d}, None, lifecycle_revision', InitialStage(kind))
        /\ \A k \in Created : job'[k] = job[k]
        BY <2>1, CreationKeeps
  <2> QED BY <2>1, <2>2, <2>3
<1>3. ASSUME NEW p \in Person, ErasePerson(p)
      PROVE  \E docs :
             LET r == NewJob("erase_person", docs, p, lifecycle_revision', "invalidating")
             IN  /\ ~write_barrier /\ write_barrier'
                 /\ lifecycle_revision' = lifecycle_revision + 1
                 /\ Created' = Created \cup {njobs + 1}
                 /\ job'[njobs + 1] = r
                 /\ \A k \in Created : job'[k] = job[k]
      BY <1>3, CreationKeeps DEF ErasePerson
<1>4. ASSUME NEW p \in Person, AssociatePerson(p)
      PROVE  UNCHANGED <<lifecycle_revision, write_barrier, njobs>>
      BY <1>4 DEF AssociatePerson, project
<1>5. ASSUME NEW j \in Job, RetryJob(j)
      PROVE  UNCHANGED <<lifecycle_revision, write_barrier, njobs>>
      BY <1>5 DEF RetryJob, project
<1>6. lifecycle_revision + 0 = lifecycle_revision
      BY DEF TypeOK
<1>7. ASSUME NEW d \in Doc, SubmitUpload(d)
      PROVE  \E kind \in Kind : \E docs, person, stage :
                Creates(kind, docs, person, stage)
  <2>1. "ingest" \in Kind /\ "ingest" \notin Cleanup
        BY DEF Kind, Cleanup
  <2>2. Creates("ingest", {d}, None, "received")
        BY <1>1, <1>6, <1>7, <2>1 DEF Creates
  <2> QED BY <2>1, <2>2
<1>8. ASSUME NEW d \in Doc, NEW kind \in {"activate", "deactivate", "delete_document"},
             MutateDocument(d, kind)
      PROVE  \E k \in Kind : \E docs, person, stage : Creates(k, docs, person, stage)
  <2>1. kind \in Kind /\ kind # "ingest"
        BY DEF Kind
  <2>2. Creates(kind, {d}, None, InitialStage(kind))
        BY <1>2, <1>8, <2>1 DEF Creates
  <2> QED BY <2>1, <2>2
<1>9. ASSUME NEW p \in Person, ErasePerson(p)
      PROVE  \E kind \in Kind : \E docs, person, stage :
                Creates(kind, docs, person, stage)
  <2>1. "erase_person" \in Kind /\ "erase_person" \in Cleanup
        BY DEF Kind, Cleanup
  <2>2. PICK docs : Creates("erase_person", docs, p, "invalidating")
        BY <1>3, <1>9, <2>1 DEF Creates
  <2> QED BY <2>1, <2>2
<1> QED BY <1>4, <1>5, <1>7, <1>8, <1>9 DEF Admin

\* No job is ever stamped with a revision above the project's: a command
\* raises the revision before it creates its job.
LEMMA LifeStep ==
    ASSUME TypeOK, LifeBounded, [Next]_vars
    PROVE  LifeBounded' /\ lifecycle_revision \in Nat /\ lifecycle_revision' >= lifecycle_revision
<1>1. lifecycle_revision \in Nat /\ \A k \in Created : job[k].life \in Nat
  <2>1. Created \subseteq Job
        BY ConstantsAssumption DEF TypeOK, Created, Job
  <2> QED BY <2>1 DEF TypeOK, JobRow
<1>2. CASE Admin
  <2>1. CASE UNCHANGED <<lifecycle_revision, write_barrier, njobs>>
        BY <1>1, <1>2, <2>1, AdminRows DEF RowKept, LifeBounded, Created
  <2>2. CASE ~ UNCHANGED <<lifecycle_revision, write_barrier, njobs>>
    <3>1. PICK kind \in Kind : \E docs, person, stage : Creates(kind, docs, person, stage)
          BY <1>2, <2>2, CreatedRows
    <3>2. /\ lifecycle_revision' \in {lifecycle_revision, lifecycle_revision + 1}
          /\ job'[njobs + 1].life = lifecycle_revision'
          /\ Created' = Created \cup {njobs + 1}
          /\ \A k \in Created : job'[k] = job[k]
          BY <1>1, <3>1 DEF Creates, NewJob
    <3> QED BY <1>1, <3>2 DEF LifeBounded
  <2> QED BY <2>1, <2>2
<1>3. CASE Claim
      BY <1>1, <1>3, ClaimRows DEF RowKept, LifeBounded, project
<1>4. ASSUME NEW j \in Job, Worker(j)
      PROVE  LifeBounded' /\ lifecycle_revision' >= lifecycle_revision
  <2>1. CASE Publish(j)
    <3>1. UNCHANGED lifecycle_revision
          BY <2>1 DEF Publish
    <3> QED BY <1>1, <2>1, <3>1, PublishRows DEF RowKept, LifeBounded
  <2>2. CASE ~Publish(j)
        BY <1>1, <1>4, <2>2, WorkerRows DEF RowKept, LifeBounded, Created
  <2> QED BY <2>1, <2>2
<1>5. ASSUME NEW j \in Job, Expire(j)
      PROVE  LifeBounded' /\ lifecycle_revision' >= lifecycle_revision
      BY <1>1, <1>5, ExpireKeeps DEF RowKept, LifeBounded, Created, Expire, project
<1>6. CASE Network
      BY <1>1, <1>6 DEF Network, Report, LifeBounded, Created, project
<1>7. CASE UNCHANGED vars
      BY <1>1, <1>7 DEF vars, LifeBounded, Created
<1> QED BY <1>1, <1>2, <1>3, <1>4, <1>5, <1>6, <1>7 DEF Next

\* Steps that neither raise nor lower the barrier, and add no cleanup.
LEMMA BarrierKept ==
    ASSUME BarrierExclusive, Created \subseteq Created',
           UNCHANGED <<lifecycle_revision, write_barrier>> \/ (~write_barrier /\ ~write_barrier'),
           \A k \in Created : RowKept(k) /\ StillOpen(k),
           \A k \in Created' \ Created : ~write_barrier /\ job'[k].kind \notin Cleanup
    PROVE  BarrierExclusive'
<1>1. \A k \in Created : /\ OpenCleanup(k)' <=> OpenCleanup(k)
                         /\ Uncompleted(k)' <=> Uncompleted(k)
                         /\ job'[k].life = job[k].life
      BY DEF OpenCleanup, Uncompleted, RowKept, StillOpen
<1>2. CASE ~write_barrier
      BY <1>1, <1>2 DEF BarrierExclusive, OpenCleanup
<1>3. CASE write_barrier
  <2>1. Created' = Created /\ UNCHANGED <<lifecycle_revision, write_barrier>>
        BY <1>3
  <2>2. PICK w \in Created :
          /\ OpenCleanup(w) /\ job[w].life = lifecycle_revision
          /\ \A i \in Created \ {w} :
                ~OpenCleanup(i) /\ (Uncompleted(i) => job[i].life < lifecycle_revision)
        BY <1>3 DEF BarrierExclusive
  <2>3. /\ OpenCleanup(w)' /\ job'[w].life = lifecycle_revision'
        /\ \A i \in Created' \ {w} :
              ~OpenCleanup(i)' /\ (Uncompleted(i)' => job'[i].life < lifecycle_revision')
        BY <1>1, <2>1, <2>2
  <2> QED BY <1>3, <2>1, <2>2, <2>3 DEF BarrierExclusive
<1> QED BY <1>2, <1>3

\* A command raises the barrier together with the one cleanup it creates.
LEMMA BarrierRaised ==
    ASSUME TypeOK, LifeBounded, BarrierExclusive, ~write_barrier, write_barrier',
           lifecycle_revision' = lifecycle_revision + 1, NEW kind \in Cleanup,
           NEW docs, NEW person, NEW stage, Created' = Created \cup {njobs + 1},
           job'[njobs + 1] = NewJob(kind, docs, person, lifecycle_revision', stage),
           \A k \in Created : job'[k] = job[k]
    PROVE  BarrierExclusive'
<1>0. PICK w : w = njobs + 1
      OBVIOUS
<1>1. /\ lifecycle_revision \in Nat /\ w \notin Created
      /\ \A k \in Created : job[k].life \in Nat
      BY <1>0, ConstantsAssumption DEF TypeOK, Created, Job, JobRow
<1>2. OpenCleanup(w)' /\ job'[w].life = lifecycle_revision'
  <2>1. job'[w].kind = kind /\ job'[w].state = "pending" /\ job'[w].life = lifecycle_revision'
        BY <1>0 DEF NewJob
  <2> QED BY <1>0, <2>1 DEF OpenCleanup, Uncompleted
<1>3. \A i \in Created' \ {w} :
         ~OpenCleanup(i)' /\ (Uncompleted(i)' => job'[i].life < lifecycle_revision')
  <2> TAKE i \in Created' \ {w}
  <2>1. i \in Created /\ job'[i] = job[i]
        BY <1>0
  <2> QED BY <1>1, <2>1 DEF BarrierExclusive, OpenCleanup, Uncompleted, LifeBounded
<1>4. w \in Created'
      BY <1>0
<1> QED BY <1>2, <1>3, <1>4 DEF BarrierExclusive

\* The publication of the cleanup is what lowers the barrier, and no cleanup
\* is open afterwards (publish).
LEMMA BarrierPublish ==
    ASSUME TypeOK, BarrierExclusive, NEW j \in Job, Publish(j)
    PROVE  BarrierExclusive'
<1>1. /\ Working(j) /\ j \in Created /\ Uncompleted(j) /\ job[j].life = lifecycle_revision
      /\ write_barrier' = (write_barrier /\ job[j].kind \notin Cleanup)
  <2>1. Working(j) /\ write_barrier' = (write_barrier /\ job[j].kind \notin Cleanup)
        BY DEF Publish, Ready
  <2> QED BY <2>1, WorkingRow DEF Working, Uncompleted
<1>2. lifecycle_revision \in Nat
      BY DEF TypeOK
<1>3. \A i \in Created \ {j} : ~OpenCleanup(i)
      BY <1>1, <1>2 DEF BarrierExclusive
<1>4. ~write_barrier'
  <2>1. CASE write_barrier
    <3>1. PICK w \in Created :
             OpenCleanup(w) /\ (w # j => job[j].life < lifecycle_revision)
          BY <1>1, <2>1 DEF BarrierExclusive
    <3>2. w = j
          BY <1>1, <1>2, <3>1
    <3>3. job[j].kind \in Cleanup
          BY <3>1, <3>2 DEF OpenCleanup
    <3> QED BY <1>1, <3>3
  <2>2. CASE ~write_barrier
        BY <1>1, <2>2
  <2> QED BY <2>1, <2>2
<1>5. \A k \in Created' : ~OpenCleanup(k)'
  <2> TAKE k \in Created'
  <2>1. CASE k = j
        BY <2>1, PublishRows DEF OpenCleanup, Uncompleted
  <2>2. CASE k \in Created \ {j}
        BY <1>3, <2>2, PublishRows DEF OpenCleanup, Uncompleted
  <2>3. CASE k \in Created' \ Created
        BY <2>3, PublishRows DEF OpenCleanup, Cleanup
  <2> QED BY <2>1, <2>2, <2>3
<1> QED BY <1>4, <1>5 DEF BarrierExclusive

\* Every step keeps the barrier exclusive.
LEMMA BarrierStep == BarrierInv /\ [Next]_vars => BarrierInv'
<1> SUFFICES ASSUME TypeOK, LifeBounded, BarrierExclusive, [Next]_vars PROVE BarrierInv'
    BY DEF BarrierInv
<1>1. TypeOK' /\ LifeBounded'
      BY TypeStep, LifeStep
<1> SUFFICES BarrierExclusive'
    BY <1>1 DEF BarrierInv
<1>2. CASE Admin
  <2>1. CASE UNCHANGED <<lifecycle_revision, write_barrier, njobs>>
        BY <1>2, <2>1, AdminRows, BarrierKept DEF Created
  <2>2. CASE ~ UNCHANGED <<lifecycle_revision, write_barrier, njobs>>
    <3>1. PICK kind \in Kind : \E docs, person, stage : Creates(kind, docs, person, stage)
          BY <1>2, <2>2, CreatedRows
    <3>2. CASE kind \in Cleanup
          BY <3>1, <3>2, BarrierRaised DEF Cleanup, Creates
    <3>3. CASE kind \notin Cleanup
      <4>1. ~write_barrier /\ ~write_barrier' /\ Created \subseteq Created'
            BY <3>1, <3>3 DEF Creates
      <4>2. \A k \in Created' \ Created : job'[k].kind \notin Cleanup
            BY <3>1, <3>3 DEF NewJob, Creates
      <4> QED BY <1>2, <4>1, <4>2, AdminRows, BarrierKept
    <3> QED BY <3>2, <3>3
  <2> QED BY <2>1, <2>2
<1>3. CASE Claim
      BY <1>3, ClaimRows, BarrierKept DEF project
<1>4. ASSUME NEW j \in Job, Worker(j) PROVE BarrierExclusive'
  <2>1. CASE Publish(j)
        BY <2>1, BarrierPublish
  <2>2. CASE ~Publish(j)
        BY <1>4, <2>2, WorkerRows, BarrierKept DEF Created
  <2> QED BY <2>1, <2>2
<1>5. ASSUME NEW j \in Job, Expire(j) PROVE BarrierExclusive'
      BY <1>5, ExpireKeeps, BarrierKept DEF Expire, project, Created
<1>6. CASE Network
  <2>1. UNCHANGED <<project, njobs, job>>
        BY <1>6 DEF Network, Report
  <2> QED BY <2>1, UnchangedKeeps, BarrierKept DEF project, Created
<1>7. CASE UNCHANGED vars
      BY <1>7, UnchangedKeeps, BarrierKept DEF vars, Created
<1> QED BY <1>2, <1>3, <1>4, <1>5, <1>6, <1>7 DEF Next

\* While the write barrier is up exactly one cleanup is open, it carries the
\* project's revision and every other unfinished job is fenced; with the
\* barrier down none is open (_check, the barrier guards of the commands).
THEOREM BarrierAlwaysExclusive == Spec => []BarrierExclusive
<1>1. Init => BarrierInv
      BY InitType DEF Init, BarrierInv, LifeBounded, BarrierExclusive, Created
<1>2. BarrierInv => BarrierExclusive
      BY DEF BarrierInv
<1> QED BY <1>1, <1>2, BarrierStep, PTL DEF Spec

-----------------------------------------------------------------------------
(* Draining.  A cleanup gets past draining only by Drain, which finds every *)
(* older operation settled; from then on only a worker that holds a job at  *)
(* the current revision can make an operation outstanding.                  *)

\* A cleanup past draining after a command was so before it.
LEMMA AdminDrained ==
    ASSUME TypeOK, Admin, NEW k \in Created', PastDraining(k)'
    PROVE  k \in Created /\ PastDraining(k)
<1>1. ASSUME NEW d \in Doc, SubmitUpload(d) PROVE k \in Created /\ PastDraining(k)
  <2>1. /\ Created' = Created \cup {njobs + 1}
        /\ job'[njobs + 1] = NewJob("ingest", {d}, None, lifecycle_revision, "received")
        /\ \A i \in Created : job'[i] = job[i]
        BY <1>1, CreationKeeps DEF SubmitUpload
  <2> QED BY <2>1 DEF PastDraining, At, NewJob
<1>2. ASSUME NEW d \in Doc, NEW kind \in {"activate", "deactivate", "delete_document"},
             MutateDocument(d, kind)
      PROVE  k \in Created /\ PastDraining(k)
  <2>1. kind \in Cleanup => InitialStage(kind) = "invalidating"
        BY DEF InitialStage, Sequence, Cleanup, CleanupSequence, Kind
  <2>2. CASE k \in Created
        BY <1>2, <2>2, CreationKeeps DEF MutateDocument, PastDraining, At
  <2>3. CASE k = njobs + 1
    <3>1. job'[njobs + 1] = NewJob(kind, {d}, None, lifecycle_revision', InitialStage(kind))
          BY <1>2, CreationKeeps DEF MutateDocument
    <3> QED BY <2>1, <2>3, <3>1 DEF PastDraining, At, NewJob
  <2>4. Created' = Created \cup {njobs + 1}
        BY <1>2, CreationKeeps DEF MutateDocument
  <2> QED BY <2>2, <2>3, <2>4
<1>3. ASSUME NEW p \in Person, ErasePerson(p) PROVE k \in Created /\ PastDraining(k)
      BY <1>3, CreationKeeps DEF ErasePerson, PastDraining, At, NewJob
<1>4. ASSUME NEW p \in Person, AssociatePerson(p) PROVE k \in Created /\ PastDraining(k)
      BY <1>4 DEF AssociatePerson, PastDraining, At, Created
<1>5. ASSUME NEW j \in Job, RetryJob(j) PROVE k \in Created /\ PastDraining(k)
  <2>1. k \in Created
        BY <1>5 DEF RetryJob, Created
  <2> QED BY <1>5, <2>1, RetryKeeps DEF RowKept, StageKept, PastDraining, At
<1> QED BY <1>1, <1>2, <1>3, <1>4, <1>5 DEF Admin

\* A cleanup past draining after a worker's step was so before it, or it is the
\* worker's own and has just drained (prepare_cleanup).
LEMMA WorkerDrained ==
    ASSUME TypeOK, NEW j \in Job, Worker(j), NEW k \in Created, PastDraining(k)'
    PROVE  PastDraining(k) \/ (k = j /\ Drain(j))
<1>1. CASE k # j /\ job'[k] = job[k]
      BY <1>1 DEF PastDraining, At
<1>2. CASE StageKept(k) /\ RowKept(k)
      BY <1>2 DEF PastDraining, At, StageKept, RowKept
<1>3. RowKept(k)
      BY WorkerRows
<1>4. CASE job[j].kind \in Cleanup /\ k = j /\ PastDraining(j)
      BY <1>4
<1>5. Created \subseteq Job
      BY ConstantsAssumption DEF TypeOK, Created, Job
<1>6. CASE Parse(j) \/ PrivacyReady(j)
  <2>1. k # j => job'[k] = job[k]
        BY <1>5, <1>6 DEF Parse, PrivacyReady, TypeOK
  <2>2. job[j].kind \notin Cleanup
        BY <1>6 DEF Parse, PrivacyReady, At, Cleanup
  <2> QED BY <1>1, <1>3, <2>1, <2>2 DEF RowKept, PastDraining, At
<1>7. CASE PrivacyUnresolved(j)
      BY <1>2, <1>3, <1>7, PrivacyUnresolvedKeeps
<1>8. CASE Invalidating(j) \/ Inventory(j)
  <2>1. k # j => job'[k] = job[k]
        BY <1>5, <1>8 DEF Invalidating, Inventory, TypeOK
  <2>2. job'[j].stage \in {"inventory", "draining"}
        BY <1>8 DEF Invalidating, Inventory, TypeOK, JobRow
  <2> QED BY <1>1, <2>1, <2>2 DEF PastDraining, At
<1>9. CASE Drain(j) \/ SanitizeDeleted(j)
  <2>1. k # j => job'[k] = job[k]
        BY <1>5, <1>9 DEF Drain, SanitizeDeleted, TypeOK
  <2>2. SanitizeDeleted(j) => PastDraining(j)
        BY DEF SanitizeDeleted, PastDraining, At, Cleanup
  <2> QED BY <1>1, <1>9, <2>1, <2>2
<1>10. CASE SanitizeErased(j)
  <2>1. PastDraining(j)
        BY <1>10 DEF SanitizeErased, PastDraining, At, Cleanup
  <2> QED BY <1>2, <1>3, <1>10, <2>1, SanitizeErasedRows DEF StageKept
<1>11. ASSUME NEW d \in Doc, StageArtifacts(j, d) PROVE PastDraining(k)
       BY <1>11 DEF StageArtifacts, PastDraining, At
<1>12. ASSUME NEW x \in Slot, Prepare(j, x) \/ Start(j, x) PROVE PastDraining(k)
       BY <1>12 DEF Prepare, Start, PastDraining, At
<1>13. CASE ObsoleteIndexRemoved(j)
       BY <1>13 DEF ObsoleteIndexRemoved, PastDraining, At
<1>14. CASE Advance(j)
  <2>1. k # j => job'[k] = job[k]
        BY <1>5, <1>14 DEF Advance, TypeOK
  <2>2. ASSUME job[j].kind \in Cleanup PROVE PastDraining(j)
    <3>1. Sequence[job[j].kind] = CleanupSequence
          BY <2>2 DEF Sequence, Kind, Cleanup
    <3>2. PICK i \in 1 .. (Len(CleanupSequence) - 2) : CleanupSequence[i] = job[j].stage
          BY <1>14, <3>1 DEF Advance
    <3>3. job[j].stage \notin {"invalidating", "inventory", "draining", "sanitizing"}
          BY <1>14, <2>2 DEF Advance, StepDone, At
    <3>4. job[j].stage \in {"invalidating", "inventory", "draining", "sanitizing",
                            "rebuilding", "removing_index"}
          BY <3>2 DEF CleanupSequence
    <3> QED BY <2>2, <3>3, <3>4 DEF PastDraining, At
  <2> QED BY <1>1, <1>3, <2>1, <2>2 DEF RowKept, PastDraining, At
<1>15. CASE Publish(j)
  <2>1. k # j => job'[k] = job[k]
        BY <1>15, PublishRows
  <2>2. ASSUME job[j].kind \in Cleanup PROVE PastDraining(j)
    <3>1. Sequence[job[j].kind] = CleanupSequence
          BY <2>2 DEF Sequence, Kind, Cleanup
    <3>2. job[j].stage = CleanupSequence[Len(CleanupSequence) - 1]
          BY <1>15, <3>1 DEF Publish, Penultimate
    <3>3. job[j].stage = "verifying"
          BY <3>2 DEF CleanupSequence
    <3> QED BY <2>2, <3>3 DEF PastDraining, At
  <2> QED BY <1>1, <1>3, <2>1, <2>2 DEF RowKept, PastDraining, At
<1>16. ASSUME NEW code \in Codes, Fail(j, code) PROVE PastDraining(k)
       BY <1>2, <1>16, FailKeeps DEF PastDraining, At, StageKept, RowKept
<1> QED BY <1>6, <1>7, <1>8, <1>9, <1>10, <1>11, <1>12, <1>13, <1>14, <1>15, <1>16 DEF Worker

\* An operation becomes outstanding only in the hands of a worker whose job is
\* not fenced.
LEMMA OutstandingSource ==
    ASSUME TypeOK, [Next]_vars, NEW i \in Job, NEW x \in Slot, op'[i][x] \in Outstanding
    PROVE  op[i][x] \in Outstanding \/ Working(i)
<1>1. CASE Admin
  <2>1. UNCHANGED op
        BY <1>1 DEF Admin, SubmitUpload, MutateDocument, ErasePerson, AssociatePerson,
                    RetryJob, ledger
  <2> QED BY <2>1
<1>2. CASE Claim
  <2>1. PICK f : op' = [j \in Job |-> [y \in Slot |->
                          IF j \in DOMAIN f THEN Cancelled(op[j][y]) ELSE op[j][y]]]
        BY <1>2 DEF Claim, Rescheduling
  <2> QED BY <2>1 DEF Cancelled, Outstanding, Unresolved
<1>3. ASSUME NEW j \in Job, Worker(j)
      PROVE  op[i][x] \in Outstanding \/ Working(i)
  <2>1. CASE Parse(j) \/ PrivacyReady(j) \/ PrivacyUnresolved(j) \/ Invalidating(j)
                \/ Inventory(j) \/ SanitizeDeleted(j)
        BY <2>1 DEF Parse, PrivacyReady, PrivacyUnresolved, Invalidating, Inventory,
                    SanitizeDeleted, ledger
  <2>2. CASE SanitizeErased(j)
        BY <2>2 DEF SanitizeErased, ledger
  <2>3. CASE Drain(j)
        BY <2>3 DEF Drain, Cancelled, Outstanding, Unresolved
  <2>4. ASSUME NEW d \in Doc, StageArtifacts(j, d) PROVE op[i][x] \in Outstanding
        BY <2>4 DEF StageArtifacts
  <2>5. ASSUME NEW y \in Slot, Prepare(j, y) \/ Start(j, y)
        PROVE  op[i][x] \in Outstanding \/ Working(i)
    <3>1. Working(j)
          BY <2>5 DEF Prepare, Start, Ready
    <3>2. j # i => op'[i] = op[i]
          BY <2>5 DEF Prepare, Start, TypeOK
    <3> QED BY <3>1, <3>2
  <2>6. CASE ObsoleteIndexRemoved(j) \/ Advance(j) \/ Publish(j)
        BY <2>6 DEF ObsoleteIndexRemoved, Advance, Publish, ledger
  <2>7. ASSUME NEW code \in Codes, Fail(j, code) PROVE op[i][x] \in Outstanding
        BY <2>7 DEF Fail, ledger
  <2> QED BY <1>3, <2>1, <2>2, <2>3, <2>4, <2>5, <2>6, <2>7 DEF Worker
<1>4. ASSUME NEW j \in Job, Expire(j) PROVE op[i][x] \in Outstanding
      BY <1>4 DEF Expire, ledger
<1>5. ASSUME NEW j \in Job, NEW y \in Slot, NEW outcome \in Outcomes, Report(j, y, outcome)
      PROVE  op[i][x] \in Outstanding
  <2>1. CASE j = i /\ y = x
    <3>1. op'[i][x] = outcome
          BY <1>5, <2>1 DEF Report, TypeOK
    <3>2. outcome = "unknown"
          BY <3>1, ConstantsAssumption DEF Outstanding, Unresolved
    <3> QED BY <1>5, <2>1, <3>2 DEF Report, Outstanding, Unresolved
  <2>2. CASE ~(j = i /\ y = x)
        BY <1>5, <2>2 DEF Report, TypeOK
  <2> QED BY <2>1, <2>2
<1>6. CASE UNCHANGED vars
      BY <1>6 DEF vars
<1> QED BY <1>1, <1>2, <1>3, <1>4, <1>5, <1>6 DEF Next, Network

\* A cleanup past draining after a step was so before it, or has just drained.
LEMMA StepDrained ==
    ASSUME TypeOK, [Next]_vars, NEW k \in Created', PastDraining(k)'
    PROVE  k \in Created /\ (PastDraining(k) \/ Drain(k))
<1>1. CASE Admin
      BY <1>1, AdminDrained
<1>2. CASE Claim
      BY <1>2, ClaimRows DEF PastDraining, At, RowKept
<1>3. ASSUME NEW j \in Job, Worker(j) PROVE k \in Created /\ (PastDraining(k) \/ Drain(k))
  <2>1. CASE k \in Created
        BY <1>3, <2>1, WorkerDrained
  <2>2. CASE k \notin Created
    <3>1. Publish(j)
          BY <1>3, <2>2, WorkerRows DEF Created
    <3> QED BY <2>2, <3>1, PublishRows DEF PastDraining, At, Cleanup
  <2> QED BY <2>1, <2>2
<1>4. ASSUME NEW j \in Job, Expire(j) PROVE k \in Created /\ PastDraining(k)
  <2>1. k \in Created
        BY <1>4 DEF Expire, Created
  <2> QED BY <1>4, <2>1, ExpireKeeps DEF PastDraining, At, StageKept, RowKept
<1>5. CASE Network
      BY <1>5 DEF Network, Report, PastDraining, At, Created
<1>6. CASE UNCHANGED vars
      BY <1>6 DEF vars, PastDraining, At, Created
<1> QED BY <1>1, <1>2, <1>3, <1>4, <1>5, <1>6 DEF Next

DrainedInv == TypeOK /\ LifeBounded /\ Drained

\* Every step keeps every cleanup past draining drained.
LEMMA DrainedStep == DrainedInv /\ [Next]_vars => DrainedInv'
<1> SUFFICES ASSUME TypeOK, LifeBounded, Drained, [Next]_vars PROVE DrainedInv'
    BY DEF DrainedInv
<1>1. TypeOK' /\ LifeBounded'
      BY TypeStep, LifeStep
<1>2. /\ lifecycle_revision \in Nat /\ lifecycle_revision' \in Nat
      /\ \A k \in Created : k \in Job /\ job[k].life \in Nat
      /\ \A k \in Created' : k \in Job /\ job'[k].life \in Nat
  <2>1. Created \subseteq Job /\ Created' \subseteq Job
        BY <1>1, ConstantsAssumption DEF TypeOK, Created, Job
  <2> QED BY <1>1, <2>1 DEF TypeOK, JobRow
<1>3. \A k \in Created : RowKept(k)
  <2>1. CASE Admin
        BY <2>1, AdminRows
  <2>2. CASE Claim
        BY <2>2, ClaimRows
  <2>3. ASSUME NEW j \in Job, Worker(j) PROVE \A k \in Created : RowKept(k)
        BY <2>3, WorkerRows
  <2>4. ASSUME NEW j \in Job, Expire(j) PROVE \A k \in Created : RowKept(k)
        BY <2>4, ExpireKeeps
  <2>5. CASE Network
        BY <2>5, UnchangedKeeps DEF Network, Report
  <2>6. CASE UNCHANGED vars
        BY <2>6, UnchangedKeeps DEF vars
  <2> QED BY <2>1, <2>2, <2>3, <2>4, <2>5, <2>6 DEF Next
<1>4. \A k \in Created' \ Created : job'[k].life = lifecycle_revision'
  <2>1. CASE Admin
    <3>1. CASE UNCHANGED <<lifecycle_revision, write_barrier, njobs>>
          BY <3>1 DEF Created
    <3>2. CASE ~ UNCHANGED <<lifecycle_revision, write_barrier, njobs>>
      <4>1. PICK kind \in Kind : \E docs, person, stage : Creates(kind, docs, person, stage)
            BY <2>1, <3>2, CreatedRows
      <4> QED BY <4>1 DEF Creates, NewJob
    <3> QED BY <3>1, <3>2
  <2>2. CASE Claim
        BY <2>2, ClaimRows DEF project
  <2>3. ASSUME NEW j \in Job, Worker(j)
        PROVE  \A k \in Created' \ Created : job'[k].life = lifecycle_revision'
    <3>1. CASE Publish(j)
          BY <3>1, PublishRows DEF Publish
    <3>2. CASE ~Publish(j)
          BY <2>3, <3>2, WorkerRows DEF Created
    <3> QED BY <3>1, <3>2
  <2>4. ASSUME UNCHANGED njobs
        PROVE  \A k \in Created' \ Created : job'[k].life = lifecycle_revision'
        BY <2>4 DEF Created
  <2>5. (\E j \in Job : Expire(j)) \/ Network \/ UNCHANGED vars => UNCHANGED njobs
        BY DEF Expire, Network, Report, vars
  <2> QED BY <2>1, <2>2, <2>3, <2>4, <2>5 DEF Next
<1>5. ASSUME NEW k \in Created', PastDraining(k)', NEW i \in Created',
             job'[i].life < job'[k].life, NEW x \in Slot
      PROVE  op'[i][x] \notin Outstanding
  <2>1. k \in Created /\ (PastDraining(k) \/ Drain(k)) /\ job'[k].life = job[k].life
        BY <1>3, <1>5, StepDrained DEF RowKept
  <2>2. i \in Created /\ job'[i].life = job[i].life
        BY <1>1, <1>2, <1>3, <1>4, <1>5 DEF LifeBounded, RowKept
  <2>3. job[i].life < job[k].life
        BY <1>5, <2>1, <2>2
  <2>4. CASE PastDraining(k)
    <3>1. op[i][x] \notin Outstanding
          BY <2>1, <2>2, <2>3, <2>4 DEF Drained, PastDraining
    <3>2. ~Working(i)
          BY <1>2, <2>1, <2>2, <2>3 DEF Working, LifeBounded
    <3> QED BY <1>2, <2>2, <3>1, <3>2, OutstandingSource
  <2>5. CASE Drain(k)
    <3>1. op[i][x] \notin Unresolved
          BY <2>2, <2>3, <2>5 DEF Drain
    <3>2. op' = [m \in Job |-> [y \in Slot |->
                    IF m \in Created /\ job[m].life < job[k].life
                    THEN Cancelled(op[m][y]) ELSE op[m][y]]]
          BY <2>5 DEF Drain
    <3>3. i \in Job
          BY <1>2, <2>2
    <3>4. op'[i][x] = Cancelled(op[i][x])
          BY <2>2, <2>3, <3>2, <3>3
    <3> QED BY <3>1, <3>4 DEF Cancelled, Outstanding, Unresolved
  <2> QED BY <2>1, <2>4, <2>5
<1>6. Drained'
      BY <1>5 DEF Drained, PastDraining
<1> QED BY <1>1, <1>6 DEF DrainedInv

\* Once a cleanup has drained, no index call dispatched before it can be
\* outstanding again, whatever late reports arrive (prepare_cleanup draining,
\* Ledger.start, Ledger.report).
THEOREM CleanupStaysDrained == Spec => []Drained
<1>1. Init => DrainedInv
      BY InitType DEF Init, DrainedInv, LifeBounded, Drained, Created
<1>2. DrainedInv => Drained
      BY DEF DrainedInv
<1> QED BY <1>1, <1>2, DrainedStep, PTL DEF Spec

-----------------------------------------------------------------------------
(***************************************************************************)
(* The promise of Barrier and the inventory of a cleanup.  The argument    *)
(* follows the stages of a cleanup: none is skipped or repeated, an        *)
(* operation once prepared is never forgotten, and only a worker whose job *)
(* is not fenced prepares one.                                             *)
(***************************************************************************)

\* What any step does to the rows of existing jobs; the jobs it creates carry
\* the revision the project then has.
LEMMA StepRows ==
    ASSUME TypeOK, [Next]_vars
    PROVE  /\ Created \subseteq Created'
           /\ \A k \in Created : RowKept(k) /\ (StillOpen(k) \/ Publish(k))
           /\ \A k \in Created' \ Created : job'[k].life = lifecycle_revision'
<1>1. CASE Admin
  <2>1. \A k \in Created : RowKept(k) /\ StillOpen(k)
        BY <1>1, AdminRows
  <2>2. CASE UNCHANGED <<lifecycle_revision, write_barrier, njobs>>
        BY <2>1, <2>2 DEF Created
  <2>3. CASE ~ UNCHANGED <<lifecycle_revision, write_barrier, njobs>>
    <3>1. PICK kind \in Kind : \E docs, person, stage : Creates(kind, docs, person, stage)
          BY <1>1, <2>3, CreatedRows
    <3> QED BY <2>1, <3>1 DEF Creates, NewJob
  <2> QED BY <2>2, <2>3
<1>2. CASE Claim
      BY <1>2, ClaimRows DEF project
<1>3. ASSUME NEW j \in Job, Worker(j)
      PROVE  /\ Created \subseteq Created'
             /\ \A k \in Created : RowKept(k) /\ (StillOpen(k) \/ Publish(k))
             /\ \A k \in Created' \ Created : job'[k].life = lifecycle_revision'
  <2>1. CASE Publish(j)
    <3>1. UNCHANGED lifecycle_revision
          BY <2>1 DEF Publish
    <3>2. \A k \in Created : RowKept(k) /\ (StillOpen(k) \/ Publish(k))
          BY <1>3, <2>1, WorkerRows
    <3>3. /\ Created \subseteq Created'
          /\ \A k \in Created' \ Created : job'[k].life = lifecycle_revision
          BY <2>1, PublishRows
    <3> QED BY <3>1, <3>2, <3>3
  <2>2. CASE ~Publish(j)
        BY <1>3, <2>2, WorkerRows DEF Created
  <2> QED BY <2>1, <2>2
<1>4. ASSUME NEW j \in Job, Expire(j)
      PROVE  UNCHANGED Created /\ \A k \in Created : RowKept(k) /\ StillOpen(k)
      BY <1>4, ExpireKeeps DEF Expire, Created
<1>5. CASE Network \/ UNCHANGED vars
  <2>1. UNCHANGED <<job, njobs>>
        BY <1>5 DEF Network, Report, vars
  <2> QED BY <2>1, UnchangedKeeps DEF Created
<1> QED BY <1>1, <1>2, <1>3, <1>4, <1>5 DEF Next

\* Invalidating the corpus and planning the work of a new job leave the
\* inventories of existing jobs alone.
LEMMA CreatedInvalidated ==
    ASSUME TypeOK, NEW w, work' = [Invalidated(work) EXCEPT ![njobs + 1] = w]
    PROVE  \A i \in Created : work'[i].removals = work[i].removals
<1> SUFFICES ASSUME NEW i \in Created PROVE work'[i].removals = work[i].removals
    OBVIOUS
<1>1. i \in Job /\ i # njobs + 1 /\ work[i] \in WorkRow
      BY ConstantsAssumption DEF TypeOK, Created, Job
<1>2. work'[i] = [work[i] EXCEPT !.fresh = FALSE]
      BY <1>1 DEF Invalidated
<1> QED BY <1>1, <1>2 DEF WorkRow

\* A new cleanup is pending at its first stage.
LEMMA NewCleanup ==
    ASSUME TypeOK, [Next]_vars, NEW k \in Created' \ Created, job'[k].kind \in Cleanup
    PROVE  /\ job'[k].stage = "invalidating" /\ job'[k].state = "pending"
           /\ UNCHANGED <<op, entry>>
           /\ ~write_barrier /\ Created' = Created \cup {k}
           /\ lifecycle_revision' = lifecycle_revision + 1
           /\ \A i \in Created : job'[i] = job[i] /\ work'[i].removals = work[i].removals
<1>1. CASE Admin
  <2>1. ASSUME NEW d \in Doc, SubmitUpload(d) PROVE FALSE
    <3>1. /\ Created' = Created \cup {njobs + 1}
          /\ job'[njobs + 1] = NewJob("ingest", {d}, None, lifecycle_revision, "received")
          BY <2>1, CreationKeeps DEF SubmitUpload
    <3> QED BY <3>1 DEF NewJob, Cleanup
  <2>2. ASSUME NEW d \in Doc, NEW kind \in {"activate", "deactivate", "delete_document"},
               MutateDocument(d, kind)
        PROVE  /\ job'[k] = NewJob(kind, {d}, None, lifecycle_revision', InitialStage(kind))
               /\ k = njobs + 1 /\ Created' = Created \cup {k}
               /\ \A i \in Created : job'[i] = job[i]
        BY <2>2, CreationKeeps DEF MutateDocument
  <2>3. ASSUME NEW p \in Person, ErasePerson(p)
        PROVE  /\ \E docs : job'[k] = NewJob("erase_person", docs, p, lifecycle_revision',
                                            "invalidating")
               /\ k = njobs + 1 /\ Created' = Created \cup {k}
               /\ \A i \in Created : job'[i] = job[i]
    <3> DEFINE affected == {d \in Doc : Occurs(p, d)}
               r == NewJob("erase_person", affected, p, lifecycle_revision', "invalidating")
    <3>1. njobs < MaxJobs /\ njobs' = njobs + 1 /\ job' = [job EXCEPT ![njobs'] = r]
          BY <2>3 DEF ErasePerson
    <3> HIDE DEF affected
    <3>2. /\ job'[njobs + 1] = r /\ Created' = Created \cup {njobs + 1}
          /\ \A i \in Created : job'[i] = job[i]
      <4> HIDE DEF r
      <4> QED BY <3>1, CreationKeeps
    <3> QED BY <3>2
  <2>4. \A kind \in Cleanup : InitialStage(kind) = "invalidating"
        BY DEF InitialStage, Sequence, Cleanup, CleanupSequence, Kind
  <2>5. CASE \E d \in Doc : \E kind \in {"activate", "deactivate", "delete_document"} :
                MutateDocument(d, kind)
    <3>1. PICK d \in Doc, kind \in {"activate", "deactivate", "delete_document"} :
             MutateDocument(d, kind)
          BY <2>5
    <3>2. /\ job'[k].kind = kind /\ job'[k].stage = InitialStage(kind)
          /\ job'[k].state = "pending"
      <4>1. job'[k] = NewJob(kind, {d}, None, lifecycle_revision', InitialStage(kind))
            BY <2>2, <3>1
      <4> QED BY <4>1 DEF NewJob
    <3>3. /\ UNCHANGED <<op, entry>> /\ ~write_barrier
          /\ lifecycle_revision' = lifecycle_revision + 1
          BY <3>1 DEF MutateDocument, ledger
    <3>4. \A i \in Created : work'[i].removals = work[i].removals
      <4>1. \E w : work' = [Invalidated(work) EXCEPT ![njobs'] = w] /\ njobs' = njobs + 1
            BY <3>1 DEF MutateDocument
      <4> QED BY <4>1, CreatedInvalidated
    <3> QED BY <2>2, <2>4, <3>1, <3>2, <3>3, <3>4
  <2>6. CASE \E p \in Person : ErasePerson(p)
    <3>1. PICK p \in Person : ErasePerson(p)
          BY <2>6
    <3>2. job'[k].stage = "invalidating" /\ job'[k].state = "pending"
      <4>1. PICK docs : job'[k] = NewJob("erase_person", docs, p, lifecycle_revision',
                                         "invalidating")
            BY <2>3, <3>1
      <4> QED BY <4>1 DEF NewJob
    <3>3. /\ UNCHANGED <<op, entry>> /\ ~write_barrier
          /\ lifecycle_revision' = lifecycle_revision + 1
          BY <3>1 DEF ErasePerson, ledger
    <3>4. \A i \in Created : work'[i].removals = work[i].removals
      <4>1. \E w : work' = [Invalidated(work) EXCEPT ![njobs'] = w] /\ njobs' = njobs + 1
            BY <3>1 DEF ErasePerson
      <4> QED BY <4>1, CreatedInvalidated
    <3> QED BY <2>3, <3>1, <3>2, <3>3, <3>4
  <2>7. ASSUME (\E p \in Person : AssociatePerson(p)) \/ (\E j \in Job : RetryJob(j))
        PROVE  FALSE
        BY <2>7 DEF AssociatePerson, RetryJob, Created
  <2> QED BY <1>1, <2>1, <2>5, <2>6, <2>7 DEF Admin
<1>2. CASE Claim
      BY <1>2, ClaimRows
<1>3. ASSUME NEW j \in Job, Worker(j) PROVE FALSE
  <2>1. CASE Publish(j)
        BY <2>1, PublishRows DEF Cleanup
  <2>2. CASE ~Publish(j)
        BY <1>3, <2>2, WorkerRows DEF Created
  <2> QED BY <2>1, <2>2
<1>4. CASE (\E j \in Job : Expire(j)) \/ Network \/ UNCHANGED vars
  <2>1. UNCHANGED njobs
        BY <1>4 DEF Expire, Network, Report, vars
  <2> QED BY <2>1 DEF Created
<1> QED BY <1>1, <1>2, <1>3, <1>4 DEF Next

\* The ledger moves in one operation at a time, but for the cancellation of
\* prepared ones; no move meets a change of the checkpoints.
LEMMA LedgerSteps ==
    ASSUME [Next]_vars
    PROVE  \/ UNCHANGED <<op, entry>>
           \/ /\ UNCHANGED entry
              /\ \A i \in Job, x \in Slot : op'[i][x] \in {op[i][x], Cancelled(op[i][x])}
           \/ \E j \in Job, y \in Slot :
                 Prepare(j, y) \/ Start(j, y) \/ \E o \in Outcomes : Report(j, y, o)
           \/ \E j \in Job, d \in Doc : StageArtifacts(j, d)
<1>1. CASE Admin
      BY <1>1 DEF Admin, SubmitUpload, MutateDocument, ErasePerson, AssociatePerson,
                  RetryJob, ledger
<1>2. CASE Claim
      BY <1>2 DEF Claim, Rescheduling
<1>3. ASSUME NEW j \in Job, Worker(j)
      PROVE  \/ UNCHANGED <<op, entry>>
             \/ /\ UNCHANGED entry
                /\ \A i \in Job, x \in Slot : op'[i][x] \in {op[i][x], Cancelled(op[i][x])}
             \/ \E y \in Slot : Prepare(j, y) \/ Start(j, y)
             \/ \E d \in Doc : StageArtifacts(j, d)
  <2>1. CASE Parse(j) \/ PrivacyReady(j) \/ PrivacyUnresolved(j) \/ Invalidating(j)
                \/ Inventory(j) \/ SanitizeDeleted(j) \/ SanitizeErased(j)
        BY <2>1 DEF Parse, PrivacyReady, PrivacyUnresolved, Invalidating, Inventory,
                    SanitizeDeleted, SanitizeErased, ledger
  <2>2. CASE Drain(j)
        BY <2>2 DEF Drain
  <2>3. CASE ObsoleteIndexRemoved(j) \/ Advance(j) \/ Publish(j)
        BY <2>3 DEF ObsoleteIndexRemoved, Advance, Publish, ledger
  <2>4. ASSUME NEW code \in Codes, Fail(j, code) PROVE UNCHANGED <<op, entry>>
        BY <2>4 DEF Fail, ledger
  <2> QED BY <1>3, <2>1, <2>2, <2>3, <2>4 DEF Worker
<1>4. ASSUME NEW j \in Job, Expire(j) PROVE UNCHANGED <<op, entry>>
      BY <1>4 DEF Expire, ledger
<1>5. CASE UNCHANGED vars
      BY <1>5 DEF vars
<1> QED BY <1>1, <1>2, <1>3, <1>4, <1>5 DEF Next, Network

\* An operation once prepared stays in the ledger, one acknowledged stays so,
\* and the checkpointed entry of neither changes.
LEMMA LedgerKept ==
    ASSUME TypeOK, [Next]_vars, NEW i \in Job, NEW x \in Slot
    PROVE  /\ op[i][x] # "none" => op'[i][x] # "none"
           /\ op[i][x] = "succeeded" => op'[i][x] = "succeeded"
           /\ op[i][x] = "none" /\ op'[i][x] # "none" => Prepare(i, x)
           /\ op[i][x] # "pending" /\ op'[i][x] = "pending" => Prepare(i, x)
           /\ x \in Doc /\ op[i][x] # "none" => entry'[i][x] = entry[i][x]
<1>1. CASE UNCHANGED <<op, entry>>
      BY <1>1
<1>2. CASE UNCHANGED entry /\ op'[i][x] \in {op[i][x], Cancelled(op[i][x])}
      BY <1>2 DEF Cancelled
<1>3. ASSUME NEW j \in Job, NEW y \in Slot, Prepare(j, y)
      PROVE  /\ UNCHANGED entry
             /\ op'[i][x] = op[i][x] \/ (j = i /\ y = x /\ op[i][x] = "none")
      BY <1>3 DEF Prepare, TypeOK
<1>4. ASSUME NEW j \in Job, NEW y \in Slot, Start(j, y)
      PROVE  /\ UNCHANGED entry
             /\ \/ op'[i][x] = op[i][x]
                \/ op[i][x] \in {"pending", "failed", "unknown"} /\ op'[i][x] = "in_flight"
      BY <1>4 DEF Start, TypeOK
<1>5. ASSUME NEW j \in Job, NEW y \in Slot, NEW o \in Outcomes, Report(j, y, o)
      PROVE  /\ UNCHANGED entry
             /\ \/ op'[i][x] = op[i][x]
                \/ /\ op[i][x] \in {"pending", "in_flight", "unknown", "failed"}
                   /\ op'[i][x] = o
      BY <1>5 DEF Report, TypeOK
<1>6. \A o \in Outcomes : o # "none" /\ o # "pending"
      BY ConstantsAssumption
<1>7. ASSUME NEW j \in Job, NEW d \in Doc, StageArtifacts(j, d)
      PROVE  /\ UNCHANGED op
             /\ x \in Doc /\ entry[i][x] # None => entry'[i][x] = entry[i][x]
      BY <1>7 DEF StageArtifacts, TypeOK
<1>8. x \in Doc /\ op[i][x] # "none" => entry[i][x] # None
      BY DEF TypeOK
<1> QED BY <1>1, <1>2, <1>3, <1>4, <1>5, <1>6, <1>7, <1>8, LedgerSteps

\* Only its own inventory pass changes what a cleanup is going to remove.
LEMMA InventoryOnly ==
    ASSUME TypeOK, [Next]_vars, NEW k \in Created, job[k].kind \in Cleanup
    PROVE  \/ work'[k].removals = work[k].removals
           \/ Inventory(k) /\ work'[k].removals = work[k].removals \cup Inventoried(k)
<1>1. k \in Job /\ work[k] \in WorkRow
      BY ConstantsAssumption DEF TypeOK, Created, Job
<1>2. ASSUME work' = Invalidated(work) PROVE work'[k].removals = work[k].removals
  <2>1. work'[k] = [work[k] EXCEPT !.fresh = FALSE]
        BY <1>1, <1>2 DEF Invalidated
  <2> QED BY <1>1, <2>1 DEF WorkRow
<1>3. CASE Admin
  <2>1. CASE UNCHANGED work
        BY <2>1
  <2>2. CASE work' = Invalidated(work)
        BY <1>2, <2>2
  <2>3. ASSUME NEW w, work' = [Invalidated(work) EXCEPT ![njobs + 1] = w]
        PROVE  work'[k].removals = work[k].removals
        BY <2>3, CreatedInvalidated
  <2>4. ASSUME NEW w, work' = [work EXCEPT ![njobs + 1] = w]
        PROVE  work'[k].removals = work[k].removals
    <3>1. k # njobs + 1
          BY DEF Created, TypeOK
    <3> QED BY <1>1, <2>4, <3>1 DEF TypeOK
  <2>5. ASSUME NEW d \in Doc, SubmitUpload(d) PROVE \E w : work' = [work EXCEPT ![njobs + 1] = w]
        BY <2>5 DEF SubmitUpload
  <2>6. ASSUME NEW d \in Doc, NEW kind, MutateDocument(d, kind)
        PROVE  \E w : work' = [Invalidated(work) EXCEPT ![njobs + 1] = w]
        BY <2>6 DEF MutateDocument
  <2>7. ASSUME NEW p \in Person, ErasePerson(p)
        PROVE  \E w : work' = [Invalidated(work) EXCEPT ![njobs + 1] = w]
        BY <2>7 DEF ErasePerson
  <2>8. ASSUME NEW p \in Person, AssociatePerson(p) PROVE work' = Invalidated(work)
        BY <2>8 DEF AssociatePerson
  <2>9. ASSUME NEW j \in Job, RetryJob(j) PROVE UNCHANGED work
        BY <2>9 DEF RetryJob
  <2> QED BY <1>3, <2>1, <2>2, <2>3, <2>4, <2>5, <2>6, <2>7, <2>8, <2>9 DEF Admin
<1>4. CASE Claim
  <2>1. PICK n \in 0 .. (MaxJobs - njobs) : \E f \in Renumberings(n) : Rescheduling(f)
        BY <1>4 DEF Claim
  <2>2. PICK f \in Renumberings(n) : Rescheduling(f)
        BY <2>1
  <2>3. ~ \E j \in DOMAIN f : f[j] = k
        BY RenumberedType DEF Created
  <2>4. work'[k] = IF k \in DOMAIN f THEN [work[k] EXCEPT !.successor = f[k]] ELSE work[k]
        BY <1>1, <2>2, <2>3 DEF Rescheduling, RescheduledWork
  <2> QED BY <1>1, <2>4 DEF WorkRow
<1>5. ASSUME NEW j \in Job, Worker(j)
      PROVE  \/ work'[k].removals = work[k].removals
             \/ Inventory(k) /\ work'[k].removals = work[k].removals \cup Inventoried(k)
  <2>1. CASE Parse(j)
    <3>1. \E w : work' = [work EXCEPT ![j].refs = w]
          BY <2>1 DEF Parse
    <3> QED BY <1>1, <3>1 DEF TypeOK, WorkRow
  <2>2. CASE Inventory(j)
    <3>1. work' = [work EXCEPT ![j].removals = @ \cup Inventoried(j)]
          BY <2>2 DEF Inventory
    <3> HIDE DEF Inventory, Inventoried
    <3>2. work'[k].removals = IF k = j THEN work[k].removals \cup Inventoried(k)
                                       ELSE work[k].removals
          BY <1>1, <3>1 DEF TypeOK, WorkRow
    <3> QED BY <2>2, <3>2
  <2>3. CASE SanitizeErased(j)
    <3>1. \E refs : work'[k] \in {work[k], [work[k] EXCEPT !.forbidden = TRUE],
                                  [work[k] EXCEPT !.refs = refs]}
          BY <1>1, <2>3 DEF SanitizeErased
    <3> QED BY <1>1, <3>1 DEF WorkRow
  <2>4. CASE ObsoleteIndexRemoved(j)
    <3>1. work' = [work EXCEPT ![j].cleaned = TRUE]
          BY <2>4 DEF ObsoleteIndexRemoved
    <3> QED BY <1>1, <3>1 DEF TypeOK, WorkRow
  <2>5. CASE Publish(j)
    <3>1. \/ work' = work \/ work' = Invalidated(work)
          \/ \E w : work' = [Invalidated(work) EXCEPT ![njobs + 1] = w]
          BY <2>5 DEF Publish, PublishedWork
    <3> QED BY <1>2, <3>1, CreatedInvalidated
  <2>6. CASE UNCHANGED work
        BY <2>6
  <2>7. \/ PrivacyReady(j) \/ PrivacyUnresolved(j) \/ Invalidating(j) \/ Drain(j)
        \/ SanitizeDeleted(j) \/ Advance(j)
        \/ \E d \in Doc : StageArtifacts(j, d)
        \/ \E x \in Slot : Prepare(j, x) \/ Start(j, x)
        \/ \E code \in Codes : Fail(j, code)
        => UNCHANGED work
        BY DEF PrivacyReady, PrivacyUnresolved, Invalidating, Drain, SanitizeDeleted, Advance,
               StageArtifacts, Prepare, Start, Fail
  <2> QED BY <1>5, <2>1, <2>2, <2>3, <2>4, <2>5, <2>6, <2>7 DEF Worker
<1>6. CASE (\E j \in Job : Expire(j)) \/ Network \/ UNCHANGED vars
      BY <1>6 DEF Expire, Network, Report, vars
<1> QED BY <1>3, <1>4, <1>5, <1>6 DEF Next

\* Only a cleanup's publication empties operations (publish).
LEMMA PurgedOnly ==
    ASSUME [Next]_vars
    PROVE  \/ UNCHANGED purged
           \/ \E j \in Job :
                 /\ Publish(j) /\ job[j].kind \in Cleanup
                 /\ purged' = [i \in Job |-> purged[i] \cup
                        {d \in Doc : op[i][d] # "none" /\ entry[i][d] \in work[j].removals}]
           \/ purged' = [i \in Job |-> purged[i]]
<1>1. CASE Admin
      BY <1>1 DEF Admin, SubmitUpload, MutateDocument, ErasePerson, AssociatePerson,
                  RetryJob, ledger
<1>2. CASE Claim
      BY <1>2 DEF Claim
<1>3. ASSUME NEW j \in Job, Worker(j), ~Publish(j) PROVE UNCHANGED purged
      BY <1>3 DEF Worker, Parse, PrivacyReady, PrivacyUnresolved, Invalidating, Inventory, Drain,
                  SanitizeDeleted, SanitizeErased, StageArtifacts, Prepare, Start,
                  ObsoleteIndexRemoved, Advance, Fail, ledger
<1>4. ASSUME NEW j \in Job, Publish(j)
      PROVE  purged' = [i \in Job |-> IF job[j].kind \notin Cleanup THEN purged[i]
                ELSE purged[i] \cup
                        {d \in Doc : op[i][d] # "none" /\ entry[i][d] \in work[j].removals}]
      BY <1>4 DEF Publish
<1>5. CASE (\E j \in Job : Expire(j)) \/ Network \/ UNCHANGED vars
      BY <1>5 DEF Expire, Network, Report, vars, ledger
<1> QED BY <1>1, <1>2, <1>3, <1>4, <1>5 DEF Next

\* A publication leaves its own row completed at the last stage of its kind.
LEMMA PublishedRow ==
    ASSUME TypeOK, NEW j \in Job, Publish(j)
    PROVE  /\ job'[j].state = "completed"
           /\ job'[j].stage = Sequence[job[j].kind][Len(Sequence[job[j].kind])]
<1> DEFINE last == Sequence[job[j].kind][Len(Sequence[job[j].kind])]
           row == [job[j] EXCEPT !.state = "completed", !.stage = last, !.code = None,
                                 !.retryable = FALSE, !.lease = "none"]
           completed == [job EXCEPT ![j] = row]
<1>1. j \in Created /\ job[j] \in JobRow
      BY WorkingRow DEF Publish, Ready
<1>2. row.state = "completed" /\ row.stage = last
      BY <1>1 DEF JobRow
<1>3. \/ job' = completed
      \/ \E r : job' = [completed EXCEPT ![njobs'] = r] /\ njobs' = njobs + 1
      BY DEF Publish
<1> HIDE DEF row, last
<1>4. completed[j] = row /\ completed \in [Job -> {completed[i] : i \in Job}] /\ j # njobs + 1
      BY <1>1 DEF TypeOK, Created
<1> HIDE DEF completed
<1>5. job'[j] = row
      BY <1>3, <1>4
<1> QED BY <1>2, <1>5 DEF last

\* The steps that move a job to another stage are its own.
MovesStage(k) ==
    \/ Parse(k) \/ PrivacyReady(k)
    \/ Invalidating(k) \/ Inventory(k) \/ Drain(k)
    \/ SanitizeDeleted(k) \/ SanitizeErased(k)
    \/ Advance(k) \/ Publish(k)

LEMMA StageMovedBy ==
    ASSUME TypeOK, [Next]_vars, NEW k \in Created
    PROVE  StageKept(k) \/ MovesStage(k)
<1>1. k \in Job /\ job[k] \in JobRow
      BY ConstantsAssumption DEF TypeOK, Created, Job
<1>2. ASSUME job'[k] = job[k] PROVE StageKept(k)
      BY <1>2 DEF StageKept
<1>3. CASE Admin
  <2>1. ASSUME NEW d \in Doc, SubmitUpload(d) PROVE job'[k] = job[k]
        BY <2>1, CreationKeeps DEF SubmitUpload
  <2>2. ASSUME NEW d \in Doc, NEW kind, MutateDocument(d, kind) PROVE job'[k] = job[k]
        BY <2>2, CreationKeeps DEF MutateDocument
  <2>3. ASSUME NEW p \in Person, ErasePerson(p) PROVE job'[k] = job[k]
        BY <2>3, CreationKeeps DEF ErasePerson
  <2>4. ASSUME NEW p \in Person, AssociatePerson(p) PROVE job'[k] = job[k]
        BY <2>4 DEF AssociatePerson
  <2>5. ASSUME NEW j \in Job, RetryJob(j) PROVE StageKept(k)
        BY <2>5, RetryKeeps
  <2> QED BY <1>2, <1>3, <2>1, <2>2, <2>3, <2>4, <2>5 DEF Admin
<1>4. CASE Claim
      BY <1>4, ClaimRows DEF StageKept
<1>5. ASSUME NEW j \in Job, Worker(j), j # k PROVE StageKept(k)
  <2>1. CASE Parse(j) \/ PrivacyReady(j) \/ Invalidating(j) \/ Inventory(j) \/ Drain(j)
                  \/ SanitizeDeleted(j) \/ Advance(j)
        BY <1>1, <1>2, <1>5, <2>1 DEF Parse, PrivacyReady, Invalidating, Inventory, Drain,
                                      SanitizeDeleted, Advance, TypeOK
  <2>2. CASE PrivacyUnresolved(j)
        BY <2>2, PrivacyUnresolvedKeeps
  <2>3. CASE SanitizeErased(j)
        BY <1>5, <2>3, SanitizeErasedRows DEF StageKept
  <2>4. CASE Publish(j)
        BY <1>2, <1>5, <2>4, PublishRows
  <2>5. ASSUME NEW code \in Codes, Fail(j, code) PROVE StageKept(k)
        BY <2>5, FailKeeps
  <2>6. CASE \/ \E d \in Doc : StageArtifacts(j, d)
             \/ \E x \in Slot : Prepare(j, x) \/ Start(j, x)
             \/ ObsoleteIndexRemoved(j)
        BY <1>2, <2>6 DEF StageArtifacts, Prepare, Start, ObsoleteIndexRemoved
  <2> QED BY <1>5, <2>1, <2>2, <2>3, <2>4, <2>5, <2>6 DEF Worker
<1>6. ASSUME Worker(k), ~MovesStage(k) PROVE StageKept(k)
  <2>1. CASE PrivacyUnresolved(k)
        BY <1>1, <2>1, PrivacyUnresolvedKeeps
  <2>2. ASSUME NEW code \in Codes, Fail(k, code) PROVE StageKept(k)
        BY <1>1, <2>2, FailKeeps
  <2>3. CASE \/ \E d \in Doc : StageArtifacts(k, d)
             \/ \E x \in Slot : Prepare(k, x) \/ Start(k, x)
             \/ ObsoleteIndexRemoved(k)
        BY <1>2, <2>3 DEF StageArtifacts, Prepare, Start, ObsoleteIndexRemoved
  <2> QED BY <1>6, <2>1, <2>2, <2>3 DEF Worker, MovesStage
<1>7. ASSUME NEW j \in Job, Expire(j) PROVE StageKept(k)
      BY <1>7, ExpireKeeps
<1>8. CASE Network \/ UNCHANGED vars
      BY <1>2, <1>8 DEF Network, Report, vars
<1> QED BY <1>3, <1>4, <1>5, <1>6, <1>7, <1>8 DEF Next

\* A cleanup goes through its stages in their order, each by a pass of its own.
StagesInOrder(k) ==
    \/ StageKept(k)
    \/ job[k].stage = "invalidating" /\ job'[k].stage = "inventory"
    \/ Inventory(k) /\ job[k].stage = "inventory" /\ job'[k].stage = "draining"
    \/ Drain(k) /\ job[k].stage = "draining" /\ job'[k].stage = "sanitizing"
    \/ /\ SanitizeDeleted(k) \/ SanitizeErased(k)
       /\ job[k].stage = "sanitizing" /\ job'[k].stage = "rebuilding"
       /\ job'[k].state # "completed"
    \/ /\ Advance(k)
       /\ \/ job[k].stage = "rebuilding" /\ job'[k].stage = "removing_index"
          \/ job[k].stage = "removing_index" /\ job'[k].stage = "verifying"
       /\ job'[k].state # "completed"
    \/ /\ Publish(k) /\ job[k].stage = "verifying" /\ job'[k].stage = "done"
       /\ job'[k].state = "completed"

\* How the stage of a cleanup may change in a step.
LEMMA CleanupStages ==
    ASSUME TypeOK, [Next]_vars, NEW k \in Created, job[k].kind \in Cleanup
    PROVE  StagesInOrder(k)
<1>1. k \in Job /\ job[k] \in JobRow
      BY ConstantsAssumption DEF TypeOK, Created, Job
<1>2. Sequence[job[k].kind] = CleanupSequence
      BY DEF Sequence, Kind, Cleanup
<1>3. ASSUME NEW stage, job' = [job EXCEPT ![k].stage = stage]
      PROVE  job'[k].stage = stage /\ job'[k].state = job[k].state
      BY <1>1, <1>3 DEF TypeOK, JobRow
<1>4. Parse(k) \/ PrivacyReady(k) => FALSE
      BY DEF Parse, PrivacyReady, At, Cleanup
<1>5. CASE Invalidating(k)
      BY <1>3, <1>5 DEF Invalidating, At, StagesInOrder
<1>6. CASE Inventory(k)
  <2>1. job[k].stage = "inventory" /\ job' = [job EXCEPT ![k].stage = "draining"]
        BY <1>6 DEF Inventory, At
  <2> QED BY <1>3, <1>6, <2>1 DEF StagesInOrder
<1>7. CASE Drain(k)
  <2>1. job[k].stage = "draining" /\ job' = [job EXCEPT ![k].stage = "sanitizing"]
        BY <1>7 DEF Drain, At
  <2> QED BY <1>3, <1>7, <2>1 DEF StagesInOrder
<1>8. ASSUME Working(k) PROVE job[k].state # "completed"
      BY <1>8 DEF Working
<1>9. CASE SanitizeDeleted(k)
  <2>1. /\ Working(k) /\ job[k].stage = "sanitizing"
        /\ job' = [job EXCEPT ![k].stage = "rebuilding"]
        BY <1>9 DEF SanitizeDeleted, At, Ready
  <2> QED BY <1>3, <1>8, <1>9, <2>1 DEF StagesInOrder
<1>10. CASE SanitizeErased(k)
  <2>1. Working(k) /\ job[k].stage = "sanitizing"
        BY <1>10 DEF SanitizeErased, At, Ready
  <2>2. job'[k] = [job[k] EXCEPT !.stage = "rebuilding"]
        BY <1>1, <1>10 DEF SanitizeErased, Cleanup
  <2>3. job'[k].stage = "rebuilding" /\ job'[k].state = job[k].state
        BY <1>1, <2>2 DEF JobRow
  <2> QED BY <1>8, <1>10, <2>1, <2>3 DEF StagesInOrder
<1>11. CASE Advance(k)
  <2>1. PICK i \in 1 .. (Len(CleanupSequence) - 2) :
           /\ CleanupSequence[i] = job[k].stage
           /\ job' = [job EXCEPT ![k].stage = CleanupSequence[i + 1]]
        BY <1>2, <1>11 DEF Advance
  <2>2. /\ Working(k)
        /\ job[k].stage \notin {"invalidating", "inventory", "draining", "sanitizing"}
        BY <1>11 DEF Advance, Ready, StepDone, At
  <2>3. \/ job[k].stage = "rebuilding" /\ CleanupSequence[i + 1] = "removing_index"
        \/ job[k].stage = "removing_index" /\ CleanupSequence[i + 1] = "verifying"
        BY <2>1, <2>2 DEF CleanupSequence
  <2> QED BY <1>3, <1>8, <1>11, <2>1, <2>2, <2>3 DEF StagesInOrder
<1>12. CASE Publish(k)
  <2>1. job[k].stage = "verifying"
        BY <1>2, <1>12 DEF Publish, Penultimate, CleanupSequence
  <2>2. CleanupSequence[Len(CleanupSequence)] = "done"
        BY DEF CleanupSequence
  <2>3. job'[k].state = "completed" /\ job'[k].stage = "done"
        BY <1>1, <1>2, <1>12, <2>2, PublishedRow
  <2> QED BY <1>12, <2>1, <2>3 DEF StagesInOrder
<1>13. CASE StageKept(k)
       BY <1>13 DEF StagesInOrder
<1> QED BY <1>4, <1>5, <1>6, <1>7, <1>9, <1>10, <1>11, <1>12, <1>13, StageMovedBy DEF MovesStage

-----------------------------------------------------------------------------
(* The inductive invariant.  Acknowledged removals of completed cleanups   *)
(* stay; a removal is prepared only past draining and a completed cleanup  *)
(* has it acknowledged; from its inventory pass on, a cleanup covers all   *)
(* that older jobs wrote for its documents; it is the newest job there is. *)

Acknowledged(k) == "succeeded" \in {op[k]["remove"], op[k]["remove_again"]}

Forgotten(e) ==
    \E k \in Created : /\ job[k].kind \in Cleanup /\ job[k].state = "completed"
                       /\ e \in work[k].removals /\ Acknowledged(k)

Early(k) == job[k].stage \in {"invalidating", "inventory"}

Covered(k) ==
    \A i \in Created, d \in job[k].docs :
        job[i].life < job[k].life /\ op[i][d] # "none" =>
            entry[i][d] \in work[k].removals \/ Forgotten(entry[i][d])

Unused == \A k \in Job \ Created : \A x \in Slot : op[k][x] = "none"

RemovalLate ==
    \A k \in Created : job[k].kind \in Cleanup =>
        \A x \in {"remove", "remove_again"} :
            op[k][x] # "none" => PastDraining(k) \/ job[k].state = "completed"

PurgedForgotten ==
    \A i \in Job : \A d \in purged[i] : op[i][d] # "none" /\ Forgotten(entry[i][d])

FinishedClean ==
    \A k \in Created : job[k].kind \in Cleanup /\ job[k].state = "completed" =>
        /\ job[k].stage = "done"
        /\ work[k].removals # {} => Acknowledged(k)

InventoryTaken ==
    \A k \in Created : job[k].kind \in Cleanup /\ ~Early(k) => Covered(k)

CleanupNewest ==
    \A k \in Created : OpenCleanup(k) => \A i \in Created \ {k} : job[i].life < job[k].life

CleanupInv ==
    /\ TypeOK /\ LifeBounded /\ BarrierExclusive /\ Drained
    /\ Unused /\ RemovalLate /\ PurgedForgotten /\ FinishedClean /\ InventoryTaken
    /\ CleanupNewest

\* The jobs that exist after a step are jobs.
LEMMA CreatedTyped ==
    ASSUME TypeOK, [Next]_vars
    PROVE  Created' \subseteq Job
<1>1. TypeOK'
      BY TypeStep
<1> QED BY <1>1, ConstantsAssumption DEF TypeOK, Created, Job

\* Whoever prepares an operation runs at the current revision.
LEMMA PreparedByWorker ==
    ASSUME TypeOK, NEW i \in Job, NEW x \in Slot, Prepare(i, x)
    PROVE  Working(i) /\ i \in Created /\ job[i].life = lifecycle_revision
BY WorkingRow DEF Prepare, Ready, Working

\* What the type invariant says of the jobs that exist and of the slots.
LEMMA JobsTyped ==
    ASSUME TypeOK
    PROVE  /\ Created \subseteq Job /\ lifecycle_revision \in Nat
           /\ \A k \in Created : job[k] \in JobRow /\ job[k].life \in Nat /\ job[k].docs \subseteq Doc
           /\ "remove" \in Slot /\ "remove_again" \in Slot /\ Doc \subseteq Slot
<1>1. Created \subseteq Job
      BY ConstantsAssumption DEF TypeOK, Created, Job
<1> QED BY <1>1 DEF TypeOK, JobRow, Slot

\* What an older job wrote for a document stays as it is once a newer job
\* exists: the older one is fenced.
LEMMA OlderKept ==
    ASSUME TypeOK, TypeOK', LifeBounded, LifeBounded', [Next]_vars,
           NEW k \in Created, NEW i \in Created', job'[i].life < job'[k].life,
           NEW x \in Slot
    PROVE  /\ i \in Created /\ job[i].life < job[k].life
           /\ op'[i][x] # "none" => op[i][x] # "none"
           /\ op'[i][x] = "pending" => op[i][x] = "pending"
           /\ x \in Doc /\ op'[i][x] # "none" => entry'[i][x] = entry[i][x]
<1>1. /\ Created \subseteq Created' /\ job'[k].life = job[k].life
      /\ \A n \in Created : job'[n].life = job[n].life
      /\ \A n \in Created' \ Created : job'[n].life = lifecycle_revision'
      BY StepRows DEF RowKept
<1>2. i \in Created
  <2>1. job'[k].life <= lifecycle_revision' /\ lifecycle_revision' \in Nat
        BY <1>1, JobsTyped DEF LifeBounded, TypeOK
  <2>2. job'[k].life \in Nat
        BY <1>1, JobsTyped
  <2> QED BY <1>1, <2>1, <2>2
<1>3. job[i].life < job[k].life
      BY <1>1, <1>2
<1>4. job[i].life # lifecycle_revision
      BY <1>2, <1>3, JobsTyped DEF LifeBounded
<1>5. i \in Job /\ ~Prepare(i, x)
      BY <1>2, <1>4, JobsTyped, PreparedByWorker
<1>6. \/ op[i][x] # "none"
      \/ op'[i][x] = "none"
      BY <1>5, LedgerKept
<1> QED BY <1>2, <1>3, <1>5, <1>6, LedgerKept

\* A forgotten entry stays forgotten.
LEMMA ForgottenKept ==
    ASSUME TypeOK, [Next]_vars, NEW e, Forgotten(e)
    PROVE  Forgotten(e)'
<1>1. PICK k \in Created : /\ job[k].kind \in Cleanup /\ job[k].state = "completed"
                           /\ e \in work[k].removals /\ Acknowledged(k)
      BY DEF Forgotten
<1>2. k \in Created' /\ job'[k] = job[k] /\ k \in Job
      BY <1>1, StepRows, JobsTyped DEF RowKept
<1>3. Acknowledged(k)'
      BY <1>1, <1>2, LedgerKept, JobsTyped DEF Acknowledged
<1>4. e \in work'[k].removals
      BY <1>1, InventoryOnly
<1> QED BY <1>1, <1>2, <1>3, <1>4 DEF Forgotten

\* A job that does not exist yet has no operation.
LEMMA UnusedStep ==
    ASSUME TypeOK, Unused, [Next]_vars
    PROVE  Unused'
<1> SUFFICES ASSUME NEW k \in Job \ Created', NEW x \in Slot PROVE op'[k][x] = "none"
    BY DEF Unused, Job, Slot
<1>1. k \notin Created /\ op[k][x] = "none"
      BY StepRows DEF Unused
<1> QED BY <1>1, LedgerKept, PreparedByWorker

\* A cleanup past draining stays so until it is completed.
LEMMA PastKept ==
    ASSUME TypeOK, [Next]_vars, NEW k \in Created, PastDraining(k)
    PROVE  PastDraining(k)' \/ job'[k].state = "completed"
<1>1. /\ job[k].kind \in Cleanup
      /\ job[k].stage \in {"sanitizing", "rebuilding", "removing_index", "verifying"}
      BY DEF PastDraining, At
<1>2. job'[k].kind = job[k].kind
      BY StepRows DEF RowKept
<1>3. \/ job'[k].stage \in {"sanitizing", "rebuilding", "removing_index", "verifying"}
      \/ job'[k].state = "completed"
      BY <1>1, CleanupStages DEF StagesInOrder, StageKept
<1> QED BY <1>1, <1>2, <1>3 DEF PastDraining, At

\* A cleanup prepares removals only past draining, and never goes back.
LEMMA RemovalLateStep ==
    ASSUME TypeOK, Unused, RemovalLate, [Next]_vars
    PROVE  RemovalLate'
<1> SUFFICES ASSUME NEW k \in Created', job'[k].kind \in Cleanup,
                    NEW x \in {"remove", "remove_again"}, op'[k][x] # "none"
             PROVE  PastDraining(k)' \/ job'[k].state = "completed"
    BY DEF RemovalLate
<1>1. x \in Slot /\ x \notin Doc
      BY ConstantsAssumption DEF Slot
<1>2. k \in Created
  <2>1. CASE k \notin Created
    <3>1. UNCHANGED op
          BY <2>1, NewCleanup
    <3>2. k \in Job
          BY <2>1, TypeStep, JobsTyped, CreatedTyped
    <3> QED BY <1>1, <2>1, <3>1, <3>2 DEF Unused
  <2> QED BY <2>1
<1>3. k \in Job /\ job[k].kind \in Cleanup
      BY <1>2, StepRows, JobsTyped DEF RowKept
<1>4. CASE op[k][x] # "none"
  <2>1. PastDraining(k) \/ job[k].state = "completed"
        BY <1>2, <1>3, <1>4 DEF RemovalLate
  <2>2. job[k].state = "completed" => job'[k].state = "completed"
        BY <1>2, StepRows DEF RowKept
  <2> QED BY <1>2, <2>1, <2>2, PastKept
<1>5. CASE op[k][x] = "none"
  <2>1. Prepare(k, x)
        BY <1>1, <1>3, <1>5, LedgerKept
  <2>2. Removing(k)
        BY <1>1, <2>1 DEF Prepare
  <2>3. PastDraining(k)
        BY <1>3, <2>2 DEF Removing, PastDraining, At, Cleanup
  <2> QED BY <1>2, <2>3, PastKept
<1> QED BY <1>4, <1>5

\* A cleanup completes with the removal of its whole inventory acknowledged,
\* and nothing it wrote down changes afterwards (publish).
LEMMA FinishedStep ==
    ASSUME TypeOK, LifeBounded, FinishedClean, [Next]_vars
    PROVE  FinishedClean'
<1> SUFFICES ASSUME NEW k \in Created', job'[k].kind \in Cleanup, job'[k].state = "completed"
             PROVE  /\ job'[k].stage = "done"
                    /\ work'[k].removals # {} => Acknowledged(k)'
    BY DEF FinishedClean
<1>1. k \in Created
      BY NewCleanup
<1>2. k \in Job /\ job[k].kind \in Cleanup
      BY <1>1, StepRows, JobsTyped DEF RowKept
<1>3. Acknowledged(k) => Acknowledged(k)'
      BY <1>2, LedgerKept, JobsTyped DEF Acknowledged
<1>4. CASE job[k].state = "completed"
  <2>1. job'[k] = job[k]
        BY <1>1, <1>4, StepRows DEF RowKept
  <2>2. ~Inventory(k)
        BY <1>4 DEF Inventory, Ready, Working
  <2>3. work'[k].removals = work[k].removals
        BY <1>1, <1>2, <2>2, InventoryOnly
  <2> QED BY <1>1, <1>2, <1>3, <1>4, <2>1, <2>3 DEF FinishedClean
<1>5. CASE job[k].state # "completed"
  <2>1. Publish(k)
        BY <1>1, <1>5, StepRows DEF StillOpen, Uncompleted
  <2>2. CleanupVerified(k)
        BY <1>2, <2>1 DEF Publish
  <2>3. ~Inventory(k)
    <3>1. job[k].stage = "verifying"
      <4>1. Sequence[job[k].kind] = CleanupSequence
            BY <1>2 DEF Sequence, Kind, Cleanup
      <4> QED BY <2>1, <4>1 DEF Publish, Penultimate, CleanupSequence
    <3> QED BY <3>1 DEF Inventory, At
  <2>4. work'[k].removals = work[k].removals
        BY <1>1, <1>2, <2>3, InventoryOnly
  <2>5. work[k].removals # {} => Acknowledged(k)
        BY <2>2 DEF CleanupVerified, Acknowledged
  <2>6. job'[k].stage = "done"
    <3>1. Sequence[job[k].kind] = CleanupSequence
          BY <1>2 DEF Sequence, Kind, Cleanup
    <3>2. CleanupSequence[Len(CleanupSequence)] = "done"
          BY DEF CleanupSequence
    <3> QED BY <1>2, <2>1, <3>1, <3>2, PublishedRow
  <2> QED BY <1>3, <2>4, <2>5, <2>6
<1> QED BY <1>4, <1>5

\* A slot is emptied only when its entry is forgotten (publish).
LEMMA PurgedStep ==
    ASSUME TypeOK, FinishedClean, PurgedForgotten, [Next]_vars
    PROVE  PurgedForgotten'
<1> SUFFICES ASSUME NEW i \in Job, NEW d \in purged'[i]
             PROVE  op'[i][d] # "none" /\ Forgotten(entry[i][d])'
    BY DEF PurgedForgotten
<1>1. \A c \in Doc : c \in Slot
      BY DEF Slot
<1>2. CASE d \in purged[i]
  <2>1. d \in Doc /\ op[i][d] # "none" /\ Forgotten(entry[i][d])
        BY <1>2 DEF PurgedForgotten, TypeOK
  <2>2. op'[i][d] # "none" /\ entry'[i][d] = entry[i][d]
        BY <1>1, <2>1, LedgerKept
  <2>3. PICK e : e = entry[i][d]
        OBVIOUS
  <2>4. Forgotten(e)'
        BY <2>1, <2>3, ForgottenKept DEF Forgotten
  <2> QED BY <2>2, <2>3, <2>4 DEF Forgotten
<1>3. CASE d \notin purged[i]
  <2>1. PICK j \in Job :
           /\ Publish(j) /\ job[j].kind \in Cleanup
           /\ d \in Doc /\ op[i][d] # "none" /\ entry[i][d] \in work[j].removals
        BY <1>3, PurgedOnly
  <2>2. op'[i][d] # "none" /\ entry'[i][d] = entry[i][d]
        BY <1>1, <2>1, LedgerKept
  <2>3. j \in Created /\ job'[j].state = "completed" /\ j \in Created'
        BY <2>1, PublishRows, WorkingRow DEF Publish, Ready
  <2>4. job'[j].kind \in Cleanup
        BY <2>1, <2>3, StepRows DEF RowKept
  <2>5. entry[i][d] \in work'[j].removals
        BY <2>1, <2>3, InventoryOnly
  <2>6. Acknowledged(j)'
    <3>1. Acknowledged(j)
          BY <2>1 DEF Publish, CleanupVerified, Acknowledged
    <3> QED BY <3>1, LedgerKept, JobsTyped DEF Acknowledged
  <2>7. entry'[i][d] \in work'[j].removals
        BY <2>2, <2>5
  <2> QED BY <2>2, <2>3, <2>4, <2>6, <2>7 DEF Forgotten
<1> QED BY <1>2, <1>3

\* From its inventory pass on, whatever older jobs wrote for the documents of
\* a cleanup is in its inventory or forgotten (prepare_cleanup).
LEMMA InventoryStep ==
    ASSUME TypeOK, LifeBounded, PurgedForgotten, InventoryTaken, [Next]_vars
    PROVE  InventoryTaken'
<1> SUFFICES ASSUME NEW k \in Created', job'[k].kind \in Cleanup, ~Early(k)',
                    NEW i \in Created', NEW d \in job'[k].docs,
                    job'[i].life < job'[k].life, op'[i][d] # "none"
             PROVE  entry'[i][d] \in work'[k].removals \/ Forgotten(entry[i][d])'
    BY DEF InventoryTaken, Covered
<1>1. TypeOK' /\ LifeBounded'
      BY TypeStep, LifeStep
<1>2. k \in Created
      BY NewCleanup DEF Early
<1>3. k \in Job /\ job[k].kind \in Cleanup /\ d \in job[k].docs /\ d \in Doc /\ d \in Slot
      BY <1>2, StepRows, JobsTyped DEF RowKept
<1>4. /\ i \in Created /\ job[i].life < job[k].life
      /\ op[i][d] # "none" /\ entry'[i][d] = entry[i][d]
      BY <1>1, <1>2, <1>3, OlderKept
<1>5. i \in Job
      BY <1>4, JobsTyped
<1>6. Forgotten(entry[i][d]) => Forgotten(entry[i][d])'
  <2>1. PICK e : e = entry[i][d]
        OBVIOUS
  <2>2. Forgotten(e) => Forgotten(e)'
        BY ForgottenKept
  <2> QED BY <1>4, <2>1, <2>2 DEF Forgotten
<1>7. CASE ~Early(k)
  <2>1. entry[i][d] \in work[k].removals \/ Forgotten(entry[i][d])
        BY <1>2, <1>3, <1>4, <1>7 DEF InventoryTaken, Covered
  <2>2. CASE entry[i][d] \in work[k].removals
        BY <1>2, <1>3, <1>4, <2>2, InventoryOnly
  <2> QED BY <1>6, <2>1, <2>2
<1>8. CASE Early(k)
  <2>1. Inventory(k)
        BY <1>2, <1>3, <1>8, CleanupStages DEF StagesInOrder, StageKept, Early
  <2>2. work'[k].removals = work[k].removals \cup Inventoried(k)
        BY <1>3, <2>1 DEF Inventory, TypeOK, WorkRow
  <2>3. CASE d \in Residual(i, k)
    <3>1. entry[i][d] \in Inventoried(k)
          BY <1>4, <2>3 DEF Inventoried
    <3> QED BY <1>4, <2>2, <3>1
  <2>4. CASE d \notin Residual(i, k)
    <3>1. d \in purged[i]
          BY <1>3, <1>4, <2>4 DEF Residual
    <3> QED BY <1>5, <1>6, <3>1 DEF PurgedForgotten
  <2> QED BY <2>3, <2>4
<1> QED BY <1>7, <1>8

\* Under the barrier only the open cleanup publishes, and nothing else creates
\* a job.
LEMMA NothingCreated ==
    ASSUME TypeOK, BarrierExclusive, write_barrier, [Next]_vars
    PROVE  \/ Created' = Created /\ UNCHANGED write_barrier
           \/ \E j \in Created : Publish(j) /\ OpenCleanup(j)
<1>1. CASE Admin
  <2>1. UNCHANGED <<lifecycle_revision, write_barrier, njobs>>
        BY <1>1, CreatedRows DEF Creates
  <2> QED BY <2>1 DEF Created
<1>2. CASE Claim
      BY <1>2, ClaimRows DEF project
<1>3. ASSUME NEW j \in Job, Worker(j)
      PROVE  \/ Created' = Created /\ UNCHANGED write_barrier
             \/ Publish(j) /\ j \in Created /\ OpenCleanup(j)
  <2>1. CASE Publish(j)
    <3>1. j \in Created /\ Uncompleted(j) /\ job[j].life = lifecycle_revision
          BY <2>1, WorkingRow DEF Publish, Ready, Working, Uncompleted
    <3>2. lifecycle_revision \in Nat
          BY DEF TypeOK
    <3>3. OpenCleanup(j)
          BY <3>1, <3>2 DEF BarrierExclusive
    <3> QED BY <2>1, <3>1, <3>3
  <2>2. CASE ~Publish(j)
        BY <1>3, <2>2, WorkerRows DEF Created
  <2> QED BY <2>1, <2>2
<1>4. CASE (\E j \in Job : Expire(j)) \/ Network \/ UNCHANGED vars
      BY <1>4 DEF Expire, Network, Report, vars, project, Created
<1> QED BY <1>1, <1>2, <1>3, <1>4 DEF Next

\* An open cleanup was open before, or it is new.
LEMMA OpenKept ==
    ASSUME TypeOK, [Next]_vars, NEW k \in Created, OpenCleanup(k)'
    PROVE  OpenCleanup(k)
<1>1. RowKept(k)
      BY StepRows
<1> QED BY <1>1 DEF OpenCleanup, RowKept, Uncompleted

\* An open cleanup is newer than every other job, until it lets the barrier
\* down.
LEMMA NewestStep ==
    ASSUME TypeOK, LifeBounded, BarrierExclusive, CleanupNewest, [Next]_vars
    PROVE  CleanupNewest'
<1> SUFFICES ASSUME NEW k \in Created', OpenCleanup(k)', NEW i \in Created' \ {k}
             PROVE  job'[i].life < job'[k].life
    BY DEF CleanupNewest
<1>1. CASE k \in Created
  <2>1. OpenCleanup(k) /\ write_barrier
        BY <1>1, OpenKept DEF BarrierExclusive
  <2>2. Created' = Created
    <3>1. ASSUME NEW j \in Created, Publish(j), OpenCleanup(j) PROVE FALSE
      <4>1. j = k
            BY <1>1, <2>1, <3>1 DEF BarrierExclusive
      <4>2. job'[k].state = "completed"
            BY <3>1, <4>1, PublishRows, JobsTyped
      <4> QED BY <4>2 DEF OpenCleanup, Uncompleted
    <3> QED BY <2>1, <3>1, NothingCreated
  <2>3. job[i].life < job[k].life
        BY <1>1, <2>1, <2>2 DEF CleanupNewest
  <2> QED BY <1>1, <2>2, <2>3, StepRows DEF RowKept
<1>2. CASE k \notin Created
  <2>1. i \in Created /\ lifecycle_revision' = lifecycle_revision + 1
        BY <1>2, NewCleanup DEF OpenCleanup
  <2>2. job'[k].life = lifecycle_revision' /\ job'[i].life = job[i].life
        BY <1>2, <2>1, StepRows DEF RowKept
  <2>3. job[i].life <= lifecycle_revision
        BY <2>1 DEF LifeBounded
  <2> QED BY <2>1, <2>2, <2>3, JobsTyped
<1> QED BY <1>1, <1>2

\* The invariant holds when nothing was submitted yet.
LEMMA CleanupInit == Init => CleanupInv
<1> SUFFICES ASSUME Init PROVE CleanupInv
    OBVIOUS
<1>1. TypeOK
      BY InitType
<1>2. Created = {}
      BY DEF Init, Created
<1>3. LifeBounded /\ BarrierExclusive /\ Drained
      BY <1>2 DEF Init, LifeBounded, BarrierExclusive, Drained
<1>4. Unused /\ PurgedForgotten
      BY DEF Init, Unused, PurgedForgotten
<1>5. RemovalLate /\ FinishedClean /\ InventoryTaken /\ CleanupNewest
      BY <1>2 DEF RemovalLate, FinishedClean, InventoryTaken, CleanupNewest
<1> QED BY <1>1, <1>3, <1>4, <1>5 DEF CleanupInv

\* The invariant is inductive: one step per conjunct.
LEMMA CleanupStep == CleanupInv /\ [Next]_vars => CleanupInv'
<1> SUFFICES ASSUME CleanupInv, [Next]_vars PROVE CleanupInv'
    OBVIOUS
<1> USE DEF CleanupInv
<1>1. TypeOK' /\ LifeBounded' /\ BarrierExclusive' /\ Drained'
      BY BarrierStep, DrainedStep DEF BarrierInv, DrainedInv
<1>2. Unused' /\ RemovalLate' /\ PurgedForgotten' /\ FinishedClean'
      BY UnusedStep, RemovalLateStep, PurgedStep, FinishedStep
<1>3. InventoryTaken' /\ CleanupNewest'
      BY InventoryStep, NewestStep
<1> QED BY <1>1, <1>2, <1>3

\* When a deletion or an erasure has completed, every entry an earlier job ever
\* prepared for its documents, whatever its outcome, is in the inventory of a
\* completed cleanup whose removal the index acknowledged (prepare_cleanup
\* inventory, publish).
THEOREM InventoryAlwaysComplete == Spec => []InventoryComplete
<1>1. CleanupInv => InventoryComplete
  <2> SUFFICES ASSUME CleanupInv,
                      NEW j \in Created, job[j].kind \in Cleanup, job[j].state = "completed",
                      NEW i \in Created, NEW d \in job[j].docs,
                      job[i].life < job[j].life, op[i][d] # "none"
               PROVE  \E k \in Created :
                         /\ job[k].kind \in Cleanup /\ job[k].state = "completed"
                         /\ entry[i][d] \in work[k].removals
                         /\ "succeeded" \in {op[k]["remove"], op[k]["remove_again"]}
      BY DEF InventoryComplete
  <2>1. /\ job[j].stage = "done"
        /\ work[j].removals # {} => Acknowledged(j)
        BY DEF CleanupInv, FinishedClean
  <2>2. entry[i][d] \in work[j].removals \/ Forgotten(entry[i][d])
        BY <2>1 DEF CleanupInv, InventoryTaken, Covered, Early
  <2> QED BY <2>1, <2>2 DEF Forgotten, Acknowledged
<1> QED BY <1>1, CleanupInit, CleanupStep, PTL DEF Spec

-----------------------------------------------------------------------------
(* Every step of Jobs is a step of Barrier.  Which one follows from where  *)
(* the barrier and the open cleanup are before and after it.               *)

\* With the barrier down no job is set apart; with the barrier up all jobs but
\* the open cleanup are older than it.
OpenMapping ==
    BarrierExclusive /\ ~write_barrier =>
        Others = Created /\ BarrierPhase = "open" /\ BarrierTargets = {}

ClosedMapping ==
    BarrierExclusive /\ CleanupNewest /\ write_barrier =>
        \E b \in Created :
           /\ OpenCleanup(b) /\ Others = Created \ {b}
           /\ \A i \in Others : job[i].life < job[b].life
           /\ BarrierPhase = IF PastDraining(b) THEN "drained" ELSE "closed"
           /\ BarrierTargets = job[b].docs

\* With the barrier down every job counts among the others.
LEMMA OpenOthers == OpenMapping
BY DEF OpenMapping, BarrierExclusive, Others, BarrierPhase, BarrierTargets

\* With the barrier up all but the one open cleanup do.
LEMMA ClosedOthers == ClosedMapping
<1> SUFFICES ASSUME BarrierExclusive, CleanupNewest, write_barrier
             PROVE  \E b \in Created :
                       /\ OpenCleanup(b) /\ Others = Created \ {b}
                       /\ \A i \in Others : job[i].life < job[b].life
                       /\ BarrierPhase = IF PastDraining(b) THEN "drained" ELSE "closed"
                       /\ BarrierTargets = job[b].docs
    BY DEF ClosedMapping
<1>1. PICK b \in Created :
         /\ OpenCleanup(b)
         /\ \A i \in Created \ {b} : ~OpenCleanup(i)
      BY DEF BarrierExclusive
<1>2. Others = Created \ {b}
      BY <1>1 DEF Others
<1>3. \A i \in Others : job[i].life < job[b].life
      BY <1>1, <1>2 DEF CleanupNewest
<1>4. BarrierPhase = IF PastDraining(b) THEN "drained" ELSE "closed"
      BY <1>1 DEF BarrierPhase
<1>5. {i \in Created : OpenCleanup(i)} = {b}
      BY <1>1
<1> QED BY <1>1, <1>2, <1>3, <1>4, <1>5 DEF BarrierTargets

\* The values of the mapping have the types Barrier's actions ask for.
MappedTypes ==
    TypeOK => /\ CallsIn({"pending"}) \subseteq Job \X Slot
              /\ CallsIn(Unresolved) \subseteq Job \X Slot
              /\ BarrierWritten \in [Doc -> SUBSET Entry]

\* The mapped variables have the types the promise gives them.
LEMMA MappedType == MappedTypes
<1> SUFFICES ASSUME TypeOK
             PROVE  /\ CallsIn({"pending"}) \subseteq Job \X Slot
                    /\ CallsIn(Unresolved) \subseteq Job \X Slot
                    /\ BarrierWritten \in [Doc -> SUBSET Entry]
    BY DEF MappedTypes
<1>1. \A states : CallsIn(states) \subseteq Job \X Slot
      BY JobsTyped DEF CallsIn, Others
<1>2. \A d \in Doc : WrittenFor(d) \in SUBSET Entry
  <2> TAKE d \in Doc
  <2>1. \A i \in Others : op[i][d] # "none" => entry[i][d] \in Entry
        BY JobsTyped DEF TypeOK, Others
  <2> QED BY <2>1 DEF WrittenFor
<1> QED BY <1>1, <1>2 DEF BarrierWritten

\* The same after a step.
LEMMA MappedNext == OpenMapping' /\ ClosedMapping' /\ MappedTypes'
BY OpenOthers, ClosedOthers, MappedType, PTL

\* What was written or acknowledged as removed stays so.
LEMMA WrittenKept ==
    ASSUME TypeOK, [Next]_vars, Others \subseteq Others', NEW d \in Doc
    PROVE  WrittenFor(d) \subseteq WrittenFor(d)'
<1> SUFFICES ASSUME NEW i \in Others, op[i][d] # "none"
             PROVE  entry[i][d] \in WrittenFor(d)'
    BY DEF WrittenFor
<1>1. i \in Job /\ d \in Slot
      BY JobsTyped DEF Others
<1>2. op'[i][d] # "none" /\ entry'[i][d] = entry[i][d]
      BY <1>1, LedgerKept
<1> QED BY <1>2 DEF WrittenFor

\* An entry whose removal one cleanup saw acknowledged stays acknowledged.
LEMMA RemovedKept ==
    ASSUME TypeOK, FinishedClean, [Next]_vars, NEW k \in Created, job[k].kind \in Cleanup
    PROVE  /\ RemovedBy(k) \subseteq RemovedBy(k)'
           /\ job[k].state = "completed" => RemovedBy(k)' = RemovedBy(k)
<1>1. k \in Job /\ "remove" \in Slot /\ "remove_again" \in Slot
      BY JobsTyped
<1>2. Acknowledged(k) => Acknowledged(k)'
      BY <1>1, LedgerKept DEF Acknowledged
<1>3. work[k].removals \subseteq work'[k].removals
      BY InventoryOnly
<1>4. ASSUME job[k].state = "completed" PROVE RemovedBy(k)' = RemovedBy(k)
  <2>1. work'[k].removals = work[k].removals
        BY <1>4, InventoryOnly DEF Inventory, Ready, Working
  <2>2. work[k].removals # {} => Acknowledged(k)
        BY <1>4 DEF FinishedClean
  <2> QED BY <1>2, <2>1, <2>2 DEF RemovedBy, Acknowledged
<1> QED BY <1>2, <1>3, <1>4 DEF RemovedBy, Acknowledged

\* What is removed only grows.
LEMMA RemovedGrows ==
    ASSUME TypeOK, FinishedClean, [Next]_vars
    PROVE  BarrierRemoved \subseteq BarrierRemoved'
<1> SUFFICES ASSUME NEW k \in Created, job[k].kind \in Cleanup, NEW e \in RemovedBy(k)
             PROVE  e \in BarrierRemoved'
    BY DEF BarrierRemoved
<1>1. k \in Created' /\ job'[k].kind \in Cleanup
      BY StepRows DEF RowKept
<1>2. e \in RemovedBy(k)'
      BY RemovedKept
<1> QED BY <1>1, <1>2 DEF BarrierRemoved

\* Where no cleanup's acknowledged removals change, the mapped set does not.
LEMMA RemovedSame ==
    ASSUME TypeOK, FinishedClean, [Next]_vars,
           \A k \in Created : job[k].kind \in Cleanup => RemovedBy(k)' \subseteq RemovedBy(k),
           \A k \in Created' \ Created : job'[k].kind \in Cleanup => RemovedBy(k)' = {}
    PROVE  BarrierRemoved' = BarrierRemoved
<1> SUFFICES ASSUME NEW k \in Created', job'[k].kind \in Cleanup, NEW e, e \in RemovedBy(k)'
             PROVE  e \in BarrierRemoved
    BY RemovedGrows DEF BarrierRemoved
<1>1. k \in Created
      OBVIOUS
<1>2. job[k].kind \in Cleanup
      BY <1>1, StepRows DEF RowKept
<1> QED BY <1>1, <1>2 DEF BarrierRemoved

\* Initial states map to initial states.
LEMMA PromiseInit == Init => Promise!Init
<1> SUFFICES ASSUME Init PROVE Promise!Init
    OBVIOUS
<1>1. Created = {} /\ ~write_barrier
      BY DEF Init, Created
<1>2. Others = {}
      BY <1>1 DEF Others
<1>3. BarrierPhase = "open" /\ BarrierTargets = {} /\ BarrierRemoved = {}
      BY <1>1 DEF BarrierPhase, BarrierTargets, BarrierRemoved
<1>4. \A states : CallsIn(states) = {}
      BY <1>2 DEF CallsIn
<1>5. BarrierWritten = [d \in Doc |-> {}]
      BY <1>2 DEF BarrierWritten, WrittenFor
<1> QED BY <1>3, <1>4, <1>5 DEF Promise!Init

\* With the barrier down before and after, jobs work as they like.
LEMMA StepWork ==
    ASSUME CleanupInv, CleanupInv', [Next]_vars, ~write_barrier, ~write_barrier'
    PROVE  Promise!Work
<1> USE DEF CleanupInv
<1>1. Others = Created /\ BarrierPhase = "open" /\ BarrierTargets = {}
      BY OpenOthers DEF OpenMapping
<1>2. Others' = Created' /\ BarrierPhase' = "open" /\ BarrierTargets' = {}
      BY MappedNext DEF OpenMapping
<1>3. BarrierWritten' \in [Doc -> SUBSET Entry]
      /\ CallsIn({"pending"})' \subseteq Job \X Slot /\ CallsIn(Unresolved)' \subseteq Job \X Slot
      BY MappedNext DEF MappedTypes
<1>4. \A d \in Doc : BarrierWritten[d] \subseteq BarrierWritten'[d]
  <2>1. \A d \in Doc : WrittenFor(d) \subseteq WrittenFor(d)'
        BY <1>1, <1>2, StepRows, WrittenKept
  <2> QED BY <2>1 DEF BarrierWritten
<1>5. BarrierRemoved' = BarrierRemoved
  <2>1. \A k \in Created : job[k].kind \in Cleanup => RemovedBy(k)' \subseteq RemovedBy(k)
        BY RemovedKept DEF BarrierExclusive, OpenCleanup, Uncompleted
  <2>2. \A k \in Created' \ Created : job'[k].kind \in Cleanup => FALSE
        BY NewCleanup DEF BarrierExclusive, OpenCleanup, Uncompleted
  <2> QED BY <2>1, <2>2, RemovedSame
<1> QED BY <1>1, <1>2, <1>3, <1>4, <1>5 DEF Promise!Work, Promise!Grown

\* The barrier goes up in the command that creates a cleanup.
LEMMA StepRaise ==
    ASSUME CleanupInv, CleanupInv', [Next]_vars, ~write_barrier, write_barrier'
    PROVE  Promise!Raise
<1> USE DEF CleanupInv
<1>1. Others = Created /\ BarrierPhase = "open"
      BY OpenOthers DEF OpenMapping
<1>2. PICK b \in Created' :
         /\ OpenCleanup(b)' /\ Others' = Created' \ {b}
         /\ BarrierPhase' = IF PastDraining(b)' THEN "drained" ELSE "closed"
         /\ BarrierTargets' = job'[b].docs
      BY MappedNext DEF ClosedMapping
<1>3. b \notin Created
      BY <1>2, OpenKept DEF BarrierExclusive
<1>4. /\ UNCHANGED <<op, entry>> /\ job'[b].stage = "invalidating"
      /\ Created' = Created \cup {b}
      /\ \A i \in Created : work'[i].removals = work[i].removals
      BY <1>2, <1>3, NewCleanup DEF OpenCleanup
<1>5. Others' = Others
      BY <1>1, <1>2, <1>3, <1>4
<1>6. /\ CallsIn({"pending"})' = CallsIn({"pending"}) /\ CallsIn(Unresolved)' = CallsIn(Unresolved)
      /\ BarrierWritten' = BarrierWritten
      BY <1>4, <1>5 DEF CallsIn, BarrierWritten, WrittenFor
<1>7. BarrierPhase' = "closed" /\ BarrierTargets' \subseteq Doc
  <2>1. job'[b].docs \subseteq Doc
        BY <1>2, CreatedTyped, TypeStep DEF TypeOK, JobRow
  <2> QED BY <1>2, <1>4, <2>1 DEF PastDraining, At
<1>8. BarrierRemoved' = BarrierRemoved
  <2>1. \A k \in Created : RemovedBy(k)' = RemovedBy(k)
        BY <1>4 DEF RemovedBy
  <2>2. RemovedBy(b)' = {}
    <3>1. b \in Job /\ "remove" \in Slot /\ "remove_again" \in Slot
          BY <1>2, CreatedTyped, JobsTyped
    <3>2. op'[b]["remove"] = "none" /\ op'[b]["remove_again"] = "none"
          BY <1>3, <1>4, <3>1 DEF Unused
    <3> QED BY <3>2 DEF RemovedBy
  <2> QED BY <1>4, <2>1, <2>2, RemovedSame
<1> QED BY <1>1, <1>6, <1>7, <1>8 DEF Promise!Raise

\* Under the barrier the same cleanup stays open, and what the others have
\* announced to write stays the same.
LEMMA UnderBarrier ==
    ASSUME CleanupInv, CleanupInv', [Next]_vars, write_barrier, write_barrier'
    PROVE  \E b \in Created :
              /\ OpenCleanup(b) /\ OpenCleanup(b)'
              /\ Others' = Others /\ Others = Created \ {b} /\ Created' = Created
              /\ \A i \in Others : job[i].life < job[b].life /\ job'[i].life < job'[b].life
              /\ BarrierPhase = IF PastDraining(b) THEN "drained" ELSE "closed"
              /\ BarrierPhase' = IF PastDraining(b)' THEN "drained" ELSE "closed"
              /\ UNCHANGED <<BarrierTargets, BarrierWritten>>
<1> USE DEF CleanupInv
<1>1. PICK b \in Created :
         /\ OpenCleanup(b) /\ Others = Created \ {b}
         /\ \A i \in Others : job[i].life < job[b].life
         /\ BarrierPhase = IF PastDraining(b) THEN "drained" ELSE "closed"
         /\ BarrierTargets = job[b].docs
      BY ClosedOthers DEF ClosedMapping
<1>2. PICK c \in Created' :
         /\ OpenCleanup(c)' /\ Others' = Created' \ {c}
         /\ \A i \in Others' : job'[i].life < job'[c].life
         /\ BarrierPhase' = IF PastDraining(c)' THEN "drained" ELSE "closed"
         /\ BarrierTargets' = job'[c].docs
      BY MappedNext DEF ClosedMapping
<1>3. Created' = Created
  <2>1. ASSUME NEW j \in Created, Publish(j), OpenCleanup(j) PROVE FALSE
        BY <2>1 DEF Publish, OpenCleanup
  <2> QED BY <2>1, NothingCreated
<1>4. c = b
      BY <1>1, <1>2, <1>3, OpenKept DEF Others
<1>5. BarrierTargets' = BarrierTargets /\ Others' = Others
      BY <1>1, <1>2, <1>3, <1>4, StepRows DEF RowKept
<1>6. ASSUME NEW d \in Doc PROVE WrittenFor(d)' = WrittenFor(d)
  <2>1. \A i \in Others : (op'[i][d] # "none" => op[i][d] # "none" /\ entry'[i][d] = entry[i][d])
        BY <1>1, <1>2, <1>3, <1>4, OlderKept, JobsTyped
  <2>2. WrittenFor(d)' \subseteq WrittenFor(d)
        BY <1>5, <2>1 DEF WrittenFor
  <2> QED BY <1>5, <2>2, WrittenKept
<1>7. BarrierWritten' = BarrierWritten
      BY <1>6 DEF BarrierWritten
<1> QED BY <1>1, <1>2, <1>3, <1>4, <1>5, <1>7

\* Until the cleanup has drained no removal of its own is acknowledged.
LEMMA NothingRemoved ==
    ASSUME CleanupInv, [Next]_vars, Created' = Created, NEW b \in Created, OpenCleanup(b),
           \A i \in Created \ {b} : ~OpenCleanup(i), ~PastDraining(b)
    PROVE  BarrierRemoved' = BarrierRemoved
<1> USE DEF CleanupInv
<1>1. b \in Job /\ "remove" \in Slot /\ "remove_again" \in Slot
      BY JobsTyped
<1>2. RemovedBy(b)' = {}
  <2>1. ASSUME NEW x \in {"remove", "remove_again"} PROVE op'[b][x] = "none"
    <3>1. op[b][x] = "none"
          BY DEF RemovalLate, OpenCleanup, Uncompleted
    <3>2. ~Prepare(b, x)
      <4>1. x \notin Doc
            BY ConstantsAssumption
      <4>2. Prepare(b, x) => Removing(b)
            BY <4>1 DEF Prepare
      <4>3. ~Removing(b)
            BY DEF Removing, PastDraining, At, OpenCleanup, Cleanup
      <4> QED BY <4>2, <4>3
    <3> QED BY <1>1, <3>1, <3>2, LedgerKept
  <2> QED BY <2>1 DEF RemovedBy
<1>3. \A k \in Created \ {b} : job[k].kind \in Cleanup => RemovedBy(k)' = RemovedBy(k)
      BY RemovedKept DEF OpenCleanup, Uncompleted
<1>4. \A k \in Created : job[k].kind \in Cleanup => RemovedBy(k)' \subseteq RemovedBy(k)
      BY <1>2, <1>3
<1> QED BY <1>4, RemovedSame

\* Under the barrier every step settles calls, drains, or removes.
LEMMA StepUnderBarrier ==
    ASSUME CleanupInv, CleanupInv', [Next]_vars, write_barrier, write_barrier'
    PROVE  Promise!Settle \/ Promise!Drain \/ Promise!Remove
<1> USE DEF CleanupInv
<1>1. PICK b \in Created :
         /\ OpenCleanup(b) /\ OpenCleanup(b)'
         /\ Others' = Others /\ Others = Created \ {b} /\ Created' = Created
         /\ \A i \in Others : job[i].life < job[b].life /\ job'[i].life < job'[b].life
         /\ BarrierPhase = IF PastDraining(b) THEN "drained" ELSE "closed"
         /\ BarrierPhase' = IF PastDraining(b)' THEN "drained" ELSE "closed"
         /\ UNCHANGED <<BarrierTargets, BarrierWritten>>
      BY UnderBarrier
<1>2. ASSUME NEW i \in Others, NEW x \in Slot
      PROVE  /\ op'[i][x] = "pending" => op[i][x] = "pending"
             /\ op'[i][x] \in Unresolved => op[i][x] \in Outstanding
  <2>1. i \in Job /\ i \in Created /\ i \in Created'
        BY <1>1, JobsTyped
  <2>2. op'[i][x] = "pending" => op[i][x] = "pending"
        BY <1>1, <2>1, OlderKept
  <2>3. ~Working(i)
        BY <1>1, <2>1, JobsTyped DEF Working, LifeBounded
  <2> QED BY <2>1, <2>2, <2>3, OutstandingSource DEF Outstanding
<1>3. CASE PastDraining(b)
  <2>1. PastDraining(b)'
        BY <1>1, <1>3, PastKept DEF OpenCleanup, Uncompleted
  <2>2. \A i \in Others, x \in Slot : op[i][x] \notin Outstanding
        BY <1>1, <1>3 DEF Drained, PastDraining
  <2>3. \A i \in Others, x \in Slot : op'[i][x] \notin Outstanding
        BY <1>1, <2>1 DEF Drained, PastDraining
  <2>4. CallsIn({"pending"}) = {} /\ CallsIn(Unresolved) = {}
        BY <2>2 DEF CallsIn, Outstanding
  <2>5. CallsIn({"pending"})' = {} /\ CallsIn(Unresolved)' = {}
        BY <1>1, <2>3 DEF CallsIn, Outstanding, Unresolved
  <2> QED BY <1>1, <1>3, <2>1, <2>4, <2>5, RemovedGrows DEF Promise!Remove
<1>4. CASE ~PastDraining(b)
  <2>1. BarrierRemoved' = BarrierRemoved
        BY <1>1, <1>4, NothingRemoved DEF Others
  <2>2. CASE PastDraining(b)'
    <3>1. Drain(b)
          BY <1>1, <1>4, <2>2, StepDrained
    <3>2. \A i \in Others, x \in Slot : op[i][x] \notin Unresolved
          BY <1>1, <3>1 DEF Drain
    <3>3. \A i \in Others, x \in Slot : op'[i][x] = Cancelled(op[i][x])
          BY <1>1, <3>1, JobsTyped DEF Drain
    <3>4. \A i \in Others, x \in Slot : op'[i][x] \notin Outstanding
          BY <3>2, <3>3 DEF Cancelled, Outstanding, Unresolved
    <3>5. CallsIn(Unresolved) = {}
          BY <3>2 DEF CallsIn
    <3>6. CallsIn({"pending"})' = {} /\ CallsIn(Unresolved)' = {}
          BY <1>1, <3>4 DEF CallsIn, Outstanding, Unresolved
    <3> QED BY <1>1, <1>4, <2>1, <2>2, <3>5, <3>6 DEF Promise!Drain
  <2>3. CASE ~PastDraining(b)'
    <3>1. CallsIn({"pending"})' \subseteq CallsIn({"pending"})
          BY <1>1, <1>2 DEF CallsIn
    <3>2. CallsIn(Unresolved)' \subseteq CallsIn(Unresolved) \cup CallsIn({"pending"})
          BY <1>1, <1>2 DEF CallsIn, Outstanding, Unresolved
    <3> QED BY <1>1, <1>4, <2>1, <2>3, <3>1, <3>2 DEF Promise!Settle
  <2> QED BY <2>2, <2>3
<1> QED BY <1>3, <1>4

\* The barrier comes down in the publication of the open cleanup.
LEMMA StepLower ==
    ASSUME CleanupInv, CleanupInv', [Next]_vars, write_barrier, ~write_barrier'
    PROVE  Promise!Lower
<1> USE DEF CleanupInv
<1>1. PICK b \in Created :
         /\ OpenCleanup(b) /\ Others = Created \ {b}
         /\ \A i \in Others : job[i].life < job[b].life
         /\ BarrierPhase = IF PastDraining(b) THEN "drained" ELSE "closed"
         /\ BarrierTargets = job[b].docs
      BY ClosedOthers DEF ClosedMapping
<1>2. Others' = Created' /\ BarrierPhase' = "open" /\ BarrierTargets' = {}
      BY MappedNext DEF OpenMapping
<1>3. Publish(b) /\ b \in Job
      BY <1>1, NothingCreated, JobsTyped DEF Others
<1>4. job[b].stage = "verifying" /\ PastDraining(b) /\ CleanupVerified(b) /\ UNCHANGED <<op, entry>>
  <2>1. Sequence[job[b].kind] = CleanupSequence
        BY <1>1 DEF OpenCleanup, Sequence, Kind, Cleanup
  <2>2. job[b].stage = "verifying"
        BY <1>3, <2>1 DEF Publish, Penultimate, CleanupSequence
  <2> QED BY <1>1, <1>3, <2>2 DEF Publish, OpenCleanup, PastDraining, At
<1>5. \A d \in job[b].docs : BarrierWritten[d] \subseteq BarrierRemoved
  <2> SUFFICES ASSUME NEW d \in job[b].docs PROVE WrittenFor(d) \subseteq BarrierRemoved
      BY JobsTyped DEF BarrierWritten
  <2> SUFFICES ASSUME NEW i \in Others, op[i][d] # "none"
               PROVE  entry[i][d] \in BarrierRemoved
      BY DEF WrittenFor
  <2>1. entry[i][d] \in work[b].removals \/ Forgotten(entry[i][d])
        BY <1>1, <1>4 DEF InventoryTaken, Covered, Early, OpenCleanup
  <2>2. work[b].removals # {} => Acknowledged(b)
        BY <1>4 DEF CleanupVerified, Acknowledged
  <2> QED BY <1>1, <2>1, <2>2
          DEF BarrierRemoved, RemovedBy, Forgotten, Acknowledged, OpenCleanup
<1>6. /\ BarrierWritten' \in [Doc -> SUBSET Entry]
      /\ \A d \in Doc : BarrierWritten[d] \subseteq BarrierWritten'[d]
  <2>1. \A d \in Doc : WrittenFor(d) \subseteq WrittenFor(d)'
        BY <1>1, <1>2, StepRows, WrittenKept
  <2> QED BY <2>1, MappedNext DEF BarrierWritten, MappedTypes
<1>7. \A i \in Created', x \in Slot : op'[i][x] \notin Outstanding
  <2> TAKE i \in Created', x \in Slot
  <2>1. CASE i \in Created
    <3>1. job[i].life <= job[b].life
          BY <1>1, <2>1, JobsTyped
    <3> QED BY <1>4, <2>1, <3>1 DEF CleanupVerified
  <2>2. CASE i \notin Created
        BY <1>4, <2>2, CreatedTyped DEF Unused, Outstanding, Unresolved
  <2> QED BY <2>1, <2>2
<1>8. CallsIn({"pending"})' = {} /\ CallsIn(Unresolved)' = {}
      BY <1>2, <1>7 DEF CallsIn, Outstanding, Unresolved
<1>9. CallsIn({"pending"}) = {} /\ CallsIn(Unresolved) = {}
  <2>1. \A i \in Others, x \in Slot : op[i][x] \notin Outstanding
        BY <1>1, <1>4 DEF Drained, PastDraining
  <2> QED BY <2>1 DEF CallsIn, Outstanding
<1>10. BarrierRemoved' = BarrierRemoved
  <2>1. ASSUME NEW k \in Created, job[k].kind \in Cleanup PROVE RemovedBy(k)' \subseteq RemovedBy(k)
    <3>1. CASE k = b
      <4>1. work'[b].removals = work[b].removals
            BY <1>4, <2>1, <3>1, InventoryOnly DEF Inventory, At
      <4> QED BY <1>4, <3>1, <4>1 DEF RemovedBy
    <3>2. CASE k # b
          BY <1>1, <2>1, <3>2, RemovedKept DEF Others, OpenCleanup, Uncompleted
    <3> QED BY <3>1, <3>2
  <2>2. \A k \in Created' \ Created : job'[k].kind \in Cleanup => FALSE
        BY NewCleanup
  <2> QED BY <2>1, <2>2, RemovedSame
<1> QED BY <1>1, <1>2, <1>4, <1>5, <1>6, <1>8, <1>9, <1>10 DEF Promise!Lower, Promise!Grown

\* Jobs implements Barrier: under the write barrier nobody but the cleanup
\* dispatches a call, the cleanup removes nothing before the rest has settled,
\* and the barrier comes down only when all that was ever written for its
\* documents is removed (the fence of _check, prepare_cleanup, publish).
THEOREM BarrierKeepsPromise == Spec => KeepsBarrier
<1>1. CleanupInv /\ CleanupInv' /\ [Next]_vars => Promise!Next
      BY StepWork, StepRaise, StepUnderBarrier, StepLower DEF Promise!Next
<1>2. CleanupInv /\ CleanupInv' /\ [Next]_vars => [Promise!Next]_Promise!barrierVars
      BY <1>1
<1>3. Spec => []CleanupInv
      BY CleanupInit, CleanupStep, PTL DEF Spec
<1> QED BY <1>2, <1>3, PromiseInit, PTL DEF Spec, KeepsBarrier, Promise!Spec

=============================================================================
