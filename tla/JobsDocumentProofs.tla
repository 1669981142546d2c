------------------------- MODULE JobsDocumentProofs -------------------------
(***************************************************************************)
(* What the jobs of the coordinator do to a document, for every value of   *)
(* the constants of Jobs: who writes it, what it is forgotten of, and what *)
(* is left of it in the index when the job that replaces another has ended *)
(* or the barrier comes down.                                              *)
(***************************************************************************)
EXTENDS JobsProofs

-----------------------------------------------------------------------------
(* Documents and their records. *)

\* A document that is not there has no upload and no record, and a record that is not there
\* says nothing.
Absent ==
    \A d \in Doc :
        /\ doc[d].state \in {"unused", "gone"} => ~doc[d].raw /\ rec[d].version = 0
        /\ rec[d].version = 0 => rec[d].names = {} /\ rec[d].entry = None /\ ~rec[d].published

\* Only uploads have jobs.
Used == \A i \in Created : \A d \in job[i].docs : doc[d].state # "unused"

\* A deleted document stays away.
DeletedGone ==
    \A j \in Created :
        At(j, {"delete_document"}, {"rebuilding", "removing_index", "verifying", "done"}) =>
            \A d \in job[j].docs : doc[d].state = "gone"

-----------------------------------------------------------------------------
(* Ingestions and what replaces them. *)

Replaces(k, i) ==
    /\ k \in Created /\ i < k
    /\ job[i].life < lifecycle_revision
    /\ job[k].kind = job[i].kind /\ job[k].kind \in {"ingest", "activate", "deactivate"}
    /\ job[k].docs = job[i].docs

Successors ==
    \A i \in Created : work[i].successor # None => Replaces(work[i].successor, i)

Last(j) == job[j].kind = "ingest" /\ work[j].successor = None

OneIngestion ==
    \A i, j \in Created : Last(i) /\ Last(j) => i = j \/ job[i].docs \cap job[j].docs = {}

Unparsed ==
    \A j \in Created : Last(j) /\ job[j].stage = "received" =>
        \A d \in job[j].docs : rec[d].version = 0

-----------------------------------------------------------------------------
(* Work plans, entries and their versions. *)

Planning(j) ==
    \/ At(j, {"ingest"}, {"received"})
    \/ At(j, {"erase_person"}, {"invalidating", "inventory", "draining", "sanitizing"})

\* An entry is of the version its job plans to write.
OfPlan ==
    \A j \in Job, d \in Doc : entry[j][d] # None =>
        /\ j \in Created /\ ~Planning(j)
        /\ entry[j][d][1] = d /\ entry[j][d][2] = work[j].refs[d]

Aged(d, version) == doc[d].state # "gone" => version <= rec[d].version

\* Nothing is planned, recorded or to be removed that is newer than its record.
Ages ==
    /\ \A j \in Created, d \in Doc : Aged(d, work[j].refs[d])
    /\ \A d \in Doc : rec[d].entry # None => rec[d].entry[1] = d /\ Aged(d, rec[d].entry[2])
    /\ \A j \in Created : \A e \in work[j].removals : Aged(e[1], e[2])

-----------------------------------------------------------------------------
(* Erasures. *)

Erases(j, stages) == At(j, {"erase_person"}, stages)
Sanitized == {"rebuilding", "removing_index", "verifying", "done"}

CleanupLast == \A j \in Created : OpenCleanup(j) => \A i \in Created : i <= j

\* Until it sanitizes, an erasure's documents are those that name the person; afterwards it
\* writes each of them again, newer than anything it removes.
Affected ==
    \A j \in Created : OpenCleanup(j) =>
        /\ Erases(j, {"invalidating", "inventory", "draining", "sanitizing"}) =>
              job[j].docs = {d \in Doc : Occurs(job[j].person, d)}
        /\ Erases(j, Sanitized) =>
              \A d \in job[j].docs :
                 /\ work[j].refs[d] # 0
                 /\ \A e \in work[j].removals : e[1] = d => e[2] < work[j].refs[d]

\* No ingestion that was there when an erasure sanitized writes again, and none that came
\* later is of a document that was there.
Stopped ==
    \A j \in Created : Erases(j, Sanitized) =>
        \A k \in Created : job[k].kind = "ingest" =>
            /\ k < j => job[k].state = "completed" \/ work[k].forbidden
            /\ k > j => \A i \in 1 .. (j - 1) : job[i].docs \cap job[k].docs = {}

ForbiddenFenced == \A k \in Created : work[k].forbidden => job[k].life < lifecycle_revision

-----------------------------------------------------------------------------
(* What a replacement removes. *)

Inherited ==
    \A i \in Created : work[i].successor # None =>
        \A d \in Doc : op[i][d] # "none" => entry[i][d] \in work[work[i].successor].removals

Cleaned ==
    \A k \in Created :
        /\ work[k].cleaned => op[k]["remove"] = "succeeded"
        /\ /\ work[k].removals # {}
           /\ \/ job[k].kind \in {"ingest", "activate"} /\ job[k].state = "completed"
              \/ At(k, {"deactivate"}, {"verifying", "done"})
           => op[k]["remove"] = "succeeded"
        /\ job[k].kind = "deactivate" /\ job[k].state = "completed" => job[k].stage = "done"

-----------------------------------------------------------------------------
DocumentInv ==
    /\ CleanupInv
    /\ Absent /\ Used /\ DeletedGone
    /\ OneWriterPerDocument
    /\ Successors /\ OneIngestion /\ Unparsed
    /\ OfPlan /\ Ages
    /\ CleanupLast /\ Affected /\ Stopped /\ ForbiddenFenced /\ ErasedForgotten
    /\ Inherited /\ Cleaned

-----------------------------------------------------------------------------
(* What one step may do to the documents, their records and the work plans *)
(* of existing jobs.                                                       *)

RecordSame(d) ==
    /\ rec'[d].version = rec[d].version /\ rec'[d].names = rec[d].names
    /\ rec'[d].entry = rec[d].entry /\ rec'[d].published = rec[d].published

DocumentSame(d) ==
    doc'[d].state = doc[d].state /\ doc'[d].latest = doc[d].latest /\ doc'[d].raw = doc[d].raw

PlanSame(k) ==
    /\ work'[k].refs = work[k].refs /\ work'[k].removals = work[k].removals
    /\ work'[k].successor = work[k].successor /\ work'[k].forbidden = work[k].forbidden

\* The step neither creates a job nor touches what documents and plans say.
Quiet ==
    /\ UNCHANGED <<njobs, lifecycle_revision, write_barrier>>
    /\ \A d \in Doc : DocumentSame(d) /\ RecordSame(d)
    /\ \A k \in Job : PlanSame(k)

\* Marking the documents of a job keeps all but their progress.
LEMMA MarkedSame ==
    ASSUME TypeOK, NEW D, NEW status, doc' = Marked(D, status), NEW d \in Doc
    PROVE  DocumentSame(d)
<1>1. doc[d] \in DocumentRow
      BY DEF TypeOK
<1>2. doc'[d] = doc[d] \/ doc'[d] = [doc[d] EXCEPT !.processing = status]
      BY DEF Marked
<1> QED BY <1>1, <1>2 DEF DocumentRow, DocumentSame

\* Applying a privacy plan keeps what a record says and where it is published.
LEMMA CompiledSame ==
    ASSUME TypeOK, NEW j \in Job, NEW b, rec' = Compiled(j, b), NEW d \in Doc
    PROVE  RecordSame(d)
<1>1. rec[d] \in RecordRow
      BY DEF TypeOK
<1>2. rec'[d] = rec[d] \/ \E r : rec'[d] = [rec[d] EXCEPT !.reviewed = r, !.quarantined = b]
      BY DEF Compiled
<1> QED BY <1>1, <1>2 DEF RecordRow, RecordSame

\* So does quarantining it.
LEMMA QuarantinedSame ==
    ASSUME TypeOK, NEW D, NEW d \in Doc,
           rec' = [c \in Doc |-> IF c \in D THEN [rec[c] EXCEPT !.quarantined = TRUE] ELSE rec[c]]
    PROVE  RecordSame(d)
<1>1. rec[d] \in RecordRow
      BY DEF TypeOK
<1>2. rec'[d] = rec[d] \/ rec'[d] = [rec[d] EXCEPT !.quarantined = TRUE]
      OBVIOUS
<1> QED BY <1>1, <1>2 DEF RecordRow, RecordSame

\* Moving the corpus generation keeps every plan but its snapshot.
LEMMA InvalidatedSame ==
    ASSUME TypeOK, NEW k \in Job
    PROVE  /\ Invalidated(work)[k].refs = work[k].refs
           /\ Invalidated(work)[k].removals = work[k].removals
           /\ Invalidated(work)[k].successor = work[k].successor
           /\ Invalidated(work)[k].forbidden = work[k].forbidden
           /\ Invalidated(work)[k].cleaned = work[k].cleaned
<1>1. work[k] \in WorkRow
      BY DEF TypeOK
<1>2. Invalidated(work)[k] = [work[k] EXCEPT !.fresh = FALSE]
      BY DEF Invalidated
<1> QED BY <1>1, <1>2 DEF WorkRow

\* Noting that the obsolete entries are gone keeps every plan.
LEMMA CleanedSame ==
    ASSUME TypeOK, NEW j \in Job, work' = [work EXCEPT ![j].cleaned = TRUE], NEW k \in Job
    PROVE  PlanSame(k)
<1>1. work[k] \in WorkRow
      BY DEF TypeOK
<1>2. work'[k] = work[k] \/ work'[k] = [work[k] EXCEPT !.cleaned = TRUE]
      BY DEF TypeOK
<1> QED BY <1>1, <1>2 DEF WorkRow, PlanSame

\* The steps that are not quiet.
Loud ==
    \/ \E d \in Doc : SubmitUpload(d)
    \/ \E d \in Doc : \E kind \in {"activate", "deactivate", "delete_document"} :
          MutateDocument(d, kind)
    \/ \E p \in Person : ErasePerson(p)
    \/ Claim
    \/ \E j \in Job : \/ Parse(j) \/ Inventory(j)
                      \/ SanitizeDeleted(j) \/ SanitizeErased(j) \/ Publish(j)

\* Every other step is quiet.
LEMMA QuietSteps ==
    ASSUME TypeOK, [Next]_vars, ~Loud
    PROVE  Quiet
<1> USE DEF Quiet
<1>1. ASSUME UNCHANGED <<doc, rec, work, njobs, lifecycle_revision, write_barrier>> PROVE Quiet
      BY <1>1 DEF DocumentSame, RecordSame, PlanSame
<1>2. ASSUME NEW p \in Person, AssociatePerson(p) PROVE Quiet
  <2>1. \A d \in Doc : DocumentSame(d)
        BY <1>2 DEF AssociatePerson, DocumentSame
  <2>2. \A d \in Doc : RecordSame(d)
    <3> DEFINE D == {d \in Doc : rec[d].version # 0}
    <3>1. rec' = [c \in Doc |-> IF c \in D THEN [rec[c] EXCEPT !.quarantined = TRUE] ELSE rec[c]]
          BY <1>2 DEF AssociatePerson
    <3> HIDE DEF D
    <3> QED BY <3>1, QuarantinedSame
  <2>3. \A k \in Job : PlanSame(k)
        BY <1>2, InvalidatedSame DEF AssociatePerson, PlanSame
  <2> QED BY <1>2, <2>1, <2>2, <2>3 DEF AssociatePerson, project
<1>3. ASSUME NEW D, NEW status, doc' = Marked(D, status), UNCHANGED <<project, work, njobs>>,
             \A d \in Doc : RecordSame(d)
      PROVE  Quiet
      BY <1>3, MarkedSame DEF PlanSame, project
<1>4. ASSUME NEW j \in Job, RetryJob(j) PROVE Quiet
  <2>1. \A d \in Doc : RecordSame(d)
        BY <1>4 DEF RetryJob, RecordSame
  <2> QED BY <1>3, <1>4, <2>1 DEF RetryJob
<1>5. CASE Admin
      BY <1>2, <1>4, <1>5 DEF Admin, Loud
<1>6. ASSUME NEW j \in Job, Expire(j) PROVE Quiet
      BY <1>1, <1>6 DEF Expire, project
<1>7. CASE Network \/ UNCHANGED vars
      BY <1>1, <1>7 DEF Network, Report, vars, project
<1>8. ASSUME NEW j \in Job, Worker(j) PROVE Quiet
  <2>1. CASE PrivacyReady(j)
    <3>1. \A d \in Doc : RecordSame(d)
          BY <2>1, CompiledSame DEF PrivacyReady
    <3> QED BY <2>1, <3>1 DEF PrivacyReady, DocumentSame, PlanSame, project
  <2>2. CASE PrivacyUnresolved(j)
    <3>1. \A d \in Doc : RecordSame(d)
          BY <2>2, CompiledSame DEF PrivacyUnresolved
    <3> QED BY <1>3, <2>2, <3>1 DEF PrivacyUnresolved
  <2>3. CASE Invalidating(j) \/ Drain(j) \/ Advance(j)
        BY <1>1, <2>3 DEF Invalidating, Drain, Advance, project
  <2>4. ASSUME NEW d \in Doc, StageArtifacts(j, d) PROVE Quiet
        BY <1>1, <2>4 DEF StageArtifacts, project
  <2>5. ASSUME NEW x \in Slot, Prepare(j, x) \/ Start(j, x) PROVE Quiet
        BY <1>1, <2>5 DEF Prepare, Start, project
  <2>6. CASE ObsoleteIndexRemoved(j)
    <3>1. \A k \in Job : PlanSame(k)
          BY <2>6, CleanedSame DEF ObsoleteIndexRemoved
    <3> QED BY <2>6, <3>1 DEF ObsoleteIndexRemoved, DocumentSame, RecordSame, project
  <2>7. ASSUME NEW code \in Codes, Fail(j, code) PROVE Quiet
    <3>1. \A d \in Doc : RecordSame(d)
          BY <2>7 DEF Fail, RecordSame
    <3> QED BY <1>3, <2>7, <3>1 DEF Fail
  <2> QED BY <1>8, <2>1, <2>2, <2>3, <2>4, <2>5, <2>6, <2>7 DEF Worker, Loud
<1> QED BY <1>5, <1>6, <1>7, <1>8 DEF Next, Loud

-----------------------------------------------------------------------------
(* The loud steps, field by field. *)

\* What every command that creates a job leaves alone.
Creation(new) ==
    /\ new \in Job /\ new \notin Created /\ new = njobs + 1 /\ njobs' = new
    /\ Created' = Created \cup {new}
    /\ ~write_barrier
    /\ \A k \in Created : job'[k] = job[k] /\ PlanSame(k)

\* The next number is that of no job.
LEMMA NewNumber ==
    ASSUME TypeOK, njobs < MaxJobs, njobs' = njobs + 1
    PROVE  /\ njobs + 1 \in Job /\ njobs + 1 \notin Created /\ Created' = Created \cup {njobs + 1}
           /\ Created \subseteq Job
BY ConstantsAssumption DEF TypeOK, Job, Created

\* The row and the plan a job is created with.
NewRowOf(m, kind, docs, person, stage) ==
    /\ job'[m].kind = kind /\ job'[m].docs = docs /\ job'[m].person = person
    /\ job'[m].life = lifecycle_revision' /\ job'[m].stage = stage /\ job'[m].state = "pending"

NewPlanOf(m, refs, removals) ==
    /\ work'[m].refs = refs /\ work'[m].removals = removals /\ work'[m].successor = None
    /\ work'[m].forbidden = FALSE /\ work'[m].cleaned = FALSE

\* A submission: the upload was not there, and nothing else changes.
LEMMA SubmitEffect ==
    ASSUME TypeOK, NEW d \in Doc, SubmitUpload(d)
    PROVE  /\ Creation(njobs') /\ UNCHANGED <<lifecycle_revision, write_barrier>>
           /\ NewRowOf(njobs', "ingest", {d}, None, "received")
           /\ NewPlanOf(njobs', NoRefs, {})
           /\ doc[d].state = "unused"
           /\ doc'[d].state = "live" /\ doc'[d].latest = njobs' /\ doc'[d].raw = TRUE
           /\ \A c \in Doc \ {d} : DocumentSame(c)
           /\ \A c \in Doc : RecordSame(c)
           /\ UNCHANGED <<entry, op>>
<1>1. njobs' = njobs + 1 /\ njobs < MaxJobs
      BY DEF SubmitUpload
<1>2. njobs' \in Job /\ njobs' \notin Created /\ Created' = Created \cup {njobs'} /\ Created \subseteq Job
      BY <1>1, NewNumber
<1>3. \A k \in Created : job'[k] = job[k] /\ PlanSame(k)
      BY <1>2 DEF SubmitUpload, TypeOK, PlanSame
<1>4. NewRowOf(njobs', "ingest", {d}, None, "received") /\ NewPlanOf(njobs', NoRefs, {})
  <2>1. /\ job'[njobs'] = NewJob("ingest", {d}, None, lifecycle_revision', "received")
        /\ work'[njobs'] = NewWork(NoRefs, {}, FALSE)
        BY <1>2 DEF SubmitUpload, TypeOK, project
  <2> QED BY <2>1 DEF NewRowOf, NewPlanOf, NewJob, NewWork, NoWork
<1>5. /\ doc'[d] = [state |-> "live", active |-> TRUE,
                    latest |-> njobs', processing |-> "pending", raw |-> TRUE]
      /\ \A c \in Doc \ {d} : doc'[c] = doc[c]
      BY DEF SubmitUpload, TypeOK
<1>6. Creation(njobs')
      BY <1>1, <1>2, <1>3 DEF SubmitUpload, Creation
<1>7. /\ \A c \in Doc \ {d} : DocumentSame(c)
      /\ \A c \in Doc : RecordSame(c)
      BY <1>5 DEF SubmitUpload, DocumentSame, RecordSame
<1>8. /\ doc[d].state = "unused"
      /\ UNCHANGED <<lifecycle_revision, write_barrier, entry, op>>
      BY DEF SubmitUpload, project, ledger
<1> QED BY <1>4, <1>5, <1>6, <1>7, <1>8

\* A command that invalidates the corpus and creates a job keeps the plans there are.
LEMMA CreatedPlans ==
    ASSUME TypeOK, NEW new \in Job, new \notin Created, Created \subseteq Job, NEW w,
           work' = [Invalidated(work) EXCEPT ![new] = w]
    PROVE  /\ work'[new] = w
           /\ \A k \in Created : PlanSame(k) /\ work'[k].cleaned = work[k].cleaned
<1>1. Invalidated(work) \in [Job -> WorkRow]
      BY InvalidatedType DEF TypeOK
<1>2. work'[new] = w /\ \A k \in Created : work'[k] = Invalidated(work)[k]
      BY <1>1
<1> QED BY <1>2, InvalidatedSame DEF PlanSame

\* A command on a document: the document was live, and the new job is its latest.
LEMMA MutateEffect ==
    ASSUME TypeOK, NEW d \in Doc, NEW kind \in {"activate", "deactivate", "delete_document"},
           MutateDocument(d, kind)
    PROVE  /\ Creation(njobs') /\ lifecycle_revision' = lifecycle_revision + 1
           /\ NewRowOf(njobs', kind, {d}, None, InitialStage(kind))
           /\ NewPlanOf(njobs', IF kind = "activate" THEN [NoRefs EXCEPT ![d] = rec[d].version]
                                                    ELSE NoRefs,
                        EntriesOf({d}))
           /\ doc[d].state = "live"
           /\ doc'[d].state \in {"live", "deleted"} /\ doc'[d].latest = njobs' /\ doc'[d].raw = doc[d].raw
           /\ \A c \in Doc \ {d} : DocumentSame(c) /\ RecordSame(c)
           /\ rec'[d].version = rec[d].version /\ rec'[d].names = rec[d].names
           /\ rec'[d].entry = rec[d].entry /\ (rec'[d].published => rec[d].published)
           /\ UNCHANGED <<entry, op>>
<1>1. njobs' = njobs + 1 /\ njobs < MaxJobs
      BY DEF MutateDocument
<1>2. njobs' \in Job /\ njobs' \notin Created /\ Created' = Created \cup {njobs'} /\ Created \subseteq Job
      BY <1>1, NewNumber
<1>3. NewRowOf(njobs', kind, {d}, None, InitialStage(kind))
  <2>1. job'[njobs'] = NewJob(kind, {d}, None, lifecycle_revision', InitialStage(kind))
        BY <1>2 DEF MutateDocument, TypeOK
  <2> QED BY <2>1 DEF NewRowOf, NewJob
<1>4. \A k \in Created : job'[k] = job[k]
      BY <1>2 DEF MutateDocument, TypeOK
<1> DEFINE refs == IF kind = "activate" THEN [NoRefs EXCEPT ![d] = rec[d].version] ELSE NoRefs
<1>5. NewPlanOf(njobs', refs, EntriesOf({d})) /\ \A k \in Created : PlanSame(k)
  <2>1. work' = [Invalidated(work) EXCEPT ![njobs'] = NewWork(refs, EntriesOf({d}), FALSE)]
        BY DEF MutateDocument
  <2> HIDE DEF refs
  <2>2. work'[njobs'] = NewWork(refs, EntriesOf({d}), FALSE) /\ \A k \in Created : PlanSame(k)
        BY <1>2, <2>1, CreatedPlans
  <2> QED BY <2>2 DEF NewPlanOf, NewWork, NoWork
<1>6. doc[d] \in DocumentRow /\ rec[d] \in RecordRow
      BY DEF TypeOK
<1>7. /\ doc'[d] = MutatedDocument(doc[d], kind, njobs')
      /\ rec'[d] = MutatedRecord(rec[d], kind)
      /\ \A c \in Doc \ {d} : doc'[c] = doc[c] /\ rec'[c] = rec[c]
      BY DEF MutateDocument, TypeOK
<1>8. /\ doc'[d].state \in {"live", "deleted"} /\ doc'[d].latest = njobs'
      /\ doc'[d].raw = doc[d].raw
      BY <1>6, <1>7 DEF MutatedDocument, DocumentRow
<1>9. /\ rec'[d].version = rec[d].version /\ rec'[d].names = rec[d].names
      /\ rec'[d].entry = rec[d].entry /\ (rec'[d].published => rec[d].published)
      BY <1>6, <1>7 DEF MutatedRecord, RecordRow
<1>10. \A c \in Doc \ {d} : DocumentSame(c) /\ RecordSame(c)
       BY <1>7 DEF DocumentSame, RecordSame
<1>11. ~write_barrier /\ lifecycle_revision' = lifecycle_revision + 1
       /\ doc[d].state = "live" /\ UNCHANGED <<entry, op>>
       BY DEF MutateDocument, ledger
<1>12. Creation(njobs')
       BY <1>1, <1>2, <1>4, <1>5, <1>11 DEF Creation
<1> QED BY <1>3, <1>5, <1>8, <1>9, <1>10, <1>11, <1>12

\* An erasure is of the documents whose records name the person.
LEMMA EraseEffect ==
    ASSUME TypeOK, NEW p \in Person, ErasePerson(p)
    PROVE  /\ Creation(njobs') /\ lifecycle_revision' = lifecycle_revision + 1
           /\ NewRowOf(njobs', "erase_person", {d \in Doc : Occurs(p, d)}, p, "invalidating")
           /\ NewPlanOf(njobs', NoRefs, EntriesOf({d \in Doc : Occurs(p, d)}))
           /\ \A c \in Doc : DocumentSame(c) /\ RecordSame(c)
           /\ UNCHANGED <<entry, op>>
<1> DEFINE affected == {d \in Doc : Occurs(p, d)}
<1>1. njobs' = njobs + 1 /\ njobs < MaxJobs
      BY DEF ErasePerson
<1>2. njobs' \in Job /\ njobs' \notin Created /\ Created' = Created \cup {njobs'} /\ Created \subseteq Job
      BY <1>1, NewNumber
<1>3. /\ job' = [job EXCEPT ![njobs'] =
                    NewJob("erase_person", affected, p, lifecycle_revision', "invalidating")]
      /\ work' = [Invalidated(work) EXCEPT ![njobs'] = NewWork(NoRefs, EntriesOf(affected), FALSE)]
      /\ rec' = [d \in Doc |-> IF d \in affected
                               THEN [rec[d] EXCEPT !.quarantined = TRUE] ELSE rec[d]]
      /\ ~write_barrier /\ lifecycle_revision' = lifecycle_revision + 1
      /\ UNCHANGED <<doc, entry, op>>
      BY DEF ErasePerson, ledger
<1> HIDE DEF affected
<1>4. NewRowOf(njobs', "erase_person", affected, p, "invalidating")
      /\ \A k \in Created : job'[k] = job[k]
  <2>1. /\ job'[njobs'] = NewJob("erase_person", affected, p, lifecycle_revision', "invalidating")
        /\ \A k \in Created : job'[k] = job[k]
        BY <1>2, <1>3 DEF TypeOK
  <2> QED BY <2>1 DEF NewRowOf, NewJob
<1>5. \A c \in Doc : DocumentSame(c) /\ RecordSame(c)
      BY <1>3, QuarantinedSame DEF DocumentSame
<1>6. NewPlanOf(njobs', NoRefs, EntriesOf(affected)) /\ \A k \in Created : PlanSame(k)
  <2>1. work'[njobs'] = NewWork(NoRefs, EntriesOf(affected), FALSE)
        /\ \A k \in Created : PlanSame(k)
        BY <1>2, <1>3, CreatedPlans
  <2> QED BY <2>1 DEF NewPlanOf, NewWork, NoWork
<1>7. Creation(njobs')
      BY <1>1, <1>2, <1>3, <1>4, <1>6 DEF Creation
<1> QED BY <1>3, <1>4, <1>5, <1>6, <1>7 DEF affected

-----------------------------------------------------------------------------
(* A claim: the replacements it creates, one for each job it replaces. *)

Claims(n, f) ==
    /\ njobs' = njobs + n
    /\ Rescheduling(f)
    /\ Leasing(Rescheduled(f))
    /\ UNCHANGED <<project, rec, entry, purged>>

\* A claim is the claim of some number of replacements.
LEMMA ClaimCases ==
    ASSUME Claim
    PROVE  \E n \in 0 .. (MaxJobs - njobs) : \E f \in Renumberings(n) : Claims(n, f)
BY DEF Claim, Claims

\* Different jobs get different replacements.
LEMMA Injective ==
    ASSUME TypeOK, NEW n \in 0 .. (MaxJobs - njobs), NEW f \in Renumberings(n),
           NEW i \in Replaceable, NEW j \in Replaceable, f[i] = f[j]
    PROVE  i = j
<1>1. i \in Nat /\ j \in Nat /\ f[i] \in Nat /\ f[j] \in Nat
      BY RenumberedType DEF Created, TypeOK
<1>2. /\ i < j => f[i] < f[j]
      /\ j < i => f[j] < f[i]
      BY DEF Renumberings
<1> QED BY <1>1, <1>2

\* The replaced job of a new number is the one it was chosen for.
LEMMA Chosen ==
    ASSUME TypeOK, NEW n \in 0 .. (MaxJobs - njobs), NEW f \in Renumberings(n),
           NEW i \in Replaceable
    PROVE  /\ \E j \in DOMAIN f : f[j] = f[i]
           /\ (CHOOSE j \in DOMAIN f : f[j] = f[i]) = i
<1>1. DOMAIN f = Replaceable
      BY RenumberedType
<1>2. \A j \in DOMAIN f : f[j] = f[i] => j = i
      BY <1>1, Injective
<1> QED BY <1>1, <1>2

\* The numbers of the replacements are new, and every new number is one.
LEMMA ClaimNumbers ==
    ASSUME TypeOK, NEW n \in 0 .. (MaxJobs - njobs), NEW f \in Renumberings(n), Claims(n, f)
    PROVE  /\ DOMAIN f = Replaceable /\ Replaceable \subseteq Created /\ Created \subseteq Job
           /\ Created' \subseteq Job /\ Created \subseteq Created'
           /\ \A i \in Replaceable : f[i] \in Created' \ Created /\ i < f[i]
           /\ \A m \in Created' \ Created : \E i \in Replaceable : m = f[i]
           /\ \A m \in Created' \ Created, k \in Created : k < m
<1>1. njobs' = njobs + n
      BY DEF Claims
<1> QED BY <1>1, RenumberedType DEF Created

\* The row of a replacement.
Replacement(k, i) ==
    /\ job'[k].kind = job[i].kind /\ job'[k].docs = job[i].docs /\ job'[k].person = None
    /\ job'[k].life = lifecycle_revision /\ job'[k].stage = ResumedStage(i)
    /\ job'[k].state \in {"pending", "running"}

\* Every replaced job has its replacement.
LEMMA ClaimNewRows ==
    ASSUME TypeOK, NEW n \in 0 .. (MaxJobs - njobs), NEW f \in Renumberings(n), Claims(n, f),
           NEW i \in Replaceable
    PROVE  Replacement(f[i], i)
<1> DEFINE jobs == Rescheduled(f)
           row == NewJob(job[i].kind, job[i].docs, None, lifecycle_revision, ResumedStage(i))
<1>1. f[i] \in Job /\ jobs \in [Job -> JobRow]
      BY ClaimNumbers, RescheduledRows
<1>2. jobs[f[i]] = row
      BY <1>1, Chosen DEF Rescheduled
<1>3. /\ row.kind = job[i].kind /\ row.docs = job[i].docs /\ row.person = None
      /\ row.life = lifecycle_revision /\ row.stage = ResumedStage(i) /\ row.state = "pending"
      BY DEF NewJob
<1>4. Leasing(jobs)
      BY DEF Claims
<1> HIDE DEF jobs, row
<1>5. CASE job' = jobs
      BY <1>2, <1>3, <1>5 DEF Replacement
<1>6. ASSUME NEW j \in Job,
             job' = [jobs EXCEPT ![j] = [@ EXCEPT !.state = "running", !.lease = "live"]]
      PROVE  Replacement(f[i], i)
  <2>1. \/ job'[f[i]] = row
        \/ job'[f[i]] = [row EXCEPT !.state = "running", !.lease = "live"]
        BY <1>1, <1>2, <1>6
  <2>2. row \in JobRow
        BY <1>1, <1>2
  <2> QED BY <1>3, <2>1, <2>2 DEF JobRow, Replacement
<1> QED BY <1>4, <1>5, <1>6 DEF Leasing

\* It plans what the replaced one did, and removes what that may have written as well.
LEMMA ClaimNewPlans ==
    ASSUME TypeOK, NEW n \in 0 .. (MaxJobs - njobs), NEW f \in Renumberings(n), Claims(n, f),
           NEW i \in Replaceable
    PROVE  /\ NewPlanOf(f[i], work[i].refs, work[i].removals \cup Upserted(i))
           /\ work'[i].successor = f[i]
<1>1. f[i] \in Job /\ i \in Job /\ i \in Created /\ f[i] \notin Created /\ DOMAIN f = Replaceable
      BY ClaimNumbers
<1>2. work'[f[i]] = NewWork(work[i].refs, work[i].removals \cup Upserted(i), FALSE)
  <2>1. RescheduledWork(f)[f[i]] =
           LET j == CHOOSE j \in DOMAIN f : f[j] = f[i]
           IN  NewWork(work[j].refs, work[j].removals \cup Upserted(j), FALSE)
        BY <1>1, Zenon DEF RescheduledWork
  <2>2. work' = RescheduledWork(f)
        BY DEF Claims, Rescheduling
  <2> QED BY <2>1, <2>2, Chosen, Zenon
<1>3. \A j \in DOMAIN f : f[j] # i
      BY <1>1, ClaimNumbers
<1>4. work'[i] = [work[i] EXCEPT !.successor = f[i]]
      BY <1>1, <1>3 DEF Claims, Rescheduling, RescheduledWork
<1>5. work[i] \in WorkRow
      BY <1>1 DEF TypeOK
<1>6. work'[i].successor = f[i]
      BY <1>4, <1>5 DEF WorkRow
<1> QED BY <1>2, <1>6 DEF NewPlanOf, NewWork, NoWork

\* A claim tells a job that was replaced by whom, and keeps all other plans.
LEMMA ClaimOldPlans ==
    ASSUME TypeOK, NEW n \in 0 .. (MaxJobs - njobs), NEW f \in Renumberings(n), Claims(n, f),
           NEW k \in Created
    PROVE  /\ work'[k].refs = work[k].refs /\ work'[k].removals = work[k].removals
           /\ work'[k].forbidden = work[k].forbidden /\ work'[k].cleaned = work[k].cleaned
           /\ k \notin Replaceable => work'[k].successor = work[k].successor
<1>1. k \in Job /\ DOMAIN f = Replaceable /\ work[k] \in WorkRow
      BY ClaimNumbers DEF TypeOK
<1>2. \A j \in DOMAIN f : f[j] # k
      BY ClaimNumbers
<1>3. work'[k] = IF k \in DOMAIN f THEN [work[k] EXCEPT !.successor = f[k]] ELSE work[k]
      BY <1>1, <1>2 DEF Claims, Rescheduling, RescheduledWork
<1> QED BY <1>1, <1>3 DEF WorkRow

\* The documents keep their state; those of a replaced job name its replacement.
LEMMA ClaimDocs ==
    ASSUME TypeOK, NEW n \in 0 .. (MaxJobs - njobs), NEW f \in Renumberings(n), Claims(n, f),
           NEW d \in Doc
    PROVE  /\ doc'[d].state = doc[d].state /\ doc'[d].raw = doc[d].raw /\ RecordSame(d)
           /\ \A i \in Replaceable : d \in job[i].docs => doc[d].latest = i /\ doc'[d].latest = f[i]
           /\ (\A i \in Replaceable : d \notin job[i].docs) => doc'[d].latest = doc[d].latest
<1>1. doc[d] \in DocumentRow /\ DOMAIN f = Replaceable
      BY ClaimNumbers DEF TypeOK
<1>2. RecordSame(d)
      BY DEF Claims, RecordSame
<1>3. doc' = RescheduledDoc(f)
      BY DEF Claims, Rescheduling
<1>4. \A i \in Replaceable : d \in job[i].docs => doc[d].latest = i
      BY DEF Replaceable, Owned
<1>5. ASSUME NEW i \in Replaceable, d \in job[i].docs
      PROVE  /\ doc'[d].state = doc[d].state /\ doc'[d].raw = doc[d].raw
             /\ doc'[d].latest = f[i]
  <2>1. (CHOOSE j \in DOMAIN f : d \in job[j].docs) = i
        BY <1>1, <1>4, <1>5
  <2>2. doc'[d] = [doc[d] EXCEPT !.latest = f[i], !.processing = "pending"]
        BY <1>1, <1>3, <1>5, <2>1 DEF RescheduledDoc
  <2> QED BY <1>1, <2>2 DEF DocumentRow
<1>6. ASSUME \A i \in Replaceable : d \notin job[i].docs
      PROVE  DocumentSame(d)
  <2>1. doc'[d] = doc[d] \/ doc'[d] = [doc[d] EXCEPT !.processing = "failed"]
        BY <1>1, <1>3, <1>6 DEF RescheduledDoc
  <2> QED BY <1>1, <2>1 DEF DocumentRow, DocumentSame
<1> QED BY <1>2, <1>4, <1>5, <1>6 DEF DocumentSame

-----------------------------------------------------------------------------
(* The loud steps of a worker. *)

\* Moving one job to another stage.
LEMMA StageSet ==
    ASSUME TypeOK, NEW j \in Job, NEW stage, job' = [job EXCEPT ![j].stage = stage],
           NEW k \in Job
    PROVE  /\ k # j => job'[k] = job[k]
           /\ k = j => job'[k].stage = stage
           /\ job'[k].state = job[k].state
<1>1. job[k] \in JobRow /\ DOMAIN job = Job
      BY DEF TypeOK
<1>2. job'[k] = IF k = j THEN [job[k] EXCEPT !.stage = stage] ELSE job[k]
      BY <1>1
<1> QED BY <1>1, <1>2 DEF JobRow

\* Parsing makes the first version of the records of the job's documents.
LEMMA ParseEffect ==
    ASSUME TypeOK, NEW j \in Job, Parse(j)
    PROVE  /\ Ready(j) /\ At(j, {"ingest"}, {"received"})
           /\ UNCHANGED <<njobs, lifecycle_revision, write_barrier, entry, op>>
           /\ \A d \in Doc : DocumentSame(d)
           /\ \A d \in job[j].docs : doc[d].raw
           /\ \A d \in Doc : d \notin job[j].docs => RecordSame(d)
           /\ \A d \in Doc : d \in job[j].docs =>
                 /\ rec'[d].version = 1 /\ rec'[d].names = Mentions[d]
                 /\ rec'[d].entry = None /\ ~rec'[d].published
           /\ \A k \in Job \ {j} : PlanSame(k)
           /\ work'[j].refs = [d \in Doc |-> IF d \in job[j].docs THEN 1 ELSE 0]
           /\ work'[j].removals = work[j].removals /\ work'[j].successor = work[j].successor
           /\ work'[j].forbidden = work[j].forbidden
           /\ job' = [job EXCEPT ![j].stage = "parsed"]
<1>1. \A d \in Doc : DocumentSame(d)
      BY MarkedSame DEF Parse
<1>2. \A d \in Doc : d \notin job[j].docs => RecordSame(d)
      BY DEF Parse, RecordSame
<1>3. \A d \in Doc : d \in job[j].docs =>
         rec'[d] = [NoRecord EXCEPT !.version = 1, !.names = Mentions[d], !.quarantined = TRUE]
      BY DEF Parse
<1>4. \A d \in Doc : d \in job[j].docs =>
         /\ rec'[d].version = 1 /\ rec'[d].names = Mentions[d]
         /\ rec'[d].entry = None /\ ~rec'[d].published
      BY <1>3 DEF NoRecord
<1> DEFINE refs == [d \in Doc |-> IF d \in job[j].docs THEN 1 ELSE 0]
<1>5. work' = [work EXCEPT ![j].refs = refs] /\ work[j] \in WorkRow /\ DOMAIN work = Job
      BY DEF Parse, TypeOK
<1> HIDE DEF refs
<1>6. work'[j] = [work[j] EXCEPT !.refs = refs] /\ \A k \in Job \ {j} : work'[k] = work[k]
      BY <1>5
<1>7. /\ work'[j].refs = refs /\ work'[j].removals = work[j].removals
      /\ work'[j].successor = work[j].successor /\ work'[j].forbidden = work[j].forbidden
      BY <1>5, <1>6 DEF WorkRow
<1>8. \A k \in Job \ {j} : PlanSame(k)
      BY <1>6 DEF PlanSame
<1>9. /\ Ready(j) /\ At(j, {"ingest"}, {"received"}) /\ \A d \in job[j].docs : doc[d].raw
      /\ UNCHANGED <<njobs, lifecycle_revision, write_barrier, entry, op>>
      /\ job' = [job EXCEPT ![j].stage = "parsed"]
      BY DEF Parse, project, ledger
<1> QED BY <1>1, <1>2, <1>4, <1>7, <1>8, <1>9 DEF refs

\* The inventory pass adds to what its cleanup removes.
LEMMA InventoryEffect ==
    ASSUME TypeOK, NEW j \in Job, Inventory(j)
    PROVE  /\ Ready(j) /\ At(j, Cleanup, {"inventory"})
           /\ UNCHANGED <<njobs, lifecycle_revision, write_barrier, entry, op>>
           /\ \A d \in Doc : DocumentSame(d) /\ RecordSame(d)
           /\ \A k \in Job \ {j} : PlanSame(k)
           /\ work'[j].refs = work[j].refs /\ work'[j].successor = work[j].successor
           /\ work'[j].forbidden = work[j].forbidden
           /\ work'[j].removals = work[j].removals \cup Inventoried(j)
           /\ job' = [job EXCEPT ![j].stage = "draining"]
<1> DEFINE R == work[j].removals \cup Inventoried(j)
<1>1. work' = [work EXCEPT ![j].removals = R] /\ work[j] \in WorkRow /\ DOMAIN work = Job
      BY DEF Inventory, TypeOK
<1> HIDE DEF R
<1>2. work'[j] = [work[j] EXCEPT !.removals = R] /\ \A k \in Job \ {j} : work'[k] = work[k]
      BY <1>1
<1>3. /\ work'[j].refs = work[j].refs /\ work'[j].removals = R
      /\ work'[j].successor = work[j].successor /\ work'[j].forbidden = work[j].forbidden
      BY <1>1, <1>2 DEF WorkRow
<1>4. \A k \in Job \ {j} : PlanSame(k)
      BY <1>2 DEF PlanSame
<1>5. \A d \in Doc : DocumentSame(d) /\ RecordSame(d)
      BY DEF Inventory, DocumentSame, RecordSame
<1>6. /\ Ready(j) /\ At(j, Cleanup, {"inventory"})
      /\ UNCHANGED <<njobs, lifecycle_revision, write_barrier, entry, op>>
      /\ job' = [job EXCEPT ![j].stage = "draining"]
      BY DEF Inventory, project, ledger
<1> QED BY <1>3, <1>4, <1>5, <1>6 DEF R

\* A deletion takes the document and its record away.
LEMMA SanitizeDeletedEffect ==
    ASSUME TypeOK, NEW j \in Job, SanitizeDeleted(j)
    PROVE  /\ Ready(j) /\ At(j, {"delete_document"}, {"sanitizing"})
           /\ UNCHANGED <<njobs, lifecycle_revision, write_barrier, entry, op>>
           /\ \A d \in Doc : d \notin job[j].docs => DocumentSame(d) /\ RecordSame(d)
           /\ \A d \in Doc : d \in job[j].docs =>
                 /\ doc'[d].state = "gone" /\ doc'[d].latest = None /\ doc'[d].raw = FALSE
                 /\ rec'[d] = NoRecord
           /\ \A k \in Job : PlanSame(k)
           /\ job' = [job EXCEPT ![j].stage = "rebuilding"]
<1>1. \A d \in Doc : d \notin job[j].docs => DocumentSame(d) /\ RecordSame(d)
      BY DEF SanitizeDeleted, DocumentSame, RecordSame
<1>2. \A d \in Doc : d \in job[j].docs => doc'[d] = [NoDoc EXCEPT !.state = "gone"] /\ rec'[d] = NoRecord
      BY DEF SanitizeDeleted
<1>3. \A d \in Doc : d \in job[j].docs =>
         /\ doc'[d].state = "gone" /\ doc'[d].latest = None /\ doc'[d].raw = FALSE
         /\ rec'[d] = NoRecord
      BY <1>2 DEF NoDoc
<1>4. /\ Ready(j) /\ At(j, {"delete_document"}, {"sanitizing"})
      /\ UNCHANGED <<njobs, lifecycle_revision, write_barrier, entry, op, work>>
      /\ job' = [job EXCEPT ![j].stage = "rebuilding"]
      BY DEF SanitizeDeleted, project, ledger
<1> QED BY <1>1, <1>3, <1>4 DEF PlanSame

Ingests == {i \in Created : job[i].kind = "ingest" /\ Uncompleted(i)}

\* An erasure makes a new version of the records that name the person, drops the uploads of its
\* documents and forbids the unfinished ingestions.
LEMMA SanitizeErasedEffect ==
    ASSUME TypeOK, NEW j \in Job, SanitizeErased(j)
    PROVE  LET p == job[j].person
           IN  /\ Ready(j) /\ At(j, {"erase_person"}, {"sanitizing"})
               /\ UNCHANGED <<njobs, lifecycle_revision, write_barrier, entry, op>>
               /\ \A d \in Doc :
                     /\ doc'[d].state = doc[d].state /\ doc'[d].latest = doc[d].latest
                     /\ doc'[d].raw => doc[d].raw
               /\ \A d \in Doc : ~Occurs(p, d) => RecordSame(d)
               /\ \A d \in Doc : Occurs(p, d) =>
                     /\ rec'[d].version = rec[d].version + 1 /\ rec'[d].names = rec[d].names \ {p}
                     /\ rec'[d].entry = None /\ ~rec'[d].published
               /\ \A k \in Job \ (Ingests \cup {j}) : PlanSame(k)
               /\ work'[j].refs = [d \in Doc |-> IF Occurs(p, d) THEN rec[d].version + 1 ELSE 0]
               /\ work'[j].removals = work[j].removals /\ work'[j].successor = work[j].successor
               /\ work'[j].forbidden = work[j].forbidden
               /\ \A k \in Ingests :
                     /\ work'[k].refs = work[k].refs /\ work'[k].removals = work[k].removals
                     /\ work'[k].successor = work[k].successor /\ work'[k].forbidden = TRUE
               /\ job'[j].stage = "rebuilding"
<1> DEFINE p == job[j].person
<1>1. /\ Ready(j) /\ At(j, {"erase_person"}, {"sanitizing"})
      /\ UNCHANGED <<njobs, lifecycle_revision, write_barrier, entry, op>>
      BY DEF SanitizeErased, project, ledger
<1>2. j \notin Ingests /\ job[j] \in JobRow /\ Ingests \subseteq Job
      BY <1>1, ConstantsAssumption DEF Ingests, At, TypeOK, Created, Job
<1>3. \A d \in Doc :
         /\ doc'[d].state = doc[d].state /\ doc'[d].latest = doc[d].latest
         /\ doc'[d].raw => doc[d].raw
  <2> SUFFICES ASSUME NEW d \in Doc
               PROVE  /\ doc'[d].state = doc[d].state /\ doc'[d].latest = doc[d].latest
                      /\ doc'[d].raw => doc[d].raw
      OBVIOUS
  <2>1. PICK b, s : doc'[d] = [doc[d] EXCEPT !.raw = doc[d].raw /\ b, !.processing = s]
        BY DEF SanitizeErased
  <2>2. doc[d] \in DocumentRow
        BY DEF TypeOK
  <2> QED BY <2>1, <2>2 DEF DocumentRow
<1>4. \A d \in Doc : ~Occurs(p, d) => RecordSame(d)
      BY DEF SanitizeErased, RecordSame
<1>5. ASSUME NEW d \in Doc, Occurs(p, d)
      PROVE  /\ rec'[d].version = rec[d].version + 1 /\ rec'[d].names = rec[d].names \ {p}
             /\ rec'[d].entry = None /\ ~rec'[d].published
  <2>1. rec'[d] = SanitizedRecord(rec[d], p)
        BY <1>5 DEF SanitizeErased
  <2>2. rec[d] \in RecordRow
        BY DEF TypeOK
  <2> QED BY <2>1, <2>2 DEF SanitizedRecord, RecordRow
<1> DEFINE refs == [d \in Doc |-> IF Occurs(p, d) THEN rec[d].version + 1 ELSE 0]
<1>6. refs = [d \in Doc |-> IF d \in {c \in Doc : Occurs(p, c)} THEN rec[d].version + 1 ELSE 0]
      OBVIOUS
<1>7. work' = [i \in Job |->
             IF i \in Ingests THEN [work[i] EXCEPT !.forbidden = TRUE]
             ELSE IF i = j THEN [work[i] EXCEPT !.refs = refs] ELSE work[i]]
      BY <1>6 DEF SanitizeErased, Ingests
<1> HIDE DEF refs
<1>8. work \in [Job -> WorkRow]
      BY DEF TypeOK
<1>9. \A k \in Job \ (Ingests \cup {j}) : PlanSame(k)
      BY <1>7 DEF PlanSame
<1>10. /\ work'[j].refs = refs
       /\ work'[j].removals = work[j].removals /\ work'[j].successor = work[j].successor
       /\ work'[j].forbidden = work[j].forbidden
  <2>1. work'[j] = [work[j] EXCEPT !.refs = refs]
        BY <1>2, <1>7
  <2> QED BY <1>8, <2>1 DEF WorkRow
<1>11. ASSUME NEW k \in Ingests
       PROVE  /\ work'[k].refs = work[k].refs /\ work'[k].removals = work[k].removals
              /\ work'[k].successor = work[k].successor /\ work'[k].forbidden = TRUE
  <2>1. work'[k] = [work[k] EXCEPT !.forbidden = TRUE] /\ work[k] \in WorkRow
        BY <1>2, <1>7, <1>8
  <2> QED BY <2>1 DEF WorkRow
<1>12. job'[j].stage = "rebuilding"
  <2>1. job'[j] = [job[j] EXCEPT !.stage = "rebuilding"]
        BY <1>2 DEF SanitizeErased, Ingests
  <2> QED BY <1>2, <2>1 DEF JobRow
<1> QED BY <1>1, <1>3, <1>4, <1>5, <1>9, <1>10, <1>11, <1>12 DEF refs

\* What publication writes into the record of d.
Written(j, d) ==
    /\ d \in Refs(j) /\ job[j].kind \in {"ingest", "activate", "erase_person"}
    /\ rec'[d].entry = entry[j][d] /\ rec'[d].published
    /\ Current(d, work[j].refs[d]) /\ op[j][d] = "succeeded"

\* A publication writes the entries its job has upserted, and nothing else.
LEMMA PublishRecords ==
    ASSUME TypeOK, NEW j \in Job, Publish(j), NEW d \in Doc
    PROVE  /\ rec'[d].version = rec[d].version /\ rec'[d].names = rec[d].names
           /\ RecordSame(d) \/ Written(j, d)
           /\ d \in Refs(j) /\ job[j].kind = "erase_person" => Written(j, d)
           /\ DocumentSame(d)
<1> DEFINE writes == d \in Refs(j) /\ job[j].kind \in {"ingest", "activate", "erase_person"}
<1>1. rec'[d] = IF writes
                THEN [rec[d] EXCEPT !.published = TRUE, !.quarantined = FALSE, !.entry = entry[j][d]]
                ELSE rec[d]
      BY DEF Publish, Published
<1>2. rec[d] \in RecordRow /\ doc[d] \in DocumentRow
      BY DEF TypeOK
<1>3. DocumentSame(d)
  <2>1. doc'[d] = doc[d] \/ doc'[d] = [doc[d] EXCEPT !.processing = "completed"]
        BY DEF Publish
  <2> QED BY <1>2, <2>1 DEF DocumentRow, DocumentSame
<1>4. CASE ~writes
      BY <1>1, <1>3, <1>4 DEF RecordSame
<1>5. CASE writes
  <2>1. /\ rec'[d].version = rec[d].version /\ rec'[d].names = rec[d].names
        /\ rec'[d].entry = entry[j][d] /\ rec'[d].published
    <3> HIDE DEF writes
    <3> QED BY <1>1, <1>2, <1>5 DEF RecordRow
  <2>2. Current(d, work[j].refs[d]) /\ op[j][d] = "succeeded"
        BY <1>5 DEF Publish
  <2> QED BY <1>3, <1>5, <2>1, <2>2 DEF Written
<1> QED BY <1>4, <1>5

\* The rebuild a publication may create.
Rebuild(m) ==
    /\ NewRowOf(m, "rebuild_aggregate", {}, None, "received")
    /\ \E refs : NewPlanOf(m, refs, {}) /\ \A d \in Doc : refs[d] \in {0, rec'[d].version}

\* A publication may create one rebuild, and lowers the barrier if it is a cleanup's.
LEMMA PublishEffect ==
    ASSUME TypeOK, NEW j \in Job, Publish(j)
    PROVE  /\ Ready(j) /\ Penultimate(j)
           /\ UNCHANGED <<lifecycle_revision, entry, op>>
           /\ Created \subseteq Created' /\ Created' \subseteq Job
           /\ \A k \in Created : PlanSame(k)
           /\ \A m \in Created' \ Created : m = njobs' /\ Rebuild(m)
           /\ write_barrier' = (write_barrier /\ job[j].kind \notin Cleanup)
           /\ job[j].kind \in Cleanup => CleanupVerified(j)
           /\ job[j].kind = "erase_person" => \A d \in Doc : ~Occurs(job[j].person, d)
<1> DEFINE kind == job[j].kind
           based == kind \in {"ingest", "activate", "erase_person", "deactivate"}
           eligible == IF based THEN Eligible(j, Published(j)) ELSE {}
           created == IF eligible = {} THEN 0 ELSE 1
           completed == [job EXCEPT ![j] = [@ EXCEPT !.state = "completed",
                           !.stage = Sequence[kind][Len(Sequence[kind])],
                           !.code = None, !.retryable = FALSE, !.lease = "none"]]
           new == NewJob("rebuild_aggregate", {}, None, lifecycle_revision, "received")
           refs == [d \in Doc |-> IF d \in eligible THEN rec[d].version ELSE 0]
<1>1. /\ Ready(j) /\ Penultimate(j)
      /\ UNCHANGED <<lifecycle_revision, entry, op>>
      /\ write_barrier' = (write_barrier /\ job[j].kind \notin Cleanup)
      /\ job[j].kind \in Cleanup => CleanupVerified(j)
      /\ job[j].kind = "erase_person" => \A d \in Doc : ~Occurs(job[j].person, d)
      BY DEF Publish
<1>2. /\ njobs' = njobs + created /\ njobs + created <= MaxJobs
      /\ work' = PublishedWork(j, eligible)
      /\ job' = IF eligible = {} THEN completed ELSE [completed EXCEPT ![njobs'] = new]
      BY DEF Publish
<1>3. njobs \in Nat /\ MaxJobs \in Nat /\ Created \subseteq Job /\ njobs <= MaxJobs
      BY ConstantsAssumption DEF TypeOK, Created, Job
<1>4. DOMAIN completed = Job
      BY DEF TypeOK
<1>5. eligible # {} => based
      OBVIOUS
<1> HIDE DEF completed, eligible, new
<1>6. CASE eligible = {}
  <2>1. Created' = Created
        BY <1>2, <1>3, <1>6 DEF Created
  <2>2. work' = work \/ work' = Invalidated(work)
        BY <1>2, <1>6 DEF PublishedWork
  <2>3. \A k \in Created : PlanSame(k)
        BY <1>3, <2>2, InvalidatedSame DEF PlanSame
  <2> QED BY <1>1, <1>3, <2>1, <2>3
<1>7. CASE eligible # {}
  <2>1. njobs' = njobs + 1 /\ njobs < MaxJobs
        BY <1>2, <1>3, <1>7
  <2>2. njobs' \in Job /\ njobs' \notin Created /\ Created' = Created \cup {njobs'}
        BY <2>1, NewNumber
  <2>3. work' = [Invalidated(work) EXCEPT ![njobs'] = NewWork(refs, {}, TRUE)]
        BY <1>2, <1>5, <1>7, <2>1 DEF PublishedWork
  <2>4. work'[njobs'] = NewWork(refs, {}, TRUE) /\ \A k \in Created : PlanSame(k)
        BY <1>3, <2>2, <2>3, CreatedPlans
  <2>5. NewPlanOf(njobs', refs, {})
    <3> HIDE DEF refs
    <3> QED BY <2>4 DEF NewPlanOf, NewWork, NoWork
  <2>6. \A d \in Doc : refs[d] \in {0, rec'[d].version}
        BY PublishRecords
  <2>7. job'[njobs'] = new
        BY <1>2, <1>4, <1>7, <2>2
  <2>8. NewRowOf(njobs', "rebuild_aggregate", {}, None, "received")
        BY <1>1, <2>7 DEF new, NewRowOf, NewJob
  <2> HIDE DEF refs
  <2>9. Rebuild(njobs')
        BY <2>5, <2>6, <2>8 DEF Rebuild
  <2> QED BY <1>1, <1>3, <2>2, <2>4, <2>9
<1> QED BY <1>6, <1>7

-----------------------------------------------------------------------------
(* Who changes what. *)

\* A document comes once, by its submission, and goes once, by its deletion.
LEMMA DocumentStep ==
    ASSUME TypeOK, [Next]_vars, NEW d \in Doc
    PROVE  /\ doc[d].state = "gone" => doc'[d].state = "gone"
           /\ doc'[d].state = "unused" => doc[d].state = "unused"
           /\ doc'[d].state = "gone" =>
                 \/ doc[d].state = "gone"
                 \/ \E j \in Job : SanitizeDeleted(j) /\ d \in job[j].docs
           /\ doc'[d].raw => doc[d].raw \/ doc'[d].state = "live"
           /\ \/ doc'[d].latest \in {doc[d].latest, None}
              \/ doc[d].state = "unused"
              \/ lifecycle_revision' = lifecycle_revision + 1
              \/ \E n \in 0 .. (MaxJobs - njobs) : \E f \in Renumberings(n) :
                    Claims(n, f) /\ \E i \in Replaceable : d \in job[i].docs
<1>1. CASE Quiet
      BY <1>1 DEF Quiet, DocumentSame
<1>2. ASSUME NEW c \in Doc, SubmitUpload(c)
      PROVE  d # c => DocumentSame(d)
      BY <1>2, SubmitEffect
<1>3. ASSUME NEW c \in Doc, SubmitUpload(c), d = c
      PROVE  doc[d].state = "unused" /\ doc'[d].state = "live"
      BY <1>3, SubmitEffect
<1>4. ASSUME NEW c \in Doc, NEW kind \in {"activate", "deactivate", "delete_document"},
             MutateDocument(c, kind)
      PROVE  /\ d # c => DocumentSame(d)
             /\ d = c => /\ doc[d].state = "live" /\ doc'[d].state \in {"live", "deleted"}
                         /\ doc'[d].raw = doc[d].raw
             /\ lifecycle_revision' = lifecycle_revision + 1
      BY <1>4, MutateEffect
<1>5. ASSUME NEW p \in Person, ErasePerson(p) PROVE DocumentSame(d)
      BY <1>5, EraseEffect
<1>6. ASSUME NEW n \in 0 .. (MaxJobs - njobs), NEW f \in Renumberings(n), Claims(n, f)
      PROVE  /\ doc'[d].state = doc[d].state /\ doc'[d].raw = doc[d].raw
             /\ doc'[d].latest = doc[d].latest \/ \E i \in Replaceable : d \in job[i].docs
      BY <1>6, ClaimDocs
<1>7. ASSUME NEW j \in Job, Parse(j) \/ Inventory(j) \/ Publish(j)
      PROVE  DocumentSame(d)
      BY <1>7, ParseEffect, InventoryEffect, PublishRecords
<1>8. ASSUME NEW j \in Job, SanitizeDeleted(j)
      PROVE  \/ DocumentSame(d)
             \/ d \in job[j].docs /\ doc'[d].state = "gone" /\ doc'[d].latest = None /\ doc'[d].raw = FALSE
      BY <1>8, SanitizeDeletedEffect
<1>9. ASSUME NEW j \in Job, SanitizeErased(j)
      PROVE  /\ doc'[d].state = doc[d].state /\ doc'[d].latest = doc[d].latest
             /\ doc'[d].raw => doc[d].raw
      BY <1>9, SanitizeErasedEffect
<1> QED BY <1>1, <1>2, <1>3, <1>4, <1>5, <1>6, <1>7, <1>8, <1>9, QuietSteps, ClaimCases
        DEF Loud, DocumentSame

\* A record changes its version or its names by being parsed, deleted or
\* sanitized, and gains an entry by being published.
LEMMA RecordStep ==
    ASSUME TypeOK, [Next]_vars, NEW d \in Doc
    PROVE  \/ /\ rec'[d].version = rec[d].version /\ rec'[d].names = rec[d].names
              /\ \/ rec'[d].entry = rec[d].entry /\ (rec'[d].published => rec[d].published)
                 \/ \E j \in Job : Publish(j) /\ Written(j, d)
           \/ \E j \in Job : Parse(j) /\ d \in job[j].docs
           \/ \E j \in Job : SanitizeDeleted(j) /\ d \in job[j].docs
           \/ \E j \in Job : SanitizeErased(j) /\ Occurs(job[j].person, d)
<1>1. CASE Quiet
      BY <1>1 DEF Quiet, RecordSame
<1>2. ASSUME NEW c \in Doc, SubmitUpload(c) PROVE RecordSame(d)
      BY <1>2, SubmitEffect
<1>3. ASSUME NEW c \in Doc, NEW kind \in {"activate", "deactivate", "delete_document"},
             MutateDocument(c, kind)
      PROVE  /\ rec'[d].version = rec[d].version /\ rec'[d].names = rec[d].names
             /\ rec'[d].entry = rec[d].entry /\ (rec'[d].published => rec[d].published)
      BY <1>3, MutateEffect DEF RecordSame
<1>4. ASSUME NEW p \in Person, ErasePerson(p) PROVE RecordSame(d)
      BY <1>4, EraseEffect
<1>5. CASE Claim
      BY <1>5 DEF Claim, RecordSame
<1>6. ASSUME NEW j \in Job, Parse(j) PROVE RecordSame(d) \/ d \in job[j].docs
      BY <1>6, ParseEffect
<1>7. ASSUME NEW j \in Job, Inventory(j) PROVE RecordSame(d)
      BY <1>7, InventoryEffect
<1>8. ASSUME NEW j \in Job, SanitizeDeleted(j) PROVE RecordSame(d) \/ d \in job[j].docs
      BY <1>8, SanitizeDeletedEffect
<1>9. ASSUME NEW j \in Job, SanitizeErased(j) PROVE RecordSame(d) \/ Occurs(job[j].person, d)
      BY <1>9, SanitizeErasedEffect
<1>10. ASSUME NEW j \in Job, Publish(j)
       PROVE  /\ rec'[d].version = rec[d].version /\ rec'[d].names = rec[d].names
              /\ RecordSame(d) \/ Written(j, d)
       BY <1>10, PublishRecords
<1> QED BY <1>1, <1>2, <1>3, <1>4, <1>5, <1>6, <1>7, <1>8, <1>9, <1>10, QuietSteps
        DEF Loud, RecordSame

\* The plan of an existing job changes when its record is parsed, when the
\* inventory is taken, when a replacement takes over and when an erasure
\* sanitizes.
LEMMA PlanStep ==
    ASSUME TypeOK, [Next]_vars, NEW k \in Created
    PROVE  /\ work'[k].refs = work[k].refs \/ Parse(k) \/ SanitizeErased(k)
           /\ work'[k].removals = work[k].removals \/ Inventory(k)
           /\ \/ work'[k].successor = work[k].successor
              \/ \E n \in 0 .. (MaxJobs - njobs) : \E f \in Renumberings(n) :
                    Claims(n, f) /\ k \in Replaceable /\ work'[k].successor = f[k]
           /\ \/ work'[k].forbidden = work[k].forbidden
              \/ work'[k].forbidden = TRUE /\ k \in Ingests /\ \E j \in Job : SanitizeErased(j)
<1>0. k \in Job
      BY JobsTyped
<1>1. CASE Quiet
      BY <1>0, <1>1 DEF Quiet, PlanSame
<1>2. ASSUME NEW c \in Doc, SubmitUpload(c) PROVE PlanSame(k)
      BY <1>2, SubmitEffect DEF Creation
<1>3. ASSUME NEW c \in Doc, NEW kind \in {"activate", "deactivate", "delete_document"},
             MutateDocument(c, kind)
      PROVE  PlanSame(k)
      BY <1>3, MutateEffect DEF Creation
<1>4. ASSUME NEW p \in Person, ErasePerson(p) PROVE PlanSame(k)
      BY <1>4, EraseEffect DEF Creation
<1>5. ASSUME NEW n \in 0 .. (MaxJobs - njobs), NEW f \in Renumberings(n), Claims(n, f)
      PROVE  /\ work'[k].refs = work[k].refs /\ work'[k].removals = work[k].removals
             /\ work'[k].forbidden = work[k].forbidden
             /\ \/ work'[k].successor = work[k].successor
                \/ k \in Replaceable /\ work'[k].successor = f[k]
      BY <1>5, ClaimOldPlans, ClaimNewPlans
<1>6. ASSUME NEW j \in Job, Parse(j) PROVE PlanSame(k) \/ k = j
      BY <1>0, <1>6, ParseEffect
<1>7. ASSUME NEW j \in Job, Parse(j), k = j
      PROVE  /\ work'[k].removals = work[k].removals /\ work'[k].successor = work[k].successor
             /\ work'[k].forbidden = work[k].forbidden
      BY <1>7, ParseEffect
<1>8. ASSUME NEW j \in Job, Inventory(j)
      PROVE  \/ PlanSame(k)
             \/ /\ k = j /\ work'[k].refs = work[k].refs
                /\ work'[k].successor = work[k].successor /\ work'[k].forbidden = work[k].forbidden
      BY <1>0, <1>8, InventoryEffect
<1>9. ASSUME NEW j \in Job, SanitizeDeleted(j) \/ Publish(j) PROVE PlanSame(k)
      BY <1>0, <1>9, SanitizeDeletedEffect, PublishEffect
<1>10. ASSUME NEW j \in Job, SanitizeErased(j)
       PROVE  /\ work'[k].refs = work[k].refs \/ k = j
              /\ work'[k].removals = work[k].removals /\ work'[k].successor = work[k].successor
              /\ work'[k].forbidden = work[k].forbidden \/ (work'[k].forbidden = TRUE /\ k \in Ingests)
  <2>1. CASE k \in Ingests
        BY <1>10, <2>1, SanitizeErasedEffect
  <2>2. CASE k = j
        BY <1>10, <2>2, SanitizeErasedEffect
  <2>3. CASE k \notin Ingests /\ k # j
    <3>1. PlanSame(k)
          BY <1>0, <1>10, <2>3, SanitizeErasedEffect
    <3> QED BY <3>1 DEF PlanSame
  <2> QED BY <2>1, <2>2, <2>3
<1>11. CASE Claim
       BY <1>5, <1>11, ClaimCases
<1> QED BY <1>1, <1>2, <1>3, <1>4, <1>6, <1>7, <1>8, <1>9, <1>10, <1>11, QuietSteps
        DEF Loud, PlanSame

\* Every job there is afterwards was there before or comes from one of these.
LEMMA Newcomers ==
    ASSUME TypeOK, [Next]_vars, NEW m \in Created', m \notin Created
    PROVE  \/ \E d \in Doc : SubmitUpload(d) /\ m = njobs'
           \/ \E d \in Doc : \E kind \in {"activate", "deactivate", "delete_document"} :
                 MutateDocument(d, kind) /\ m = njobs'
           \/ \E p \in Person : ErasePerson(p) /\ m = njobs'
           \/ \E n \in 0 .. (MaxJobs - njobs) : \E f \in Renumberings(n) :
                 Claims(n, f) /\ \E i \in Replaceable : m = f[i]
           \/ \E j \in Job : Publish(j) /\ m = njobs'
<1>0. m \in Created' \ Created
      OBVIOUS
<1>1. ~Quiet
      BY DEF Quiet, Created
<1>2. ASSUME NEW d \in Doc, SubmitUpload(d) PROVE m = njobs'
      BY <1>0, <1>2, SubmitEffect DEF Creation
<1>3. ASSUME NEW d \in Doc, NEW kind \in {"activate", "deactivate", "delete_document"},
             MutateDocument(d, kind)
      PROVE  m = njobs'
  <2>1. Creation(njobs')
        BY <1>3, MutateEffect
  <2> QED BY <1>0, <2>1 DEF Creation
<1>4. ASSUME NEW p \in Person, ErasePerson(p) PROVE m = njobs'
      BY <1>0, <1>4, EraseEffect DEF Creation
<1>5. ASSUME NEW n \in 0 .. (MaxJobs - njobs), NEW f \in Renumberings(n), Claims(n, f)
      PROVE  \E i \in Replaceable : m = f[i]
      BY <1>0, <1>5, ClaimNumbers
<1>6. ASSUME NEW j \in Job, Publish(j) PROVE m = njobs'
      BY <1>0, <1>6, PublishEffect
<1>7. ASSUME NEW j \in Job, Parse(j) \/ Inventory(j) \/ SanitizeDeleted(j) \/ SanitizeErased(j)
      PROVE  FALSE
  <2>1. njobs' = njobs
        BY <1>7, ParseEffect, InventoryEffect, SanitizeDeletedEffect, SanitizeErasedEffect
  <2> QED BY <1>0, <2>1 DEF Created
<1> QED BY <1>1, <1>2, <1>3, <1>4, <1>5, <1>6, <1>7, QuietSteps, ClaimCases DEF Loud

-----------------------------------------------------------------------------
(* One writer for a document. *)

\* What is not there stays empty.
LEMMA AbsentStep ==
    ASSUME TypeOK, Absent, [Next]_vars
    PROVE  Absent'
<1> SUFFICES ASSUME NEW d \in Doc
             PROVE  /\ doc'[d].state \in {"unused", "gone"} => ~doc'[d].raw /\ rec'[d].version = 0
                    /\ rec'[d].version = 0 =>
                          rec'[d].names = {} /\ rec'[d].entry = None /\ ~rec'[d].published
    BY DEF Absent
<1>1. /\ doc[d].state \in {"unused", "gone"} => ~doc[d].raw /\ rec[d].version = 0
      /\ rec[d].version = 0 => rec[d].names = {} /\ rec[d].entry = None /\ ~rec[d].published
      /\ rec[d].version \in Nat
      BY DEF Absent, TypeOK, RecordRow
<1>2. ASSUME NEW j \in Job, SanitizeDeleted(j), d \in job[j].docs
      PROVE  /\ doc'[d].state = "gone" /\ doc'[d].raw = FALSE
             /\ rec'[d].version = 0 /\ rec'[d].names = {}
             /\ rec'[d].entry = None /\ ~rec'[d].published
  <2>1. doc'[d].state = "gone" /\ doc'[d].raw = FALSE /\ rec'[d] = NoRecord
        BY <1>2, SanitizeDeletedEffect
  <2> QED BY <2>1 DEF NoRecord
<1>3. ASSUME NEW j \in Job, SanitizeErased(j), Occurs(job[j].person, d)
      PROVE  rec'[d].version # 0 /\ rec[d].version # 0
  <2>1. rec'[d].version = rec[d].version + 1
        BY <1>3, SanitizeErasedEffect
  <2> QED BY <1>1, <1>3, <2>1 DEF Occurs
<1>4. ASSUME NEW j \in Job, Parse(j), d \in job[j].docs
      PROVE  rec'[d].version # 0 /\ doc[d].raw /\ doc'[d].state = doc[d].state
  <2>1. rec'[d].version = 1 /\ doc[d].raw /\ DocumentSame(d)
        BY <1>4, ParseEffect
  <2> QED BY <2>1 DEF DocumentSame
<1>5. ASSUME NEW j \in Job, Publish(j), Written(j, d)
      PROVE  rec[d].version # 0
      BY <1>5 DEF Written, Current
<1>6. ASSUME doc'[d].state \in {"unused", "gone"},
             ~\E j \in Job : SanitizeDeleted(j) /\ d \in job[j].docs
      PROVE  ~doc'[d].raw /\ rec'[d].version = 0
  <2>1. doc[d].state \in {"unused", "gone"} /\ (doc'[d].raw => doc[d].raw)
        BY <1>6, DocumentStep
  <2> QED BY <1>1, <1>3, <1>4, <1>6, <2>1, RecordStep
<1>7. rec'[d].version = 0 => rec'[d].names = {} /\ rec'[d].entry = None /\ ~rec'[d].published
      BY <1>1, <1>2, <1>3, <1>4, <1>5, RecordStep
<1> QED BY <1>2, <1>6, <1>7

\* The documents of jobs have been submitted.
LEMMA UsedStep ==
    ASSUME TypeOK, Absent, Used, [Next]_vars
    PROVE  Used'
<1> SUFFICES ASSUME NEW m \in Created', NEW d \in job'[m].docs, doc'[d].state = "unused"
             PROVE  FALSE
    BY DEF Used
<1>1. Created' \subseteq Job /\ Created \subseteq Created' /\ \A k \in Created : job'[k].docs = job[k].docs
      BY CreatedTyped, StepRows DEF RowKept
<1>2. d \in Doc
  <2>1. job'[m] \in JobRow
        BY <1>1, TypeStep DEF TypeOK
  <2> QED BY <2>1 DEF JobRow
<1>3. doc[d].state = "unused" /\ rec[d].version = 0
      BY <1>2, DocumentStep DEF Absent
<1>4. CASE m \in Created
      BY <1>1, <1>3, <1>4 DEF Used
<1>5. CASE m \notin Created
  <2>1. ASSUME NEW c \in Doc, SubmitUpload(c), m = njobs' PROVE FALSE
    <3>1. NewRowOf(m, "ingest", {c}, None, "received") /\ doc'[c].state = "live"
          BY <2>1, SubmitEffect
    <3> QED BY <3>1 DEF NewRowOf
  <2>2. ASSUME NEW c \in Doc, NEW kind \in {"activate", "deactivate", "delete_document"},
               MutateDocument(c, kind), m = njobs'
        PROVE  FALSE
    <3>1. NewRowOf(m, kind, {c}, None, InitialStage(kind)) /\ doc[c].state = "live"
          BY <2>2, MutateEffect
    <3> QED BY <1>3, <3>1 DEF NewRowOf
  <2>3. ASSUME NEW p \in Person, ErasePerson(p), m = njobs' PROVE FALSE
    <3>1. job'[m].docs = {c \in Doc : Occurs(p, c)}
          BY <2>3, EraseEffect DEF NewRowOf
    <3> QED BY <1>3, <3>1 DEF Occurs
  <2>4. ASSUME NEW n \in 0 .. (MaxJobs - njobs), NEW f \in Renumberings(n), Claims(n, f),
               NEW i \in Replaceable, m = f[i]
        PROVE  FALSE
    <3>1. i \in Created /\ job'[m].docs = job[i].docs
          BY <2>4, ClaimNumbers, ClaimNewRows DEF Replacement
    <3> QED BY <1>3, <3>1 DEF Used
  <2>5. ASSUME NEW j \in Job, Publish(j), m = njobs' PROVE FALSE
    <3>1. job'[m].docs = {}
          BY <1>5, <2>5, PublishEffect DEF Rebuild, NewRowOf
    <3> QED BY <3>1
  <2> QED BY <1>5, <2>1, <2>2, <2>3, <2>4, <2>5, Newcomers
<1> QED BY <1>4, <1>5

\* At one lifecycle revision at most one unfinished job writes a document.
Writes(j, d) == Uncompleted(j) /\ job[j].life = lifecycle_revision /\ d \in job[j].docs

\* Of two that write a document there is only one.
LEMMA OneWriter ==
    ASSUME OneWriterPerDocument, NEW i \in Created, NEW j \in Created, NEW d,
           Writes(i, d), Writes(j, d)
    PROVE  i = j /\ (job[i].kind = "erase_person" \/ doc[d].latest \in {i, None})
BY DEF OneWriterPerDocument, Writes

\* Nobody writes a document whose fenced job is replaced.
LEMMA ReplacedIdle ==
    ASSUME TypeOK, BarrierExclusive, OneWriterPerDocument, NEW i \in Replaceable,
           NEW d \in job[i].docs, NEW k \in Created
    PROVE  ~Writes(k, d)
<1> SUFFICES ASSUME Writes(k, d) PROVE FALSE
    OBVIOUS
<1>1. doc[d].latest = i /\ ~write_barrier /\ job[i].life # lifecycle_revision /\ i \in Created
      BY DEF Replaceable, Owned, Stale
<1>2. i # None /\ i # k
      BY <1>1, ConstantsAssumption DEF Created, TypeOK, Writes
<1>3. job[k].kind = "erase_person"
      BY <1>1, <1>2, OneWriter
<1>4. OpenCleanup(k)
      BY <1>3 DEF OpenCleanup, Writes, Cleanup
<1> QED BY <1>1, <1>4 DEF BarrierExclusive

\* The invariant OneWriterPerDocument, by who creates jobs and who changes a document's latest.
LEMMA OneWriterStep ==
    ASSUME BarrierInv, Used, OneWriterPerDocument, [Next]_vars
    PROVE  OneWriterPerDocument'
<1> SUFFICES ASSUME NEW i \in Created', NEW j \in Created', NEW d, Writes(i, d)', Writes(j, d)'
             PROVE  i = j /\ (job'[i].kind = "erase_person" \/ doc'[d].latest \in {i, None})
    BY DEF OneWriterPerDocument, Writes
<1>1. TypeOK /\ LifeBounded /\ BarrierExclusive
      BY DEF BarrierInv
<1>2. /\ Created \subseteq Created' /\ Created' \subseteq Job
      /\ \A k \in Created : RowKept(k)
      /\ lifecycle_revision \in Nat /\ lifecycle_revision' >= lifecycle_revision
      BY <1>1, StepRows, CreatedTyped, LifeStep
<1>3. d \in Doc
  <2>1. job'[i] \in JobRow
        BY <1>1, <1>2, TypeStep DEF TypeOK
  <2> QED BY <2>1 DEF JobRow, Writes
<1>4. ASSUME NEW k \in Created, Writes(k, d)'
      PROVE  Writes(k, d) /\ lifecycle_revision' = lifecycle_revision
  <2>1. job'[k].life = job[k].life /\ job'[k].docs = job[k].docs /\ job[k].life <= lifecycle_revision
        /\ job[k].life \in Nat
        BY <1>1, <1>2, JobsTyped DEF RowKept, LifeBounded
  <2>2. Uncompleted(k)
        BY <1>2, <1>4 DEF RowKept, Writes, Uncompleted
  <2>3. job'[k].life = lifecycle_revision' /\ d \in job'[k].docs
        BY <1>4 DEF Writes
  <2>4. lifecycle_revision' = job[k].life /\ d \in job[k].docs
        BY <2>1, <2>3
  <2>5. lifecycle_revision' = lifecycle_revision
        BY <1>2, <2>1, <2>4
  <2> QED BY <2>2, <2>4, <2>5 DEF Writes
<1>5. CASE i \in Created /\ j \in Created
  <2>1. Writes(i, d) /\ Writes(j, d) /\ lifecycle_revision' = lifecycle_revision
        BY <1>4, <1>5
  <2>2. i = j /\ (job[i].kind = "erase_person" \/ doc[d].latest \in {i, None})
        BY <1>5, <2>1, OneWriter
  <2>3. doc[d].state # "unused"
        BY <1>5, <2>1 DEF Used, Writes
  <2>4. ASSUME NEW a \in Replaceable, d \in job[a].docs PROVE FALSE
        BY <1>1, <1>5, <2>1, <2>4, ReplacedIdle
  <2>5. doc'[d].latest \in {doc[d].latest, None}
        BY <1>1, <1>3, <2>1, <2>3, <2>4, DocumentStep DEF TypeOK
  <2>6. job'[i].kind = job[i].kind
        BY <1>2, <1>5 DEF RowKept
  <2> QED BY <2>2, <2>5, <2>6
<1>6. ASSUME NEW m \in Created', m \notin Created, NEW k \in Created', Writes(m, d)', Writes(k, d)'
      PROVE  k = m /\ (job'[m].kind = "erase_person" \/ doc'[d].latest \in {m, None})
  <2>1. ASSUME NEW c \in Doc, SubmitUpload(c), m = njobs'
        PROVE  k = m /\ doc'[d].latest = m
    <3>1. /\ NewRowOf(m, "ingest", {c}, None, "received")
          /\ doc[c].state = "unused" /\ doc'[c].latest = m /\ Creation(m)
          BY <1>1, <2>1, SubmitEffect
    <3>2. d = c
          BY <1>6, <3>1 DEF NewRowOf, Writes
    <3>3. k \notin Created
          BY <1>4, <1>6, <3>1, <3>2 DEF Used, Writes
    <3> QED BY <3>1, <3>2, <3>3 DEF Creation
  <2>2. ASSUME NEW c \in Doc, NEW kind \in {"activate", "deactivate", "delete_document"},
               MutateDocument(c, kind), m = njobs'
        PROVE  k = m /\ doc'[d].latest = m
    <3>1. /\ NewRowOf(m, kind, {c}, None, InitialStage(kind))
          /\ doc'[c].latest = m /\ Creation(m) /\ lifecycle_revision' = lifecycle_revision + 1
          BY <1>1, <2>2, MutateEffect
    <3>2. d = c
          BY <1>6, <3>1 DEF NewRowOf, Writes
    <3>3. k \notin Created
          BY <1>2, <1>4, <1>6, <3>1
    <3> QED BY <1>6, <2>2, <3>1, <3>2, <3>3 DEF Creation
  <2>3. ASSUME NEW p \in Person, ErasePerson(p), m = njobs'
        PROVE  k = m /\ job'[m].kind = "erase_person"
    <3>1. Creation(m) /\ lifecycle_revision' = lifecycle_revision + 1
          /\ job'[m].kind = "erase_person"
          BY <1>1, <2>3, EraseEffect DEF NewRowOf
    <3>2. k \notin Created
          BY <1>2, <1>4, <1>6, <3>1
    <3> QED BY <1>6, <2>3, <3>1, <3>2 DEF Creation
  <2>4. ASSUME NEW n \in 0 .. (MaxJobs - njobs), NEW f \in Renumberings(n), Claims(n, f),
               NEW a \in Replaceable, m = f[a]
        PROVE  k = m /\ doc'[d].latest = m
    <3>1. d \in job[a].docs
          BY <1>1, <1>6, <2>4, ClaimNewRows DEF Replacement, Writes
    <3>2. doc[d].latest = a /\ doc'[d].latest = m
          BY <1>1, <1>3, <2>4, <3>1, ClaimDocs
    <3>3. k \notin Created
          BY <1>1, <1>4, <1>6, <3>1, ReplacedIdle
    <3>4. PICK b \in Replaceable : k = f[b]
          BY <1>1, <1>6, <2>4, <3>3, ClaimNumbers
    <3>5. d \in job[b].docs
          BY <1>1, <1>6, <2>4, <3>4, ClaimNewRows DEF Replacement, Writes
    <3>6. doc[d].latest = b
          BY <1>1, <1>3, <2>4, <3>5, ClaimDocs
    <3> QED BY <2>4, <3>2, <3>4, <3>6
  <2>5. ASSUME NEW a \in Job, Publish(a), m = njobs' PROVE FALSE
    <3>1. job'[m].docs = {}
          BY <1>1, <1>6, <2>5, PublishEffect DEF Rebuild, NewRowOf
    <3> QED BY <1>6, <3>1 DEF Writes
  <2> QED BY <1>1, <1>6, <2>1, <2>2, <2>3, <2>4, <2>5, Newcomers
<1> QED BY <1>5, <1>6

-----------------------------------------------------------------------------
(* What an erasure forgets. *)

\* Nothing is created while a cleanup is open.
LEMMA CleanupLastStep ==
    ASSUME BarrierInv, CleanupLast, [Next]_vars
    PROVE  CleanupLast'
<1> SUFFICES ASSUME NEW k \in Created', OpenCleanup(k)', NEW i \in Created'
             PROVE  i <= k
    BY DEF CleanupLast
<1>1. TypeOK /\ BarrierExclusive
      BY DEF BarrierInv
<1>2. njobs \in Nat /\ njobs' \in Nat
      BY <1>1, TypeStep DEF TypeOK
<1>3. CASE k \in Created
  <2>1. OpenCleanup(k) /\ write_barrier
        BY <1>1, <1>3, OpenKept DEF BarrierExclusive
  <2>2. ASSUME NEW j \in Created, Publish(j), OpenCleanup(j) PROVE FALSE
    <3>1. j = k
          BY <1>1, <1>3, <2>1, <2>2 DEF BarrierExclusive
    <3>2. job'[k].state = "completed"
          BY <1>1, <2>2, <3>1, PublishRows, JobsTyped
    <3> QED BY <3>2 DEF OpenCleanup, Uncompleted
  <2>3. Created' = Created
        BY <1>1, <2>1, <2>2, NothingCreated
  <2> QED BY <1>3, <2>1, <2>3 DEF CleanupLast
<1>4. CASE k \notin Created
  <2>1. Created' = Created \cup {k}
        BY <1>1, <1>4, NewCleanup DEF OpenCleanup
  <2> QED BY <1>2, <1>4, <2>1 DEF Created
<1> QED BY <1>3, <1>4

\* No erasure is past sanitizing without having sanitized.
LEMMA SanitizedBy ==
    ASSUME TypeOK, [Next]_vars, NEW j \in Created', Erases(j, Sanitized)'
    PROVE  j \in Created /\ (Erases(j, Sanitized) \/ SanitizeErased(j))
<1>1. j \in Created
      BY NewCleanup DEF Erases, Sanitized, At, Cleanup
<1>2. job[j].kind = "erase_person" /\ job'[j].stage \in Sanitized
      BY <1>1, StepRows DEF RowKept, Erases, At
<1>3. StagesInOrder(j)
      BY <1>1, <1>2, CleanupStages DEF Cleanup
<1>4. ~SanitizeDeleted(j)
      BY <1>2 DEF SanitizeDeleted, At
<1> QED BY <1>1, <1>2, <1>3, <1>4 DEF StagesInOrder, StageKept, Erases, At, Sanitized

\* An erasure stops the ingestions it finds, and later ones are of other documents.
LEMMA StoppedStep ==
    ASSUME TypeOK, Used, CleanupLast, Stopped, [Next]_vars
    PROVE  Stopped'
<1> SUFFICES ASSUME NEW j \in Created', Erases(j, Sanitized)',
                    NEW k \in Created', job'[k].kind = "ingest"
             PROVE  /\ k < j => job'[k].state = "completed" \/ work'[k].forbidden
                    /\ k > j => \A i \in 1 .. (j - 1) : job'[i].docs \cap job'[k].docs = {}
    BY DEF Stopped
<1>1. j \in Created /\ (Erases(j, Sanitized) \/ SanitizeErased(j))
      BY SanitizedBy
<1>2. /\ Created \subseteq Created' /\ Created \subseteq Job /\ Created' \subseteq Job
      /\ \A i \in Created : RowKept(i)
      /\ \A i \in 1 .. (j - 1) : i \in Created
      /\ \A m \in Created' : m \notin Created => m > j
      /\ j \in Nat /\ k \in Nat
      BY <1>1, StepRows, JobsTyped, CreatedTyped DEF Created, Job, TypeOK
<1>3. CASE Erases(j, Sanitized) /\ k \in Created
  <2>1. /\ k < j => job[k].state = "completed" \/ work[k].forbidden
        /\ k > j => \A i \in 1 .. (j - 1) : job[i].docs \cap job[k].docs = {}
    <3>1. job[k].kind = "ingest"
          BY <1>2, <1>3 DEF RowKept
    <3> QED BY <1>1, <1>3, <3>1 DEF Stopped
  <2>2. work[k].forbidden => work'[k].forbidden
        BY <1>3, PlanStep
  <2> QED BY <1>2, <1>3, <2>1, <2>2 DEF RowKept
<1>4. CASE Erases(j, Sanitized) /\ k \notin Created
  <2> SUFFICES ASSUME NEW i \in 1 .. (j - 1), NEW d \in job[i].docs, d \in job'[k].docs
               PROVE  FALSE
      BY <1>2, <1>4 DEF RowKept
  <2>1. i \in Created /\ i \in Job
        BY <1>2
  <2>2. ASSUME NEW c \in Doc, SubmitUpload(c), k = njobs' PROVE FALSE
    <3>1. NewRowOf(k, "ingest", {c}, None, "received") /\ doc[c].state = "unused"
          BY <2>2, SubmitEffect
    <3> QED BY <2>1, <3>1 DEF NewRowOf, Used
  <2>3. ASSUME NEW c \in Doc, NEW kind \in {"activate", "deactivate", "delete_document"},
               MutateDocument(c, kind), k = njobs'
        PROVE  FALSE
    <3>1. NewRowOf(k, kind, {c}, None, InitialStage(kind))
          BY <2>3, MutateEffect
    <3> QED BY <3>1 DEF NewRowOf
  <2>4. ASSUME NEW p \in Person, ErasePerson(p), k = njobs' PROVE FALSE
    <3>1. NewRowOf(k, "erase_person", {c \in Doc : Occurs(p, c)}, p, "invalidating")
          BY <2>4, EraseEffect
    <3> QED BY <3>1 DEF NewRowOf
  <2>5. ASSUME NEW n \in 0 .. (MaxJobs - njobs), NEW f \in Renumberings(n), Claims(n, f),
               NEW a \in Replaceable, k = f[a]
        PROVE  FALSE
    <3>1. Replacement(k, a) /\ a \in Created
          BY <2>5, ClaimNewRows, ClaimNumbers
    <3>2. job[a].kind = "ingest" /\ job[a].docs = job'[k].docs
          BY <3>1 DEF Replacement
    <3>3. job[a].state # "completed" /\ ~work[a].forbidden
          BY DEF Replaceable, Stale, Uncompleted, MayReplace
    <3>4. a # j /\ a \in Nat
          BY <1>2, <1>4, <3>1, <3>2 DEF Erases, At, Created
    <3>5. a > j
          BY <1>1, <1>2, <1>4, <3>1, <3>2, <3>3, <3>4 DEF Stopped
    <3> QED BY <1>1, <1>4, <3>1, <3>2, <3>5 DEF Stopped
  <2>6. ASSUME NEW a \in Job, Publish(a), k = njobs' PROVE FALSE
    <3>1. Rebuild(k)
          BY <1>4, <2>6, PublishEffect
    <3> QED BY <3>1 DEF Rebuild, NewRowOf
  <2> QED BY <1>4, <2>2, <2>3, <2>4, <2>5, <2>6, Newcomers
<1>5. CASE SanitizeErased(j)
  <2>1. Created' = Created /\ Working(j)
        BY <1>5 DEF SanitizeErased, Created, Ready
  <2>2. OpenCleanup(j)
        BY <1>1, <1>5, <2>1 DEF SanitizeErased, At, OpenCleanup, Working, Uncompleted, Cleanup
  <2>3. ~(k > j)
        BY <1>1, <1>2, <2>1, <2>2 DEF CleanupLast
  <2>4. job[k].state = "completed" => job'[k].state = "completed"
        BY <1>2, <2>1 DEF RowKept
  <2>5. ASSUME job[k].state # "completed" PROVE work'[k].forbidden
    <3>1. k \in Ingests /\ j \in Job
          BY <1>1, <1>2, <2>1, <2>5 DEF Ingests, RowKept, Uncompleted
    <3> QED BY <1>5, <3>1, SanitizeErasedEffect
  <2> QED BY <2>3, <2>4, <2>5
<1> QED BY <1>1, <1>3, <1>4, <1>5

\* A job starts unreplaced, allowed to resume, and with nothing removed yet.
LEMMA NewPlans ==
    ASSUME TypeOK, [Next]_vars, NEW m \in Created', m \notin Created
    PROVE  /\ work'[m].successor = None /\ work'[m].forbidden = FALSE /\ work'[m].cleaned = FALSE
<1>1. ASSUME NEW d \in Doc, SubmitUpload(d), m = njobs'
      PROVE  \E refs, removals : NewPlanOf(m, refs, removals)
      BY <1>1, SubmitEffect
<1>2. ASSUME NEW d \in Doc, NEW kind \in {"activate", "deactivate", "delete_document"},
             MutateDocument(d, kind), m = njobs'
      PROVE  \E refs, removals : NewPlanOf(m, refs, removals)
      BY <1>2, MutateEffect
<1>3. ASSUME NEW p \in Person, ErasePerson(p), m = njobs'
      PROVE  \E refs, removals : NewPlanOf(m, refs, removals)
      BY <1>3, EraseEffect
<1>4. ASSUME NEW n \in 0 .. (MaxJobs - njobs), NEW f \in Renumberings(n), Claims(n, f),
             NEW a \in Replaceable, m = f[a]
      PROVE  \E refs, removals : NewPlanOf(m, refs, removals)
      BY <1>4, ClaimNewPlans
<1>5. ASSUME NEW j \in Job, Publish(j), m = njobs'
      PROVE  \E refs, removals : NewPlanOf(m, refs, removals)
      BY <1>5, PublishEffect DEF Rebuild
<1>6. \E refs, removals : NewPlanOf(m, refs, removals)
      BY <1>1, <1>2, <1>3, <1>4, <1>5, Newcomers
<1> QED BY <1>6 DEF NewPlanOf

\* A forbidden job never works again.
LEMMA ForbiddenFencedStep ==
    ASSUME BarrierInv, ForbiddenFenced, [Next]_vars
    PROVE  ForbiddenFenced'
<1> SUFFICES ASSUME NEW k \in Created', work'[k].forbidden
             PROVE  job'[k].life < lifecycle_revision'
    BY DEF ForbiddenFenced
<1>1. TypeOK /\ LifeBounded /\ BarrierExclusive
      BY DEF BarrierInv
<1>2. k \in Created
      BY <1>1, NewPlans
<1>3. /\ job'[k].life = job[k].life /\ job[k].life \in Nat
      /\ lifecycle_revision \in Nat /\ lifecycle_revision' \in Nat
      /\ lifecycle_revision' >= lifecycle_revision
      BY <1>1, <1>2, StepRows, JobsTyped, LifeStep, TypeStep DEF RowKept, TypeOK
<1>4. CASE work[k].forbidden
      BY <1>2, <1>3, <1>4 DEF ForbiddenFenced
<1>5. ASSUME NEW j \in Job, SanitizeErased(j), k \in Ingests
      PROVE  job[k].life < lifecycle_revision
  <2>1. Working(j) /\ job[j].kind = "erase_person"
        BY <1>5 DEF SanitizeErased, Ready, At
  <2>2. OpenCleanup(j) /\ k # j
        BY <1>1, <1>5, <2>1, WorkingRow DEF OpenCleanup, Working, Uncompleted, Ingests, Cleanup
  <2>3. write_barrier
        BY <1>1, <2>2 DEF BarrierExclusive, OpenCleanup
  <2>4. PICK b \in Created : \A i \in Created \ {b} :
           ~OpenCleanup(i) /\ (Uncompleted(i) => job[i].life < lifecycle_revision)
        BY <1>1, <2>3 DEF BarrierExclusive
  <2>5. j = b
        BY <2>2, <2>4 DEF OpenCleanup
  <2>6. k \in Created \ {b} /\ Uncompleted(k)
        BY <1>2, <1>5, <2>2, <2>5 DEF Ingests
  <2> QED BY <2>4, <2>6
<1>6. work[k].forbidden \/ (k \in Ingests /\ \E j \in Job : SanitizeErased(j))
      BY <1>1, <1>2, PlanStep
<1>7. ASSUME NEW j \in Job, SanitizeErased(j), k \in Ingests
      PROVE  job'[k].life < lifecycle_revision'
  <2>1. job[k].life < lifecycle_revision
        BY <1>5, <1>7
  <2> QED BY <1>3, <2>1
<1> QED BY <1>4, <1>6, <1>7

\* A document of a job older than an erasure is not parsed once that has sanitized.
LEMMA NothingParsed ==
    ASSUME TypeOK, Stopped, ForbiddenFenced, NEW j \in Created, Erases(j, Sanitized),
           NEW i \in 1 .. (j - 1), NEW d \in job[i].docs, NEW a \in Job, Parse(a)
    PROVE  d \notin job[a].docs
<1> SUFFICES ASSUME d \in job[a].docs PROVE FALSE
    OBVIOUS
<1>1. Working(a) /\ job[a].kind = "ingest"
      BY DEF Parse, Ready, At
<1>2. a \in Created /\ a \in Nat /\ j \in Nat /\ a # j /\ lifecycle_revision \in Nat
      BY <1>1, WorkingRow DEF Created, TypeOK, Erases, At
<1>3. job[a].state # "completed" /\ job[a].life = lifecycle_revision
      BY <1>1 DEF Working
<1>4. a > j
      BY <1>1, <1>2, <1>3 DEF Stopped, ForbiddenFenced
<1> QED BY <1>1, <1>2, <1>4 DEF Stopped

\* A completed erasure stays: nobody writes the names of an older upload again.
LEMMA ErasedForgottenStep ==
    ASSUME TypeOK, FinishedClean, Absent, Stopped, ForbiddenFenced, ErasedForgotten, [Next]_vars
    PROVE  ErasedForgotten'
<1> SUFFICES ASSUME NEW j \in Created', job'[j].kind = "erase_person", job'[j].state = "completed",
                    NEW i \in 1 .. (j - 1), NEW d \in job'[i].docs
             PROVE  job'[j].person \notin rec'[d].names
    BY DEF ErasedForgotten
<1>1. j \in Created
      BY NewCleanup DEF Cleanup
<1>2. i \in Created /\ i \in Job /\ j \in Job
      BY <1>1, JobsTyped DEF Created, TypeOK
<1>3. /\ job[j].kind = "erase_person" /\ job'[j].person = job[j].person
      /\ d \in job[i].docs /\ d \in Doc
      /\ Uncompleted(j) => Publish(j)
      BY <1>1, <1>2, StepRows, JobsTyped DEF RowKept, StillOpen
<1>4. CASE Publish(j)
  <2>1. rec'[d].names = rec[d].names
        BY <1>2, <1>3, <1>4, PublishRecords
  <2>2. ~Occurs(job[j].person, d)
        BY <1>3, <1>4 DEF Publish
  <2> QED BY <1>3, <2>1, <2>2 DEF Occurs, Absent
<1>5. CASE ~Uncompleted(j)
  <2>1. Erases(j, Sanitized)
        BY <1>1, <1>3, <1>5 DEF FinishedClean, Erases, At, Sanitized, Uncompleted, Cleanup
  <2>2. job[j].person \notin rec[d].names
        BY <1>1, <1>3, <1>5 DEF ErasedForgotten, Uncompleted
  <2>3. ASSUME NEW a \in Job, Parse(a), d \in job[a].docs PROVE FALSE
        BY <1>1, <1>3, <2>1, <2>3, NothingParsed
  <2>4. ASSUME NEW a \in Job, SanitizeDeleted(a), d \in job[a].docs PROVE rec'[d].names = {}
    <3>1. rec'[d] = NoRecord
          BY <1>3, <2>4, SanitizeDeletedEffect
    <3> QED BY <3>1 DEF NoRecord
  <2>5. ASSUME NEW a \in Job, SanitizeErased(a), Occurs(job[a].person, d)
        PROVE  rec'[d].names = rec[d].names \ {job[a].person}
        BY <1>3, <2>5, SanitizeErasedEffect
  <2> QED BY <1>3, <2>2, <2>3, <2>4, <2>5, RecordStep
<1> QED BY <1>3, <1>4, <1>5

-----------------------------------------------------------------------------
(* What a replacement removes. *)

\* A replacement is of the same kind and documents, and the job it replaces is fenced.
LEMMA SuccessorsStep ==
    ASSUME TypeOK, LifeBounded, Successors, [Next]_vars
    PROVE  Successors'
<1> SUFFICES ASSUME NEW i \in Created', NEW k, work'[i].successor = k, k # None
             PROVE  Replaces(k, i)'
    BY DEF Successors
<1>1. i \in Created
      BY NewPlans
<1>2. /\ Created \subseteq Created' /\ \A j \in Created : RowKept(j)
      /\ job[i].life \in Nat /\ lifecycle_revision \in Nat /\ lifecycle_revision' \in Nat
      /\ lifecycle_revision' >= lifecycle_revision
      BY <1>1, StepRows, JobsTyped, LifeStep, TypeStep DEF TypeOK
<1>3. CASE k = work[i].successor
  <2>1. Replaces(k, i)
        BY <1>1, <1>3 DEF Successors
  <2> QED BY <1>1, <1>2, <2>1 DEF Replaces, RowKept
<1>4. ASSUME NEW n \in 0 .. (MaxJobs - njobs), NEW f \in Renumberings(n), Claims(n, f),
             i \in Replaceable, k = f[i]
      PROVE  Replaces(k, i)'
  <2>1. k \in Created' /\ i < k /\ Replacement(k, i)
        BY <1>4, ClaimNumbers, ClaimNewRows
  <2>2. job[i].life < lifecycle_revision /\ job[i].kind \in {"ingest", "activate", "deactivate"}
        BY <1>1, <1>2, <1>4 DEF Replaceable, Stale, LifeBounded
  <2>3. job'[i].life = job[i].life /\ job'[i].kind = job[i].kind /\ job'[i].docs = job[i].docs
        BY <1>1, <1>2 DEF RowKept
  <2> QED BY <1>2, <2>1, <2>2, <2>3 DEF Replaces, Replacement
<1> QED BY <1>1, <1>3, <1>4, PlanStep

\* The job that was replaced writes nothing more.
LEMMA InheritedStep ==
    ASSUME TypeOK, LifeBounded, Successors, Inherited, [Next]_vars
    PROVE  Inherited'
<1> SUFFICES ASSUME NEW i \in Created', work'[i].successor # None,
                    NEW d \in Doc, op'[i][d] # "none"
             PROVE  entry'[i][d] \in work'[work'[i].successor].removals
    BY DEF Inherited
<1>1. i \in Created /\ i \in Job /\ d \in Slot
      BY NewPlans, JobsTyped
<1>2. ASSUME job[i].life # lifecycle_revision
      PROVE  op[i][d] # "none" /\ entry'[i][d] = entry[i][d]
  <2>1. ~Prepare(i, d)
        BY <1>1, <1>2, PreparedByWorker
  <2> QED BY <1>1, <2>1, LedgerKept
<1>3. CASE work'[i].successor = work[i].successor
  <2> DEFINE k == work[i].successor
  <2>1. Replaces(k, i)
        BY <1>1, <1>3 DEF Successors
  <2>2. job[i].life # lifecycle_revision /\ k \in Created /\ job[k].kind \notin Cleanup
        BY <1>1, <2>1, JobsTyped DEF Replaces, Cleanup
  <2>3. ~Inventory(k)
        BY <2>2 DEF Inventory, At
  <2>4. work'[k].removals = work[k].removals
        BY <2>2, <2>3, PlanStep
  <2>5. entry[i][d] \in work[k].removals
        BY <1>1, <1>2, <1>3, <2>2 DEF Inherited
  <2> QED BY <1>2, <1>3, <2>2, <2>4, <2>5
<1>4. ASSUME NEW n \in 0 .. (MaxJobs - njobs), NEW f \in Renumberings(n), Claims(n, f),
             i \in Replaceable, work'[i].successor = f[i]
      PROVE  entry'[i][d] \in work'[work'[i].successor].removals
  <2>1. work'[f[i]].removals = work[i].removals \cup Upserted(i)
    <3>1. NewPlanOf(f[i], work[i].refs, work[i].removals \cup Upserted(i))
          BY <1>4, ClaimNewPlans
    <3> QED BY <3>1 DEF NewPlanOf
  <2>2. job[i].life # lifecycle_revision
        BY <1>4 DEF Replaceable, Stale
  <2>3. entry[i][d] \in Upserted(i)
        BY <1>2, <2>2 DEF Upserted
  <2> QED BY <1>2, <1>4, <2>1, <2>2, <2>3
<1> QED BY <1>1, <1>3, <1>4, PlanStep

\* Only run_once's own report says that the obsolete entries are gone.
LEMMA CleanedBy ==
    ASSUME TypeOK, [Next]_vars, NEW k \in Created, work'[k].cleaned
    PROVE  work[k].cleaned \/ ObsoleteIndexRemoved(k)
<1>0. /\ k \in Job /\ Created \subseteq Job
      /\ work \in [Job -> WorkRow] /\ work[k] \in WorkRow
      BY JobsTyped DEF TypeOK
<1>1. ASSUME work' = work PROVE work[k].cleaned
      BY <1>1
<1>2. ASSUME work' = Invalidated(work) PROVE work[k].cleaned
      BY <1>0, <1>2, InvalidatedSame
<1>3. ASSUME NEW w, njobs < MaxJobs, njobs' = njobs + 1,
             work' = [Invalidated(work) EXCEPT ![njobs'] = w]
      PROVE  work[k].cleaned
  <2>1. njobs' \in Job /\ njobs' \notin Created
        BY <1>3, NewNumber
  <2> QED BY <1>0, <1>3, <2>1, CreatedPlans
<1>4. CASE Admin
  <2>1. ASSUME NEW d \in Doc, SubmitUpload(d) PROVE work[k].cleaned
    <3>1. work' = [work EXCEPT ![njobs'] = NewWork(NoRefs, {}, FALSE)]
          BY <2>1 DEF SubmitUpload
    <3>2. k # njobs'
          BY <2>1, NewNumber DEF SubmitUpload
    <3> QED BY <1>0, <3>1, <3>2
  <2>2. ASSUME NEW d \in Doc, NEW kind, MutateDocument(d, kind) PROVE work[k].cleaned
        BY <1>3, <2>2 DEF MutateDocument
  <2>3. ASSUME NEW p \in Person, ErasePerson(p) PROVE work[k].cleaned
        BY <1>3, <2>3 DEF ErasePerson
  <2>4. ASSUME NEW p \in Person, AssociatePerson(p) PROVE work[k].cleaned
        BY <1>2, <2>4 DEF AssociatePerson
  <2>5. ASSUME NEW j \in Job, RetryJob(j) PROVE work[k].cleaned
        BY <1>1, <2>5 DEF RetryJob
  <2> QED BY <1>4, <2>1, <2>2, <2>3, <2>4, <2>5 DEF Admin
<1>5. CASE Claim
      BY <1>5, ClaimCases, ClaimOldPlans
<1>6. ASSUME NEW j \in Job, Worker(j) PROVE work[k].cleaned \/ ObsoleteIndexRemoved(k)
  <2>1. CASE Parse(j)
    <3>1. PICK refs : work' = [work EXCEPT ![j].refs = refs]
          BY <2>1 DEF Parse
    <3>2. work'[k] = work[k] \/ work'[k] = [work[k] EXCEPT !.refs = refs]
          BY <1>0, <3>1
    <3> QED BY <1>0, <3>2 DEF WorkRow
  <2>2. CASE Inventory(j)
    <3>1. PICK removals : work' = [work EXCEPT ![j].removals = removals]
          BY <2>2 DEF Inventory
    <3>2. work'[k] = work[k] \/ work'[k] = [work[k] EXCEPT !.removals = removals]
          BY <1>0, <3>1
    <3> QED BY <1>0, <3>2 DEF WorkRow
  <2>3. CASE SanitizeErased(j)
    <3>1. \/ work'[k] = work[k]
          \/ work'[k] = [work[k] EXCEPT !.forbidden = TRUE]
          \/ \E refs : work'[k] = [work[k] EXCEPT !.refs = refs]
          BY <1>0, <2>3 DEF SanitizeErased
    <3> QED BY <1>0, <3>1 DEF WorkRow
  <2>4. CASE ObsoleteIndexRemoved(j)
    <3>1. work' = [work EXCEPT ![j].cleaned = TRUE]
          BY <2>4 DEF ObsoleteIndexRemoved
    <3>2. k # j => work'[k] = work[k]
          BY <1>0, <3>1
    <3> QED BY <2>4, <3>2
  <2>5. CASE Publish(j)
    <3> DEFINE eligible == IF job[j].kind \in {"ingest", "activate", "erase_person", "deactivate"}
                           THEN Eligible(j, Published(j)) ELSE {}
               created == IF eligible = {} THEN 0 ELSE 1
    <3>1. /\ work' = PublishedWork(j, eligible)
          /\ njobs + created <= MaxJobs /\ njobs' = njobs + created
          BY <2>5 DEF Publish
    <3>2. njobs \in Nat /\ MaxJobs \in Nat
          BY ConstantsAssumption DEF TypeOK
    <3> HIDE DEF eligible
    <3>3. \/ work' = work \/ work' = Invalidated(work)
          \/ /\ eligible # {}
             /\ \E w : work' = [Invalidated(work) EXCEPT ![njobs + 1] = w]
          BY <3>1 DEF PublishedWork
    <3>4. ASSUME eligible # {} PROVE njobs' = njobs + 1 /\ njobs < MaxJobs
          BY <3>1, <3>2, <3>4
    <3> QED BY <1>1, <1>2, <1>3, <3>3, <3>4
  <2>6. CASE \/ PrivacyReady(j) \/ PrivacyUnresolved(j) \/ Invalidating(j) \/ Drain(j)
             \/ SanitizeDeleted(j) \/ Advance(j)
        BY <1>1, <2>6 DEF PrivacyReady, PrivacyUnresolved, Invalidating, Drain, SanitizeDeleted, Advance
  <2>7. CASE \/ \E d \in Doc : StageArtifacts(j, d)
             \/ \E x \in Slot : Prepare(j, x) \/ Start(j, x)
             \/ \E code \in Codes : Fail(j, code)
        BY <1>1, <2>7 DEF StageArtifacts, Prepare, Start, Fail
  <2> QED BY <1>6, <2>1, <2>2, <2>3, <2>4, <2>5, <2>6, <2>7 DEF Worker
<1>7. CASE (\E j \in Job : Expire(j)) \/ Network \/ UNCHANGED vars
      BY <1>1, <1>7 DEF Expire, Network, Report, vars
<1> QED BY <1>4, <1>5, <1>6, <1>7 DEF Next

\* A job starts unfinished, and at the first stage of its kind unless it is an ingestion.
LEMMA NewRows ==
    ASSUME TypeOK, [Next]_vars, NEW m \in Created', m \notin Created
    PROVE  /\ job'[m].state \in {"pending", "running"}
           /\ job'[m].kind # "ingest" => job'[m].stage = InitialStage(job'[m].kind)
<1>1. ASSUME NEW d \in Doc, SubmitUpload(d), m = njobs'
      PROVE  job'[m].state = "pending" /\ job'[m].kind = "ingest"
  <2>1. NewRowOf(m, "ingest", {d}, None, "received")
        BY <1>1, SubmitEffect
  <2> QED BY <2>1 DEF NewRowOf
<1>2. ASSUME NEW d \in Doc, NEW kind \in {"activate", "deactivate", "delete_document"},
             MutateDocument(d, kind), m = njobs'
      PROVE  job'[m].state = "pending" /\ job'[m].stage = InitialStage(job'[m].kind)
  <2>1. NewRowOf(m, kind, {d}, None, InitialStage(kind))
        BY <1>2, MutateEffect
  <2> QED BY <2>1 DEF NewRowOf
<1>3. ASSUME NEW p \in Person, ErasePerson(p), m = njobs'
      PROVE  job'[m].state = "pending" /\ job'[m].stage = InitialStage(job'[m].kind)
  <2>1. NewRowOf(m, "erase_person", {d \in Doc : Occurs(p, d)}, p, "invalidating")
        BY <1>3, EraseEffect
  <2>2. InitialStage("erase_person") = "invalidating"
        BY DEF InitialStage, Sequence, CleanupSequence, Kind, Cleanup
  <2> QED BY <2>1, <2>2 DEF NewRowOf
<1>4. ASSUME NEW n \in 0 .. (MaxJobs - njobs), NEW f \in Renumberings(n), Claims(n, f),
             NEW a \in Replaceable, m = f[a]
      PROVE  /\ job'[m].state \in {"pending", "running"}
             /\ job'[m].kind # "ingest" => job'[m].stage = InitialStage(job'[m].kind)
  <2>1. Replacement(m, a)
        BY <1>4, ClaimNewRows
  <2> QED BY <2>1 DEF Replacement, ResumedStage
<1>5. ASSUME NEW j \in Job, Publish(j), m = njobs'
      PROVE  job'[m].state = "pending" /\ job'[m].stage = InitialStage(job'[m].kind)
  <2>1. Rebuild(m)
        BY <1>5, PublishEffect
  <2>2. InitialStage("rebuild_aggregate") = "received"
        BY DEF InitialStage, Sequence, Kind, Cleanup
  <2> QED BY <2>1, <2>2 DEF Rebuild, NewRowOf
<1> QED BY <1>1, <1>2, <1>3, <1>4, <1>5, Newcomers

\* The stages of a deactivation.
LEMMA DeactivateSequence ==
    /\ Sequence["deactivate"] = <<"invalidating", "rebuilding", "verifying", "done">>
    /\ InitialStage("deactivate") = "invalidating"
BY DEF Sequence, CleanupSequence, Kind, Cleanup, InitialStage

\* What may follow what in a deactivation.
LEMMA DeactivateStages ==
    ASSUME TypeOK, [Next]_vars, NEW k \in Created, job[k].kind = "deactivate"
    PROVE  \/ StageKept(k)
           \/ Advance(k) /\ job[k].stage = "invalidating" /\ job'[k].stage = "rebuilding"
           \/ Advance(k) /\ job[k].stage = "rebuilding" /\ job'[k].stage = "verifying"
           \/ Publish(k) /\ job[k].stage = "verifying" /\ job'[k].stage = "done"
<1>1. Sequence["deactivate"] = <<"invalidating", "rebuilding", "verifying", "done">>
      BY DeactivateSequence
<1>2. k \in Job
      BY JobsTyped
<1>3. ASSUME Advance(k)
      PROVE  \/ job[k].stage = "invalidating" /\ job'[k].stage = "rebuilding"
             \/ job[k].stage = "rebuilding" /\ job'[k].stage = "verifying"
  <2>1. Len(Sequence["deactivate"]) - 2 = 2
        BY <1>1
  <2>2. PICK i \in 1 .. 2 : /\ Sequence["deactivate"][i] = job[k].stage
                            /\ job' = [job EXCEPT ![k].stage = Sequence["deactivate"][i + 1]]
        BY <1>3, <2>1 DEF Advance
  <2>3. job'[k].stage = Sequence["deactivate"][i + 1]
        BY <1>2, <2>2, StageSet
  <2>4. i = 1 \/ i = 2
        BY <2>2
  <2> QED BY <1>1, <2>2, <2>3, <2>4
<1>4. ASSUME Publish(k) PROVE job[k].stage = "verifying" /\ job'[k].stage = "done"
  <2>1. Len(Sequence["deactivate"]) = 4
        BY <1>1
  <2>2. Sequence["deactivate"][3] = job[k].stage
    <3>1. Penultimate(k)
          BY <1>2, <1>4, PublishEffect
    <3>2. 4 - 1 = 3
          OBVIOUS
    <3> QED BY <2>1, <3>1, <3>2 DEF Penultimate
  <2>3. job'[k].stage = Sequence["deactivate"][4]
        BY <1>2, <1>4, <2>1, PublishedRow
  <2> QED BY <1>1, <2>2, <2>3
<1>5. ~(Parse(k) \/ PrivacyReady(k) \/ Invalidating(k) \/ Inventory(k) \/ Drain(k)
        \/ SanitizeDeleted(k) \/ SanitizeErased(k))
      BY DEF Parse, PrivacyReady, Invalidating, Inventory, Drain, SanitizeDeleted, SanitizeErased,
             At, Cleanup
<1> QED BY <1>3, <1>4, <1>5, StageMovedBy DEF MovesStage

\* Whoever replaces a job, and every deactivation, completes with its removals acknowledged.
LEMMA CleanedStep ==
    ASSUME TypeOK, Cleaned, [Next]_vars
    PROVE  Cleaned'
<1> SUFFICES ASSUME NEW k \in Created'
             PROVE  /\ work'[k].cleaned => op'[k]["remove"] = "succeeded"
                    /\ /\ work'[k].removals # {}
                       /\ \/ job'[k].kind \in {"ingest", "activate"} /\ job'[k].state = "completed"
                          \/ At(k, {"deactivate"}, {"verifying", "done"})'
                       => op'[k]["remove"] = "succeeded"
                    /\ job'[k].kind = "deactivate" /\ job'[k].state = "completed" =>
                          job'[k].stage = "done"
    BY DEF Cleaned
<1>1. CASE k \notin Created
  <2>1. ~work'[k].cleaned
        BY <1>1, NewPlans
  <2>2. InitialStage("deactivate") = "invalidating"
        BY DeactivateSequence
  <2>3. /\ job'[k].state \in {"pending", "running"}
        /\ job'[k].kind # "ingest" => job'[k].stage = InitialStage(job'[k].kind)
        BY <1>1, NewRows
  <2> QED BY <2>1, <2>2, <2>3 DEF At
<1>2. CASE k \in Created
  <2>1. /\ k \in Job /\ "remove" \in Slot
        /\ op[k]["remove"] = "succeeded" => op'[k]["remove"] = "succeeded"
        BY <1>2, JobsTyped, LedgerKept
  <2>2. RowKept(k) /\ (StillOpen(k) \/ Publish(k))
        BY <1>2, StepRows
  <2>3. job'[k].kind = job[k].kind
        BY <2>2 DEF RowKept
  <2>4. work'[k].cleaned => op'[k]["remove"] = "succeeded"
    <3>1. ASSUME work[k].cleaned PROVE op'[k]["remove"] = "succeeded"
          BY <1>2, <2>1, <3>1 DEF Cleaned
    <3>2. ASSUME ObsoleteIndexRemoved(k) PROVE op'[k]["remove"] = "succeeded"
          BY <2>1, <3>2 DEF ObsoleteIndexRemoved, Removed
    <3> QED BY <1>2, <3>1, <3>2, CleanedBy
  <2>5. job[k].kind \notin Cleanup => work'[k].removals = work[k].removals
        BY <1>2, PlanStep DEF Inventory, At
  <2>6. ASSUME work'[k].removals # {}, job'[k].kind \in {"ingest", "activate"},
               job'[k].state = "completed"
        PROVE  op'[k]["remove"] = "succeeded"
    <3>1. work[k].removals # {} /\ job[k].kind \in {"ingest", "activate"}
          BY <2>3, <2>5, <2>6 DEF Cleanup
    <3>2. CASE job[k].state = "completed"
          BY <1>2, <2>1, <3>1, <3>2 DEF Cleaned
    <3>3. CASE job[k].state # "completed"
      <4>1. Ready(k)
            BY <2>1, <2>2, <2>6, <3>3, PublishEffect DEF StillOpen, Uncompleted
      <4> QED BY <1>2, <2>1, <3>1, <4>1 DEF Ready, Cleaned
    <3> QED BY <3>2, <3>3
  <2>7. ASSUME job'[k].kind = "deactivate"
        PROVE  /\ /\ work'[k].removals # {} /\ job'[k].stage \in {"verifying", "done"}
                  => op'[k]["remove"] = "succeeded"
               /\ job'[k].state = "completed" => job'[k].stage = "done"
    <3>1. work'[k].removals = work[k].removals /\ job[k].kind = "deactivate"
          BY <2>3, <2>5, <2>7 DEF Cleanup
    <3>2. ASSUME work[k].removals # {}, job[k].stage \in {"verifying", "done"}
          PROVE  op'[k]["remove"] = "succeeded"
          BY <1>2, <2>1, <3>1, <3>2 DEF Cleaned, At
    <3>3. ASSUME work[k].removals # {}, Advance(k), job[k].stage = "rebuilding"
          PROVE  op'[k]["remove"] = "succeeded"
          BY <2>1, <3>1, <3>3 DEF Advance, StepDone, Removing, Removed, At
    <3>4. work[k].removals # {} /\ job'[k].stage \in {"verifying", "done"}
             => op'[k]["remove"] = "succeeded"
          BY <1>2, <3>1, <3>2, <3>3, DeactivateStages DEF StageKept
    <3>5. ASSUME job'[k].state = "completed" PROVE job'[k].stage = "done"
      <4>1. CASE job[k].state = "completed"
            BY <1>2, <2>2, <3>1, <4>1 DEF Cleaned, RowKept
      <4>2. CASE Publish(k)
        <5>1. job'[k].stage = Sequence["deactivate"][Len(Sequence["deactivate"])]
              BY <2>1, <3>1, <4>2, PublishedRow
        <5> QED BY <5>1, DeactivateSequence
      <4> QED BY <2>2, <3>5, <4>1, <4>2 DEF StillOpen, Uncompleted
    <3> QED BY <3>1, <3>4, <3>5
  <2> QED BY <2>3, <2>4, <2>6, <2>7 DEF At
<1> QED BY <1>1, <1>2

\* Once a replacement has completed, all that the job it replaces wrote is removed.
LEMMA OrphansRemoved ==
    ASSUME TypeOK, Successors, Inherited, Cleaned
    PROVE  NoOrphanedEntry
<1> SUFFICES ASSUME NEW i \in Created, NEW d \in job[i].docs,
                    work[i].successor # None, op[i][d] # "none"
             PROVE  /\ entry[i][d] \in work[work[i].successor].removals
                    /\ job[work[i].successor].state = "completed" =>
                          "succeeded" = op[work[i].successor]["remove"]
    BY DEF NoOrphanedEntry
<1>1. d \in Doc
      BY JobsTyped
<1>2. entry[i][d] \in work[work[i].successor].removals
      BY <1>1 DEF Inherited
<1>3. Replaces(work[i].successor, i)
      BY DEF Successors
<1>4. ASSUME NEW k \in Created, entry[i][d] \in work[k].removals,
             job[k].kind \in {"ingest", "activate", "deactivate"}, job[k].state = "completed"
      PROVE  op[k]["remove"] = "succeeded"
      BY <1>4 DEF Cleaned, At
<1> QED BY <1>2, <1>3, <1>4 DEF Replaces

-----------------------------------------------------------------------------
(* Ingestions. *)

\* A deletion past sanitizing has taken its document away for good.
LEMMA DeletedGoneStep ==
    ASSUME TypeOK, DeletedGone, [Next]_vars
    PROVE  DeletedGone'
<1> DEFINE late == {"rebuilding", "removing_index", "verifying", "done"}
<1> SUFFICES ASSUME NEW j \in Created', job'[j].kind = "delete_document", job'[j].stage \in late,
                    NEW d \in job'[j].docs
             PROVE  doc'[d].state = "gone"
    BY DEF DeletedGone, At
<1>1. j \in Created
      BY NewCleanup DEF Cleanup
<1>2. job[j].kind = "delete_document" /\ d \in job[j].docs /\ d \in Doc /\ j \in Job
      BY <1>1, StepRows, JobsTyped DEF RowKept
<1>3. ASSUME job[j].stage \in late PROVE doc'[d].state = "gone"
  <2>1. doc[d].state = "gone"
        BY <1>1, <1>2, <1>3 DEF DeletedGone, At
  <2> QED BY <1>2, <2>1, DocumentStep
<1>4. ASSUME SanitizeDeleted(j) PROVE doc'[d].state = "gone"
      BY <1>2, <1>4, SanitizeDeletedEffect
<1>5. ~SanitizeErased(j)
      BY <1>2 DEF SanitizeErased, At
<1>6. StagesInOrder(j)
      BY <1>1, <1>2, CleanupStages DEF Cleanup
<1> QED BY <1>3, <1>4, <1>5, <1>6 DEF StagesInOrder, StageKept

\* Nothing returns to the first stage of an ingestion.
LEMMA ReceivedKept ==
    ASSUME TypeOK, [Next]_vars, NEW k \in Created, job[k].kind = "ingest",
           job'[k].stage = "received"
    PROVE  job[k].stage = "received" /\ ~Parse(k)
<1>1. k \in Job
      BY JobsTyped
<1>2. Sequence["ingest"] = <<"received", "parsed", "privacy_ready", "extracted", "indexed", "published">>
      BY DEF Sequence, Kind, Cleanup
<1>3. ASSUME Parse(k) PROVE FALSE
  <2>1. job'[k].stage = "parsed"
        BY <1>1, <1>3, ParseEffect, StageSet
  <2> QED BY <2>1
<1>4. ASSUME PrivacyReady(k) PROVE FALSE
  <2>1. job' = [job EXCEPT ![k].stage = "privacy_ready"]
        BY <1>4 DEF PrivacyReady
  <2>2. job'[k].stage = "privacy_ready"
        BY <1>1, <2>1, StageSet
  <2> QED BY <2>2
<1>5. ASSUME Advance(k) PROVE FALSE
  <2>1. Len(Sequence["ingest"]) - 2 = 4
        BY <1>2
  <2>2. PICK i \in 1 .. 4 : job' = [job EXCEPT ![k].stage = Sequence["ingest"][i + 1]]
        BY <1>5, <2>1 DEF Advance
  <2>3. job'[k].stage = Sequence["ingest"][i + 1]
        BY <1>1, <2>2, StageSet
  <2>4. i = 1 \/ i = 2 \/ i = 3 \/ i = 4
        BY <2>2
  <2> QED BY <1>2, <2>3, <2>4
<1>6. ASSUME Publish(k) PROVE FALSE
  <2>1. job'[k].stage = Sequence["ingest"][Len(Sequence["ingest"])]
        BY <1>1, <1>6, PublishedRow
  <2> QED BY <1>2, <2>1
<1>7. ~(Invalidating(k) \/ Inventory(k) \/ Drain(k) \/ SanitizeDeleted(k) \/ SanitizeErased(k))
      BY DEF Invalidating, Inventory, Drain, SanitizeDeleted, SanitizeErased, At, Cleanup
<1> QED BY <1>3, <1>4, <1>5, <1>6, <1>7, StageMovedBy DEF MovesStage, StageKept

\* A claim hands the last ingestion of a document on to its replacement.
LEMMA LastClaimed ==
    ASSUME TypeOK, NEW n \in 0 .. (MaxJobs - njobs), NEW f \in Renumberings(n), Claims(n, f),
           [Next]_vars, NEW m \in Created', Last(m)'
    PROVE  \E a \in Created :
              /\ Last(a) /\ job'[m].docs = job[a].docs
              /\ \/ m = a /\ a \notin Replaceable
                 \/ a \in Replaceable /\ m = f[a]
<1>1. CASE m \in Created
  <2>1. job'[m].kind = job[m].kind /\ job'[m].docs = job[m].docs
        BY <1>1, StepRows DEF RowKept
  <2>2. m \notin Replaceable
    <3>1. ASSUME m \in Replaceable PROVE FALSE
      <4>1. work'[m].successor = f[m]
            BY <3>1, ClaimNewPlans
      <4>2. f[m] \in Job
            BY <3>1, ClaimNumbers
      <4> QED BY <4>1, <4>2, ConstantsAssumption DEF Last, Job
    <3> QED BY <3>1
  <2>3. work'[m].successor = work[m].successor
        BY <1>1, <2>2, ClaimOldPlans
  <2> QED BY <1>1, <2>1, <2>2, <2>3 DEF Last
<1>2. CASE m \notin Created
  <2>1. PICK a \in Replaceable : m = f[a]
        BY <1>2, ClaimNumbers
  <2>2. a \in Created /\ Replacement(m, a) /\ work[a].successor = None
        BY <2>1, ClaimNewRows, ClaimNumbers DEF Replaceable, MayReplace
  <2> QED BY <2>1, <2>2 DEF Last, Replacement
<1> QED BY <1>1, <1>2

\* The last ingestion of a document was that before, unless it is its first or was claimed.
LEMMA LastBefore ==
    ASSUME TypeOK, [Next]_vars, NEW m \in Created', Last(m)'
    PROVE  \/ m \in Created /\ Last(m) /\ job'[m].docs = job[m].docs
           \/ \E d \in Doc : /\ SubmitUpload(d) /\ m = njobs' /\ m \notin Created
                             /\ job'[m].docs = {d}
           \/ \E n \in 0 .. (MaxJobs - njobs) : \E f \in Renumberings(n) : Claims(n, f)
<1>1. CASE m \in Created
  <2>1. job'[m].kind = job[m].kind /\ job'[m].docs = job[m].docs
        BY <1>1, StepRows DEF RowKept
  <2> QED BY <1>1, <2>1, PlanStep DEF Last
<1>2. CASE m \notin Created
  <2>1. ASSUME NEW d \in Doc, SubmitUpload(d), m = njobs' PROVE job'[m].docs = {d}
    <3>1. NewRowOf(m, "ingest", {d}, None, "received")
          BY <2>1, SubmitEffect
    <3> QED BY <3>1 DEF NewRowOf
  <2>2. ASSUME NEW d \in Doc, NEW kind \in {"activate", "deactivate", "delete_document"},
               MutateDocument(d, kind), m = njobs'
        PROVE  FALSE
    <3>1. NewRowOf(m, kind, {d}, None, InitialStage(kind))
          BY <2>2, MutateEffect
    <3> QED BY <3>1 DEF NewRowOf, Last
  <2>3. ASSUME NEW p \in Person, ErasePerson(p), m = njobs' PROVE FALSE
    <3>1. NewRowOf(m, "erase_person", {c \in Doc : Occurs(p, c)}, p, "invalidating")
          BY <2>3, EraseEffect
    <3> QED BY <3>1 DEF NewRowOf, Last
  <2>4. ASSUME NEW j \in Job, Publish(j), m = njobs' PROVE FALSE
    <3>1. Rebuild(m)
          BY <1>2, <2>4, PublishEffect
    <3> QED BY <3>1 DEF Rebuild, NewRowOf, Last
  <2> QED BY <1>2, <2>1, <2>2, <2>3, <2>4, Newcomers
<1> QED BY <1>1, <1>2

\* A document has one ingestion that is not replaced.
LEMMA OneIngestionStep ==
    ASSUME TypeOK, Used, OneIngestion, [Next]_vars
    PROVE  OneIngestion'
<1> SUFFICES ASSUME NEW i \in Created', NEW j \in Created', Last(i)', Last(j)',
                    NEW d \in job'[i].docs \cap job'[j].docs
             PROVE  i = j
    BY DEF OneIngestion
<1>1. ASSUME NEW n \in 0 .. (MaxJobs - njobs), NEW f \in Renumberings(n), Claims(n, f)
      PROVE  i = j
  <2>1. PICK a \in Created : /\ Last(a) /\ job'[i].docs = job[a].docs
                             /\ \/ i = a /\ a \notin Replaceable
                                \/ a \in Replaceable /\ i = f[a]
        BY <1>1, LastClaimed
  <2>2. PICK b \in Created : /\ Last(b) /\ job'[j].docs = job[b].docs
                             /\ \/ j = b /\ b \notin Replaceable
                                \/ b \in Replaceable /\ j = f[b]
        BY <1>1, LastClaimed
  <2>3. a = b
        BY <2>1, <2>2 DEF OneIngestion
  <2> QED BY <2>1, <2>2, <2>3
<1>2. ASSUME NEW c \in Doc, SubmitUpload(c), NEW k \in Created, c \in job[k].docs PROVE FALSE
  <2>1. doc[c].state = "unused"
        BY <1>2, SubmitEffect
  <2> QED BY <1>2, <2>1 DEF Used
<1>3. \/ i \in Created /\ Last(i) /\ job'[i].docs = job[i].docs
      \/ \E c \in Doc : SubmitUpload(c) /\ i = njobs' /\ i \notin Created /\ job'[i].docs = {c}
      \/ \E n \in 0 .. (MaxJobs - njobs) : \E f \in Renumberings(n) : Claims(n, f)
      BY LastBefore
<1>4. \/ j \in Created /\ Last(j) /\ job'[j].docs = job[j].docs
      \/ \E c \in Doc : SubmitUpload(c) /\ j = njobs' /\ j \notin Created /\ job'[j].docs = {c}
      \/ \E n \in 0 .. (MaxJobs - njobs) : \E f \in Renumberings(n) : Claims(n, f)
      BY LastBefore
<1> QED BY <1>1, <1>2, <1>3, <1>4 DEF OneIngestion

\* Only the last ingestion of a document can parse it, and it finds no record.
LEMMA ParsesFirst ==
    ASSUME TypeOK, Successors, Unparsed, NEW a \in Job, Parse(a)
    PROVE  /\ a \in Created /\ Last(a)
           /\ \A d \in job[a].docs : rec[d].version = 0
<1>1. Working(a) /\ job[a].kind = "ingest" /\ job[a].stage = "received"
      BY DEF Parse, Ready, At
<1>2. a \in Created /\ job[a].life = lifecycle_revision /\ lifecycle_revision \in Nat
      BY <1>1, WorkingRow DEF Working, TypeOK
<1>3. work[a].successor = None
      BY <1>2 DEF Successors, Replaces
<1> QED BY <1>1, <1>2, <1>3 DEF Last, Unparsed

\* Until its last ingestion has parsed it, a document has no record.
LEMMA UnparsedStep ==
    ASSUME TypeOK, Absent, Successors, OneIngestion, Unparsed, [Next]_vars
    PROVE  Unparsed'
<1> SUFFICES ASSUME NEW j \in Created', Last(j)', job'[j].stage = "received",
                    NEW d \in job'[j].docs
             PROVE  rec'[d].version = 0
    BY DEF Unparsed
<1>1. ASSUME NEW n \in 0 .. (MaxJobs - njobs), NEW f \in Renumberings(n), Claims(n, f)
      PROVE  rec'[d].version = 0
  <2>1. PICK a \in Created : /\ Last(a) /\ job'[j].docs = job[a].docs
                             /\ \/ j = a /\ a \notin Replaceable
                                \/ a \in Replaceable /\ j = f[a]
        BY <1>1, LastClaimed
  <2>2. job[a].stage = "received"
    <3>1. ASSUME a \in Replaceable, j = f[a] PROVE job[a].stage = "received"
      <4>1. Replacement(j, a) /\ job[a].kind = "ingest"
            BY <1>1, <2>1, <3>1, ClaimNewRows DEF Last
      <4> QED BY <4>1 DEF Replacement, ResumedStage
    <3>2. ASSUME j = a PROVE job[a].stage = "received"
          BY <2>1, <3>2, ReceivedKept DEF Last
    <3> QED BY <2>1, <3>1, <3>2
  <2>3. d \in Doc /\ rec[d].version = 0
        BY <2>1, <2>2, JobsTyped DEF Unparsed
  <2> QED BY <1>1, <2>3, ClaimDocs DEF RecordSame
<1>2. ASSUME NEW c \in Doc, SubmitUpload(c), job'[j].docs = {c} PROVE rec'[d].version = 0
  <2>1. d = c
        BY <1>2
  <2>2. doc[c].state = "unused" /\ \A b \in Doc : RecordSame(b)
        BY <1>2, SubmitEffect
  <2> QED BY <2>1, <2>2 DEF RecordSame, Absent
<1>3. ASSUME j \in Created, Last(j), job'[j].docs = job[j].docs PROVE rec'[d].version = 0
  <2>1. job[j].stage = "received" /\ ~Parse(j)
        BY <1>3, ReceivedKept DEF Last
  <2>2. d \in Doc /\ rec[d].version = 0
        BY <1>3, <2>1, JobsTyped DEF Unparsed
  <2>3. ASSUME NEW a \in Job, Parse(a), d \in job[a].docs PROVE FALSE
        BY <1>3, <2>1, <2>3, ParsesFirst DEF OneIngestion
  <2>4. ASSUME NEW a \in Job, SanitizeDeleted(a), d \in job[a].docs PROVE rec'[d].version = 0
    <3>1. rec'[d] = NoRecord
          BY <2>2, <2>4, SanitizeDeletedEffect
    <3> QED BY <3>1 DEF NoRecord
  <2> QED BY <2>2, <2>3, <2>4, RecordStep DEF Occurs
<1> QED BY <1>1, <1>2, <1>3, LastBefore

-----------------------------------------------------------------------------
(* Work plans and the versions of records. *)

\* A job that has planned what to write does not plan again.
LEMMA PlanningOver ==
    ASSUME TypeOK, [Next]_vars, NEW j \in Created, ~Planning(j)
    PROVE  ~Planning(j)' /\ ~Parse(j) /\ ~SanitizeErased(j)
<1> DEFINE early == {"invalidating", "inventory", "draining", "sanitizing"}
<1>1. job'[j].kind = job[j].kind
      BY StepRows DEF RowKept
<1>2. ASSUME job[j].kind = "ingest" PROVE ~Planning(j)'
      BY <1>1, <1>2, ReceivedKept DEF Planning, At
<1>3. ASSUME job[j].kind = "erase_person" PROVE ~Planning(j)'
  <2>1. StagesInOrder(j)
        BY <1>3, CleanupStages DEF Cleanup
  <2>2. job[j].stage \notin early
        BY <1>3 DEF Planning, At
  <2>3. job'[j].stage \notin early
        BY <2>1, <2>2 DEF StagesInOrder, StageKept
  <2> QED BY <1>1, <1>3, <2>3 DEF Planning, At
<1>4. ~Parse(j) /\ ~SanitizeErased(j)
      BY DEF Parse, SanitizeErased, Planning, At
<1> QED BY <1>1, <1>2, <1>3, <1>4 DEF Planning, At

\* An entry keeps the version its job planned to write.
LEMMA OfPlanStep ==
    ASSUME TypeOK, OfPlan, [Next]_vars
    PROVE  OfPlan'
<1> SUFFICES ASSUME NEW j \in Job, NEW d \in Doc, entry'[j][d] # None
             PROVE  /\ j \in Created' /\ ~Planning(j)'
                    /\ entry'[j][d][1] = d /\ entry'[j][d][2] = work'[j].refs[d]
    BY DEF OfPlan
<1>1. ASSUME entry'[j][d] = entry[j][d]
      PROVE  /\ j \in Created' /\ ~Planning(j)'
             /\ entry'[j][d][1] = d /\ entry'[j][d][2] = work'[j].refs[d]
  <2>1. j \in Created /\ ~Planning(j) /\ entry[j][d][1] = d /\ entry[j][d][2] = work[j].refs[d]
        BY <1>1 DEF OfPlan
  <2>2. ~Planning(j)' /\ work'[j].refs = work[j].refs /\ j \in Created'
        BY <2>1, PlanningOver, PlanStep, StepRows
  <2> QED BY <1>1, <2>1, <2>2
<1>2. ASSUME NEW k \in Job, NEW c \in Doc, StageArtifacts(k, c), entry'[j][d] # entry[j][d]
      PROVE  /\ j \in Created' /\ ~Planning(j)'
             /\ entry'[j][d][1] = d /\ entry'[j][d][2] = work'[j].refs[d]
  <2>1. PICK text \in Draft : entry' = [entry EXCEPT ![k][c] = <<c, work[k].refs[c], text>>]
        BY <1>2 DEF StageArtifacts
  <2>2. j = k /\ d = c /\ entry'[j][d] = <<d, work[j].refs[d], text>>
        BY <1>2, <2>1 DEF TypeOK
  <2>3. Working(j) /\ Processing(j) /\ UNCHANGED <<job, work, njobs>>
        BY <1>2, <2>2 DEF StageArtifacts, Ready
  <2>4. j \in Created /\ Created' = Created
        BY <2>3, WorkingRow DEF Created
  <2>5. ~Planning(j)
        BY <2>3 DEF Processing, Planning, At, Cleanup
  <2> QED BY <2>2, <2>3, <2>4, <2>5 DEF Planning, At
<1>3. ASSUME NEW k \in Job, NEW x \in Slot,
             Prepare(k, x) \/ Start(k, x) \/ \E o \in Outcomes : Report(k, x, o)
      PROVE  entry' = entry
      BY <1>3 DEF Prepare, Start, Report
<1> QED BY <1>1, <1>2, <1>3, LedgerSteps

\* A record's version only grows while its document is there.
LEMMA AgedKept ==
    ASSUME TypeOK, TypeOK', Successors, Unparsed, [Next]_vars, NEW d \in Doc, NEW v \in Nat, Aged(d, v)
    PROVE  doc'[d].state # "gone" => v <= rec'[d].version
<1> SUFFICES ASSUME doc'[d].state # "gone" PROVE v <= rec'[d].version
    OBVIOUS
<1>1. rec[d].version \in Nat /\ rec'[d].version \in Nat
      BY DEF TypeOK, RecordRow
<1>2. v <= rec[d].version
      BY DocumentStep DEF Aged
<1>3. ASSUME NEW a \in Job, Parse(a), d \in job[a].docs PROVE v <= rec'[d].version
  <2>1. rec[d].version = 0
        BY <1>3, ParsesFirst
  <2> QED BY <1>1, <1>2, <2>1
<1>4. ASSUME NEW a \in Job, SanitizeDeleted(a), d \in job[a].docs PROVE FALSE
      BY <1>4, SanitizeDeletedEffect
<1>5. ASSUME NEW a \in Job, SanitizeErased(a), Occurs(job[a].person, d) PROVE v <= rec'[d].version
  <2>1. rec'[d].version = rec[d].version + 1
        BY <1>5, SanitizeErasedEffect
  <2> QED BY <1>1, <1>2, <2>1
<1> QED BY <1>2, <1>3, <1>4, <1>5, RecordStep

\* What a job plans to write is not newer than the record.
LEMMA RefsAged ==
    ASSUME TypeOK, TypeOK', Successors, Unparsed, Ages, [Next]_vars, NEW k \in Created', NEW d \in Doc
    PROVE  doc'[d].state # "gone" => work'[k].refs[d] <= rec'[d].version
<1>0. /\ rec[d].version \in Nat /\ rec'[d].version \in Nat
      /\ \A i \in Created : work[i].refs \in [Doc -> Nat]
      BY JobsTyped DEF TypeOK, RecordRow, WorkRow
<1>1. ASSUME NEW i \in Created
      PROVE  doc'[d].state # "gone" => work[i].refs[d] <= rec'[d].version
      BY <1>0, AgedKept DEF Ages
<1>2. ASSUME NEW refs, work'[k].refs = refs, refs[d] = 0 \/ refs[d] = rec'[d].version
      PROVE  work'[k].refs[d] <= rec'[d].version
      BY <1>0, <1>2
<1>3. CASE k \in Created
  <2>1. ASSUME Parse(k) PROVE work'[k].refs[d] <= rec'[d].version
    <3>1. /\ work'[k].refs = [c \in Doc |-> IF c \in job[k].docs THEN 1 ELSE 0]
          /\ d \in job[k].docs => rec'[d].version = 1
          BY <1>3, <2>1, JobsTyped, ParseEffect
    <3> QED BY <1>2, <3>1
  <2>2. ASSUME SanitizeErased(k) PROVE work'[k].refs[d] <= rec'[d].version
    <3> DEFINE p == job[k].person
    <3>1. /\ work'[k].refs = [c \in Doc |-> IF Occurs(p, c) THEN rec[c].version + 1 ELSE 0]
          /\ Occurs(p, d) => rec'[d].version = rec[d].version + 1
          BY <1>3, <2>2, JobsTyped, SanitizeErasedEffect
    <3> HIDE DEF p
    <3> QED BY <1>2, <3>1
  <2> QED BY <1>1, <1>3, <2>1, <2>2, PlanStep
<1>4. CASE k \notin Created
  <2>1. ASSUME NEW c \in Doc, SubmitUpload(c), k = njobs' PROVE work'[k].refs[d] = 0
    <3>1. NewPlanOf(k, NoRefs, {})
          BY <2>1, SubmitEffect
    <3> QED BY <3>1 DEF NewPlanOf, NoRefs
  <2>2. ASSUME NEW c \in Doc, NEW kind \in {"activate", "deactivate", "delete_document"},
               MutateDocument(c, kind), k = njobs'
        PROVE  work'[k].refs[d] = 0 \/ work'[k].refs[d] = rec'[d].version
    <3>1. /\ NewPlanOf(k, IF kind = "activate" THEN [NoRefs EXCEPT ![c] = rec[c].version] ELSE NoRefs,
                       EntriesOf({c}))
          /\ rec'[c].version = rec[c].version
          BY <2>2, MutateEffect
    <3>2. work'[k].refs = NoRefs \/ work'[k].refs = [NoRefs EXCEPT ![c] = rec[c].version]
          BY <3>1 DEF NewPlanOf
    <3>3. NoRefs[d] = 0
          BY DEF NoRefs
    <3>4. work'[k].refs[d] = 0 \/ (d = c /\ work'[k].refs[d] = rec[c].version)
          BY <3>2, <3>3 DEF NoRefs
    <3> QED BY <3>1, <3>4
  <2>3. ASSUME NEW p \in Person, ErasePerson(p), k = njobs' PROVE work'[k].refs[d] = 0
    <3>1. NewPlanOf(k, NoRefs, EntriesOf({c \in Doc : Occurs(p, c)}))
          BY <2>3, EraseEffect
    <3> QED BY <3>1 DEF NewPlanOf, NoRefs
  <2>4. ASSUME NEW n \in 0 .. (MaxJobs - njobs), NEW f \in Renumberings(n), Claims(n, f),
               NEW i \in Replaceable, k = f[i]
        PROVE  doc'[d].state # "gone" => work'[k].refs[d] <= rec'[d].version
    <3>1. NewPlanOf(k, work[i].refs, work[i].removals \cup Upserted(i)) /\ i \in Created
          BY <2>4, ClaimNewPlans, ClaimNumbers
    <3> QED BY <1>1, <3>1 DEF NewPlanOf
  <2>5. ASSUME NEW j \in Job, Publish(j), k = njobs'
        PROVE  work'[k].refs[d] = 0 \/ work'[k].refs[d] = rec'[d].version
    <3>1. Rebuild(k)
          BY <1>4, <2>5, PublishEffect
    <3>2. PICK refs : NewPlanOf(k, refs, {}) /\ \A c \in Doc : refs[c] \in {0, rec'[c].version}
          BY <3>1 DEF Rebuild
    <3> QED BY <3>2 DEF NewPlanOf
  <2> QED BY <1>2, <1>4, <2>1, <2>2, <2>3, <2>4, <2>5, Newcomers
<1> QED BY <1>3, <1>4

\* The entry of a record is not newer than the record.
LEMMA EntryAged ==
    ASSUME TypeOK, TypeOK', Successors, Unparsed, OfPlan, Ages, [Next]_vars, NEW d \in Doc,
           rec'[d].entry # None
    PROVE  /\ rec'[d].entry[1] = d
           /\ doc'[d].state # "gone" => rec'[d].entry[2] <= rec'[d].version
<1>1. rec[d].entry # None => rec[d].entry \in Entry
      BY DEF TypeOK, RecordRow
<1>2. ASSUME rec'[d].entry = rec[d].entry
      PROVE  /\ rec'[d].entry[1] = d
             /\ doc'[d].state # "gone" => rec'[d].entry[2] <= rec'[d].version
  <2>1. /\ rec[d].entry[1] = d /\ Aged(d, rec[d].entry[2]) /\ rec[d].entry[2] \in Nat
        BY <1>1, <1>2 DEF Ages, Entry
  <2> QED BY <1>2, <2>1, AgedKept
<1>3. ASSUME NEW j \in Job, Publish(j), Written(j, d)
      PROVE  rec'[d].entry[1] = d /\ rec'[d].entry[2] <= rec'[d].version
  <2>1. /\ rec'[d].entry = entry[j][d] /\ rec[d].version = work[j].refs[d]
        /\ rec'[d].version = rec[d].version
        BY <1>3, PublishRecords DEF Written, Current
  <2>2. entry[j][d][1] = d /\ entry[j][d][2] = work[j].refs[d]
        BY <1>3, <2>1 DEF OfPlan
  <2>3. rec[d].version \in Nat
        BY DEF TypeOK, RecordRow
  <2> QED BY <2>1, <2>2, <2>3
<1>4. ASSUME NEW j \in Job, Parse(j), d \in job[j].docs PROVE FALSE
      BY <1>4, ParseEffect
<1>5. ASSUME NEW j \in Job, SanitizeDeleted(j), d \in job[j].docs PROVE FALSE
  <2>1. rec'[d] = NoRecord
        BY <1>5, SanitizeDeletedEffect
  <2> QED BY <2>1 DEF NoRecord
<1>6. ASSUME NEW j \in Job, SanitizeErased(j), Occurs(job[j].person, d) PROVE FALSE
      BY <1>6, SanitizeErasedEffect
<1> QED BY <1>2, <1>3, <1>4, <1>5, <1>6, RecordStep

\* What a job wrote, and what a record holds, is old enough to be removed.
LEMMA WrittenAged ==
    ASSUME TypeOK, OfPlan, Ages, NEW i \in Created, NEW d \in Doc, entry[i][d] # None
    PROVE  entry[i][d][1] = d /\ Aged(d, entry[i][d][2])
BY JobsTyped DEF OfPlan, Ages

\* What a job is going to remove is not newer than the record.
LEMMA RemovalsAged ==
    ASSUME TypeOK, TypeOK', Successors, Unparsed, OfPlan, Ages, [Next]_vars,
           NEW k \in Created', NEW e \in work'[k].removals
    PROVE  doc'[e[1]].state # "gone" => e[2] <= rec'[e[1]].version
<1>1. e \in Entry /\ e[1] \in Doc /\ e[2] \in Nat
  <2>1. k \in Job
        BY CreatedTyped
  <2> QED BY <2>1 DEF TypeOK, WorkRow, Entry
<1>2. SUFFICES Aged(e[1], e[2])
      BY <1>1, AgedKept
<1>3. ASSUME NEW i \in Created, NEW c \in Doc, op[i][c] # "none", e = entry[i][c]
      PROVE  Aged(e[1], e[2])
  <2>1. entry[i][c] # None
        BY <1>3, JobsTyped DEF TypeOK
  <2>2. entry[i][c][1] = c /\ Aged(c, entry[i][c][2])
        BY <2>1, WrittenAged
  <2> QED BY <1>3, <2>2
<1>4. ASSUME NEW D \in SUBSET Doc, e \in EntriesOf(D) PROVE Aged(e[1], e[2])
  <2>1. PICK c \in D : e = rec[c].entry /\ e # None
        BY <1>4 DEF EntriesOf
  <2>2. e[1] = c /\ Aged(c, e[2])
        BY <2>1 DEF Ages
  <2> QED BY <2>2
<1>5. CASE k \in Created
  <2>1. ASSUME e \in work[k].removals PROVE Aged(e[1], e[2])
        BY <1>5, <2>1 DEF Ages
  <2>2. ASSUME Inventory(k), e \in Inventoried(k) PROVE Aged(e[1], e[2])
        BY <1>3, <2>2 DEF Inventoried, Residual
  <2>3. Inventory(k) => work'[k].removals = work[k].removals \cup Inventoried(k)
        BY <1>5, JobsTyped, InventoryEffect
  <2> QED BY <1>5, <2>1, <2>2, <2>3, PlanStep
<1>6. CASE k \notin Created
  <2>1. ASSUME NEW c \in Doc, SubmitUpload(c), k = njobs' PROVE FALSE
    <3>1. NewPlanOf(k, NoRefs, {})
          BY <2>1, SubmitEffect
    <3> QED BY <3>1 DEF NewPlanOf
  <2>2. ASSUME NEW c \in Doc, NEW kind \in {"activate", "deactivate", "delete_document"},
               MutateDocument(c, kind), k = njobs'
        PROVE  Aged(e[1], e[2])
    <3>1. NewPlanOf(k, IF kind = "activate" THEN [NoRefs EXCEPT ![c] = rec[c].version] ELSE NoRefs,
                    EntriesOf({c}))
          BY <2>2, MutateEffect
    <3>2. e \in EntriesOf({c})
          BY <3>1 DEF NewPlanOf
    <3> QED BY <1>4, <3>2
  <2>3. ASSUME NEW p \in Person, ErasePerson(p), k = njobs' PROVE Aged(e[1], e[2])
    <3> DEFINE affected == {c \in Doc : Occurs(p, c)}
    <3>1. NewPlanOf(k, NoRefs, EntriesOf(affected))
          BY <2>3, EraseEffect
    <3>2. e \in EntriesOf(affected) /\ affected \in SUBSET Doc
          BY <3>1 DEF NewPlanOf
    <3> HIDE DEF affected
    <3> QED BY <1>4, <3>2
  <2>4. ASSUME NEW n \in 0 .. (MaxJobs - njobs), NEW f \in Renumberings(n), Claims(n, f),
               NEW i \in Replaceable, k = f[i]
        PROVE  Aged(e[1], e[2])
    <3>1. NewPlanOf(k, work[i].refs, work[i].removals \cup Upserted(i)) /\ i \in Created
          BY <2>4, ClaimNewPlans, ClaimNumbers
    <3>2. e \in work[i].removals \/ e \in Upserted(i)
          BY <3>1 DEF NewPlanOf
    <3>3. ASSUME e \in work[i].removals PROVE Aged(e[1], e[2])
          BY <3>1, <3>3 DEF Ages
    <3>4. ASSUME e \in Upserted(i) PROVE Aged(e[1], e[2])
          BY <1>3, <3>1, <3>4 DEF Upserted
    <3> QED BY <3>2, <3>3, <3>4
  <2>5. ASSUME NEW j \in Job, Publish(j), k = njobs' PROVE FALSE
    <3>1. Rebuild(k)
          BY <1>6, <2>5, PublishEffect
    <3> QED BY <3>1 DEF Rebuild, NewPlanOf
  <2> QED BY <1>6, <2>1, <2>2, <2>3, <2>4, <2>5, Newcomers
<1> QED BY <1>5, <1>6

\* No plan, entry or removal gets ahead of its record.
LEMMA AgesStep ==
    ASSUME TypeOK, TypeOK', Successors, Unparsed, OfPlan, Ages, [Next]_vars
    PROVE  Ages'
BY RefsAged, EntryAged, RemovalsAged DEF Ages, Aged

-----------------------------------------------------------------------------
(* What a cleanup leaves. *)

\* Under the barrier nobody but the open cleanup works.
LEMMA OnlyCleanupWorks ==
    ASSUME TypeOK, BarrierExclusive, NEW j \in Created, OpenCleanup(j), NEW a \in Job, Working(a)
    PROVE  a = j
<1>1. write_barrier
      BY DEF BarrierExclusive
<1>2. PICK b \in Created : \A i \in Created \ {b} :
         ~OpenCleanup(i) /\ (Uncompleted(i) => job[i].life < lifecycle_revision)
      BY <1>1 DEF BarrierExclusive
<1>3. a \in Created /\ Uncompleted(a) /\ job[a].life = lifecycle_revision
      /\ lifecycle_revision \in Nat
      BY WorkingRow DEF Working, Uncompleted, TypeOK
<1> QED BY <1>2, <1>3

\* An erasure knows the records it has to write, and writes them newer than all it removes.
LEMMA AffectedStep ==
    ASSUME TypeOK, BarrierExclusive, Absent, Ages, Affected, [Next]_vars
    PROVE  Affected'
<1> DEFINE early == {"invalidating", "inventory", "draining", "sanitizing"}
<1> SUFFICES ASSUME NEW j \in Created', OpenCleanup(j)', job'[j].kind = "erase_person"
             PROVE  /\ job'[j].stage \in early =>
                          job'[j].docs = {d \in Doc : rec'[d].version # 0 /\ job'[j].person \in rec'[d].names}
                    /\ job'[j].stage \in Sanitized =>
                          \A d \in job'[j].docs :
                             /\ work'[j].refs[d] # 0
                             /\ \A e \in work'[j].removals : e[1] = d => e[2] < work'[j].refs[d]
    BY DEF Affected, Erases, At, Occurs
<1>1. CASE j \notin Created
  <2>1. job'[j].stage = "invalidating"
        BY <1>1, NewCleanup DEF Cleanup
  <2>2. PICK p \in Person : ErasePerson(p) /\ j = njobs'
    <3>1. ASSUME NEW c \in Doc, SubmitUpload(c), j = njobs' PROVE FALSE
      <4>1. NewRowOf(j, "ingest", {c}, None, "received")
            BY <3>1, SubmitEffect
      <4> QED BY <4>1 DEF NewRowOf
    <3>2. ASSUME NEW c \in Doc, NEW kind \in {"activate", "deactivate", "delete_document"},
                 MutateDocument(c, kind), j = njobs'
          PROVE  FALSE
      <4>1. NewRowOf(j, kind, {c}, None, InitialStage(kind))
            BY <3>2, MutateEffect
      <4> QED BY <4>1 DEF NewRowOf
    <3>3. ASSUME NEW n \in 0 .. (MaxJobs - njobs), NEW f \in Renumberings(n), Claims(n, f),
                 NEW i \in Replaceable, j = f[i]
          PROVE  FALSE
      <4>1. Replacement(j, i)
            BY <3>3, ClaimNewRows
      <4> QED BY <4>1 DEF Replacement, Replaceable
    <3>4. ASSUME NEW a \in Job, Publish(a), j = njobs' PROVE FALSE
      <4>1. Rebuild(j)
            BY <1>1, <3>4, PublishEffect
      <4> QED BY <4>1 DEF Rebuild, NewRowOf
    <3> QED BY <1>1, <3>1, <3>2, <3>3, <3>4, Newcomers
  <2>3. NewRowOf(j, "erase_person", {c \in Doc : Occurs(p, c)}, p, "invalidating")
        BY <2>2, EraseEffect
  <2>4. \A c \in Doc : RecordSame(c)
        BY <2>2, EraseEffect
  <2>5. /\ job'[j].docs = {c \in Doc : rec[c].version # 0 /\ p \in rec[c].names}
        /\ job'[j].person = p
        BY <2>3 DEF NewRowOf, Occurs
  <2> QED BY <2>1, <2>4, <2>5 DEF RecordSame, Sanitized
<1>2. CASE j \in Created
  <2>1. /\ OpenCleanup(j) /\ j \in Job
        /\ job[j].kind = "erase_person" /\ job'[j].docs = job[j].docs
        /\ job'[j].person = job[j].person /\ job[j].docs \subseteq Doc
        BY <1>2, StepRows, OpenKept, JobsTyped DEF RowKept
  <2>2. ASSUME job[j].stage \in early
        PROVE  job[j].docs = {d \in Doc : rec[d].version # 0 /\ job[j].person \in rec[d].names}
        BY <1>2, <2>1, <2>2 DEF Affected, Erases, At, Occurs
  <2>3. ASSUME job'[j].stage \in early
        PROVE  job'[j].docs = {d \in Doc : rec'[d].version # 0 /\ job'[j].person \in rec'[d].names}
    <3>1. StagesInOrder(j)
          BY <1>2, <2>1, CleanupStages DEF Cleanup
    <3>2. job[j].stage \in early
          BY <2>3, <3>1 DEF StagesInOrder, StageKept
    <3>3. ASSUME NEW a \in Job, Parse(a) PROVE FALSE
      <4>1. a = j
            BY <1>2, <2>1, <3>3, OnlyCleanupWorks DEF Parse, Ready
      <4> QED BY <2>1, <3>3, <4>1 DEF Parse, At
    <3>4. ASSUME NEW a \in Job, SanitizeDeleted(a) PROVE FALSE
      <4>1. a = j
            BY <1>2, <2>1, <3>4, OnlyCleanupWorks DEF SanitizeDeleted, Ready
      <4> QED BY <2>1, <3>4, <4>1 DEF SanitizeDeleted, At
    <3>5. ASSUME NEW a \in Job, SanitizeErased(a) PROVE FALSE
      <4>1. a = j
            BY <1>2, <2>1, <3>5, OnlyCleanupWorks DEF SanitizeErased, Ready
      <4>2. job'[j].stage = "rebuilding"
            BY <2>1, <3>5, <4>1, SanitizeErasedEffect
      <4> QED BY <2>3, <4>2
    <3>6. \A d \in Doc : rec'[d].version = rec[d].version /\ rec'[d].names = rec[d].names
          BY <3>3, <3>4, <3>5, RecordStep
    <3> QED BY <2>1, <2>2, <3>2, <3>6
  <2>4. ASSUME job'[j].stage \in Sanitized, NEW d \in job'[j].docs
        PROVE  /\ work'[j].refs[d] # 0
               /\ \A e \in work'[j].removals : e[1] = d => e[2] < work'[j].refs[d]
    <3>1. Erases(j, Sanitized)'
          BY <2>1, <2>4 DEF Erases, At
    <3>2. CASE Erases(j, Sanitized)
      <4>1. work'[j].refs = work[j].refs /\ work'[j].removals = work[j].removals
        <5>1. ~Parse(j) /\ ~SanitizeErased(j) /\ ~Inventory(j)
              BY <3>2 DEF Parse, SanitizeErased, Inventory, Erases, Sanitized, At
        <5> QED BY <1>2, <5>1, PlanStep
      <4> QED BY <1>2, <2>1, <2>4, <3>2, <4>1 DEF Affected
    <3>3. CASE SanitizeErased(j)
      <4> DEFINE p == job[j].person
      <4>1. job[j].stage \in early /\ d \in Doc
            BY <2>1, <2>4, <3>3 DEF SanitizeErased, At
      <4>2. rec[d].version # 0 /\ job[j].person \in rec[d].names
            BY <2>1, <2>2, <2>4, <4>1
      <4>3. /\ work'[j].refs = [c \in Doc |-> IF Occurs(p, c) THEN rec[c].version + 1 ELSE 0]
            /\ work'[j].removals = work[j].removals
            BY <2>1, <3>3, SanitizeErasedEffect
      <4>4. Occurs(p, d)
            BY <4>2 DEF Occurs
      <4> HIDE DEF p
      <4>5. work'[j].refs[d] = rec[d].version + 1 /\ rec[d].version \in Nat
            BY <4>1, <4>3, <4>4 DEF TypeOK, RecordRow
      <4>6. ASSUME NEW e \in work[j].removals, e[1] = d PROVE e[2] < rec[d].version + 1
        <5>1. e \in Entry
              BY <2>1, <4>6 DEF TypeOK, WorkRow
        <5>2. e[2] <= rec[d].version
              BY <1>2, <4>1, <4>2, <4>6 DEF Ages, Aged, Absent
        <5> QED BY <4>5, <5>1, <5>2 DEF Entry
      <4> QED BY <4>3, <4>5, <4>6
    <3> QED BY <3>1, <3>2, <3>3, SanitizedBy
  <2> QED BY <2>3, <2>4
<1> QED BY <1>1, <1>2

-----------------------------------------------------------------------------
(* The inductive invariant, and what follows from it. *)

\* The invariant holds when nothing was submitted yet.
LEMMA DocumentInit == Init => DocumentInv
<1> SUFFICES ASSUME Init PROVE DocumentInv
    OBVIOUS
<1>1. CleanupInv /\ Created = {}
      BY CleanupInit DEF Init, Created
<1>2. Absent
      BY DEF Init, Absent, NoDoc, NoRecord
<1>3. /\ Used /\ DeletedGone /\ OneWriterPerDocument /\ Successors /\ OneIngestion /\ Unparsed
      /\ CleanupLast /\ Affected /\ Stopped /\ ForbiddenFenced /\ ErasedForgotten
      /\ Inherited /\ Cleaned
      BY <1>1 DEF Used, DeletedGone, OneWriterPerDocument, Successors, OneIngestion, Unparsed,
                  CleanupLast, Affected, Stopped, ForbiddenFenced, ErasedForgotten, Inherited, Cleaned
<1>4. OfPlan
      BY DEF Init, OfPlan
<1>5. Ages
      BY <1>1 DEF Init, Ages, NoRecord
<1> QED BY <1>1, <1>2, <1>3, <1>4, <1>5 DEF DocumentInv

\* The invariant is inductive: one step per conjunct.
LEMMA DocumentInvStep == DocumentInv /\ [Next]_vars => DocumentInv'
<1> SUFFICES ASSUME DocumentInv, [Next]_vars PROVE DocumentInv'
    OBVIOUS
<1> USE DEF DocumentInv
<1>1. CleanupInv' /\ TypeOK' /\ TypeOK /\ LifeBounded /\ BarrierExclusive /\ FinishedClean /\ BarrierInv
      BY CleanupStep DEF CleanupInv, BarrierInv
<1>2. Absent' /\ Used' /\ DeletedGone' /\ OneWriterPerDocument'
      BY <1>1, AbsentStep, UsedStep, DeletedGoneStep, OneWriterStep
<1>3. Successors' /\ OneIngestion' /\ Unparsed' /\ OfPlan' /\ Ages'
      BY <1>1, SuccessorsStep, OneIngestionStep, UnparsedStep, OfPlanStep, AgesStep
<1>4. CleanupLast' /\ Affected' /\ Stopped' /\ ForbiddenFenced' /\ ErasedForgotten'
      BY <1>1, CleanupLastStep, AffectedStep, StoppedStep, ForbiddenFencedStep, ErasedForgottenStep
<1>5. Inherited' /\ Cleaned'
      BY <1>1, InheritedStep, CleanedStep
<1> QED BY <1>1, <1>2, <1>3, <1>4, <1>5

\* The inductive invariant holds in every reachable state.
THEOREM DocumentInvariant == Spec => []DocumentInv
BY DocumentInit, DocumentInvStep, PTL DEF Spec

\* At one lifecycle revision at most one unfinished job writes a document, and
\* outside an erasure it is the one the document names as its latest: neither
\* a command nor rescheduling leaves two writers for it (_active_lifecycle,
\* _reschedule_stale).
THEOREM OneWriterAlways == Spec => []OneWriterPerDocument
<1>1. DocumentInv => OneWriterPerDocument
      BY DEF DocumentInv
<1> QED BY <1>1, DocumentInvariant, PTL

\* No record made from an upload accepted before an erasure completed still
\* names the erased person: neither the sanitizing pass nor an ingestion that
\* was pending when it ran leaves or brings the name back (prepare_cleanup
\* sanitizing, resumption_forbidden).
THEOREM ErasedStayForgotten == Spec => []ErasedForgotten
<1>1. DocumentInv => ErasedForgotten
      BY DEF DocumentInv
<1> QED BY <1>1, DocumentInvariant, PTL

\* Once a replacement has completed, everything the job it replaced may have
\* written to the index was removed by it or belongs to the record again
\* (_reschedule_stale removals, obsolete_index_removed).
THEOREM NoEntryOrphaned == Spec => []NoOrphanedEntry
<1>1. DocumentInv => NoOrphanedEntry
      BY OrphansRemoved DEF DocumentInv, CleanupInv
<1> QED BY <1>1, DocumentInvariant, PTL

\* A publication that lowers the barrier found nothing outstanding.
LEMMA ReleaseSettled ==
    ASSUME TypeOK, LifeBounded, NEW j \in Created, OpenCleanup(j), Publish(j),
           NEW i \in Created, NEW x \in Slot
    PROVE  op[i][x] \in {"none", "failed", "succeeded"}
<1>1. CleanupVerified(j) /\ Working(j)
      BY JobsTyped, PublishEffect DEF OpenCleanup, Ready
<1>2. op[i][x] \notin Outstanding
      BY <1>1 DEF CleanupVerified, Working, LifeBounded
<1>3. op[i][x] \in OpState
      BY JobsTyped DEF TypeOK
<1> QED BY <1>2, <1>3 DEF OpState, Outstanding, Unresolved

\* Nor does it leave a record published with an entry the cleanup has removed.
LEMMA ReleaseClean ==
    ASSUME DocumentInv, NEW j \in Created, OpenCleanup(j), Publish(j),
           NEW d \in job[j].docs, rec'[d].published
    PROVE  rec'[d].entry \notin work[j].removals
<1>1. /\ TypeOK /\ Absent /\ DeletedGone /\ OfPlan /\ Affected
      /\ j \in Job /\ d \in Doc /\ d \in Slot
      BY JobsTyped DEF DocumentInv, CleanupInv
<1>2. job[j].stage = "verifying"
  <2>1. Penultimate(j)
        BY <1>1, PublishEffect
  <2>2. Sequence[job[j].kind] = CleanupSequence
        BY DEF OpenCleanup, Cleanup, Sequence, Kind
  <2>3. Len(CleanupSequence) = 8 /\ CleanupSequence[7] = "verifying"
        BY DEF CleanupSequence
  <2>4. 8 - 1 = 7
        OBVIOUS
  <2> QED BY <2>1, <2>2, <2>3, <2>4 DEF Penultimate
<1>3. CASE job[j].kind = "delete_document"
  <2>1. doc[d].state = "gone"
        BY <1>1, <1>2, <1>3 DEF DeletedGone, At
  <2>2. rec[d].version = 0 /\ ~rec[d].published
        BY <1>1, <2>1 DEF Absent
  <2>3. ~Written(j, d)
        BY <2>2 DEF Written, Current
  <2>4. RecordSame(d)
        BY <1>1, <2>3, PublishRecords
  <2> QED BY <2>2, <2>4 DEF RecordSame
<1>4. CASE job[j].kind = "erase_person"
  <2>1. /\ work[j].refs[d] # 0
        /\ \A e \in work[j].removals : e[1] = d => e[2] < work[j].refs[d]
        BY <1>1, <1>2, <1>4 DEF Affected, Erases, Sanitized, At
  <2>2. Written(j, d)
        BY <1>1, <1>4, <2>1, PublishRecords DEF Refs
  <2>3. rec'[d].entry = entry[j][d] /\ entry[j][d] # None
        BY <1>1, <2>2 DEF Written, TypeOK
  <2>4. entry[j][d][1] = d /\ entry[j][d][2] = work[j].refs[d]
        BY <1>1, <2>3 DEF OfPlan
  <2>5. work[j].refs[d] \in Nat
        BY <1>1 DEF TypeOK, WorkRow
  <2> QED BY <2>1, <2>3, <2>4, <2>5
<1> QED BY <1>3, <1>4 DEF OpenCleanup, Cleanup

\* The barrier comes down only in a publication that leaves no operation of
\* the whole project outstanding and no published record whose index entry
\* the same cleanup has just removed (publish, CleanupVerified).
THEOREM BarrierReleases == Spec => BarrierReleaseVerified
<1> DEFINE Released(j) ==
      /\ OpenCleanup(j) /\ job'[j].state = "completed"
      /\ \A i \in Created, x \in Slot : op[i][x] \in {"none", "failed", "succeeded"}
      /\ \A d \in job[j].docs : rec'[d].published => rec'[d].entry \notin work[j].removals
<1>1. DocumentInv /\ [Next]_vars => [write_barrier /\ ~write_barrier' => \E j \in Created : Released(j)]_vars
  <2> SUFFICES ASSUME DocumentInv, [Next]_vars, write_barrier, ~write_barrier'
               PROVE  \E j \in Created : Released(j)
      OBVIOUS
  <2>1. TypeOK /\ LifeBounded /\ BarrierExclusive
        BY DEF DocumentInv, CleanupInv
  <2>2. PICK j \in Created : Publish(j) /\ OpenCleanup(j)
        BY <2>1, NothingCreated
  <2>3. job'[j].state = "completed"
        BY <2>1, <2>2, JobsTyped, PublishedRow
  <2>4. \A i \in Created, x \in Slot : op[i][x] \in {"none", "failed", "succeeded"}
        BY <2>1, <2>2, ReleaseSettled
  <2>5. \A d \in job[j].docs : rec'[d].published => rec'[d].entry \notin work[j].removals
        BY <2>2, ReleaseClean
  <2> QED BY <2>2, <2>3, <2>4, <2>5
<1> QED BY <1>1, DocumentInvariant, PTL DEF Spec, BarrierReleaseVerified
=============================================================================
