-------------------------------- MODULE Store --------------------------------
(***************************************************************************)
(* The relational store (evidence/relational.py, migrations/): a command   *)
(* loads a project's rows into one object (load_project), changes that     *)
(* object, and writes the whole of it back, table after table              *)
(* (sync_project), under the project's row lock and in one transaction.    *)
(* Foreign keys and primary keys are checked statement by statement; when  *)
(* one fails, the transaction is rolled back and nothing was done.         *)
(*                                                                         *)
(* A command that is not `restricted' is given no uploads, no people, no   *)
(* privacy plans and no diagnostics, and must leave their rows alone.      *)
(*                                                                         *)
(* The commands are those that change which rows there are: upload,        *)
(* parsing, privacy review, publication, answers, associations, erasure    *)
(* and deletion.  When they may run is the subject of Jobs, Chat and       *)
(* Privacy, which take it that their transactions commit; here it is kept  *)
(* to the order in which a document, an answer and a cleanup go on.        *)
(* The contents of a row are left out, and so are the tables whose rows    *)
(* refer to nothing that is ever removed (members, chunks, entries,        *)
(* operations, history, conversations); the rows of record_spans and of    *)
(* artifact checkpoints come and go as those of versions and memories.     *)
(***************************************************************************)
EXTENDS Integers, Sequences

CONSTANTS
    Document,      \* the documents uploaded
    Record,        \* the records parsed from them
    DocumentOf,    \* the document of each record
    Person,        \* the people who occur in the records
    Mentioning,    \* the records in which each of them does
    Answer         \* the answers released

ASSUME StoreAssumption ==
    /\ DocumentOf \in [Record -> Document]
    /\ Mentioning \in [Person -> SUBSET Record]

VARIABLES
    db,        \* the rows of the project, a set for each table
    meant,     \* history: the project as its commands left it
    refused    \* history: the kinds of command that were rolled back

vars == <<db, meant, refused>>

Ref(r, v) == [record |-> r, version |-> v]

-----------------------------------------------------------------------------
(* What a command works on. *)

NoRows ==
    [documents |-> {}, documentInputs |-> {}, records |-> {}, versions |-> {},
     recordInputs |-> {}, jobs |-> {}, jobDocuments |-> {}, jobVersions |-> {},
     memories |-> {}, answers |-> {}, messages |-> {}, rebuilds |-> {},
     receipts |-> {}, dependencies |-> {}, people |-> {}, aliases |-> {},
     runs |-> {}, occurrences |-> {}, diagnostics |-> {}, resolutions |-> {}]

(* load_project.  The raw spans of a record come back only with the version
   it has now. *)
Load(rows, restricted) ==
    LET ifRestricted(set) == IF restricted THEN set ELSE {}
    IN  [documents   |-> rows.documents,
         records     |-> rows.records,
         jobs        |-> rows.jobs,
         memories    |-> rows.memories,
         answers     |-> rows.answers,
         messages    |-> rows.messages,
         rebuilds    |-> rows.rebuilds,
         raw         |-> ifRestricted(rows.documentInputs),
         rawSpans    |-> ifRestricted(rows.recordInputs \intersect rows.records),
         people      |-> ifRestricted(rows.people),
         plans       |-> ifRestricted(rows.runs),
         diagnostics |-> ifRestricted(rows.diagnostics),
         resolutions |-> ifRestricted(rows.resolutions),
         purge       |-> {}]

Empty == Load(NoRows, TRUE)

-----------------------------------------------------------------------------
(* The constraints of the schema; none is deferred. *)

Owners(rows) ==
    {<<"answer", a.id>> : a \in rows.answers}
        \union {<<"memory", m>> : m \in rows.memories}
        \union {<<"rebuild_plan", p.id>> : p \in rows.rebuilds}
        \union {<<"receipt", r.ref>> : r \in rows.receipts}

Sound(rows) ==
    /\ \A row \in rows.records : DocumentOf[row.record] \in rows.documents
    /\ \A v \in rows.versions : \E row \in rows.records : row.record = v.record
    /\ rows.documentInputs \subseteq rows.documents
    /\ rows.recordInputs \subseteq rows.versions
    /\ \A e \in rows.jobDocuments :
          /\ e.document \in rows.documents
          /\ \E job \in rows.jobs : job.id = e.job
    /\ \A e \in rows.jobVersions :
          /\ e.ref \in rows.versions
          /\ \E job \in rows.jobs : job.id = e.job
    /\ rows.messages \subseteq {a.id : a \in rows.answers}
    /\ \A r \in rows.receipts :
          /\ r.ref \in rows.versions
          /\ \E a \in rows.answers : a.id = r.answer
          /\ \A other \in rows.receipts : other.ref = r.ref => other = r
    /\ \A e \in rows.dependencies :
          /\ e.ref \in rows.versions
          /\ e.owner \in Owners(rows)
    /\ rows.aliases \subseteq rows.people
    /\ \A run \in rows.runs : run.ref \in rows.versions
    /\ \A o \in rows.occurrences : o.run \in rows.runs
    /\ rows.diagnostics \subseteq rows.versions

-----------------------------------------------------------------------------
(* sync_project, one operator for each group of statements, in the order   *)
(* of the code.  s is the object, rows are what is in the tables.          *)

(* Documents, and their uploads by restricted commands: those of documents
   that are in s are written or deleted. *)
\* Mutant of WriteDocuments: uploads the command was not given are deleted.
WriteDocumentsBlindly(rows, s, restricted) ==
    [rows EXCEPT !.documents = @ \union s.documents,
                 !.documentInputs = (@ \ s.documents) \union s.raw]

WriteDocuments(rows, s, restricted) ==
    [rows EXCEPT
        !.documents = @ \union s.documents,
        !.documentInputs = IF restricted THEN (@ \ s.documents) \union s.raw
                                         ELSE @]

(* Records and their current versions; raw spans are written, never deleted. *)
WriteRecords(rows, s, restricted) ==
    [rows EXCEPT
        !.records = {row \in @ : \A new \in s.records : new.record # row.record}
                        \union s.records,
        !.versions = @ \union s.records,
        !.recordInputs = IF restricted THEN @ \union s.rawSpans ELSE @]

(* The records that are gone: what is kept about them ... *)
Stale(rows, s) ==
    {row.record : row \in rows.records} \ {row.record : row \in s.records}

DropStaleDetails(rows, s) ==
    LET gone(ref) == ref.record \in Stale(rows, s)
    IN  [rows EXCEPT
            !.resolutions  = {ref \in @ : ~gone(ref)},
            !.diagnostics  = {ref \in @ : ~gone(ref)},
            !.occurrences  = {o \in @ : ~gone(o.run.ref)},
            !.runs         = {run \in @ : ~gone(run.ref)},
            !.recordInputs = {ref \in @ : ~gone(ref)},
            !.dependencies = {e \in @ : ~gone(e.ref)}]

(* ... then their versions and themselves, then the documents (_prune). *)
DropStaleRecords(rows, s) ==
    [rows EXCEPT
        !.versions = {v \in @ : v.record \notin Stale(rows, s)},
        !.records  = {row \in @ : row.record \notin Stale(rows, s)}]

PruneDocuments(rows, s) == [rows EXCEPT !.documents = s.documents]

(* Jobs; the edges from jobs to documents and versions are cleared here. *)
WriteJobs(rows, s) ==
    [rows EXCEPT !.jobs = s.jobs, !.jobDocuments = {}, !.jobVersions = {}]

(* _sync_objects: first the edges that depend on objects, ... *)
\* Mutant of ClearEdges: the rows of record_dependencies are left in place.
ClearFewerEdges(rows) == [rows EXCEPT !.receipts = {}, !.messages = {}]

ClearEdges(rows) ==
    [rows EXCEPT !.dependencies = {}, !.receipts = {}, !.messages = {}]

(* ... then memories, answers, messages and rebuild plans, in this order. *)
WriteMemories(rows, s) == [rows EXCEPT !.memories = s.memories]
WriteAnswers(rows, s)  == [rows EXCEPT !.answers = s.answers]
WriteMessages(rows, s) == [rows EXCEPT !.messages = s.messages]
WriteRebuilds(rows, s) == [rows EXCEPT !.rebuilds = s.rebuilds]

(* _sync_references.  A receipt is identified by what it cites alone. *)
Dependencies(s) ==
    (UNION {{[owner |-> <<"answer", a.id>>, ref |-> ref] : ref \in a.cites} :
               a \in s.answers})
        \union {[owner |-> <<"memory", m>>, ref |-> m] : m \in s.memories}
        \union (UNION {{[owner |-> <<"rebuild_plan", p.id>>, ref |-> ref] :
                           ref \in p.refs} : p \in s.rebuilds})
        \union (UNION {{[owner |-> <<"receipt", ref>>, ref |-> ref] :
                           ref \in a.cites} : a \in s.answers})

JobDocuments(s) ==
    UNION {{[job |-> job.id, document |-> d] : d \in job.docs \intersect s.documents} :
              job \in s.jobs}

JobVersions(s) ==
    UNION {{[job |-> job.id, ref |-> ref] : ref \in job.refs \intersect s.records} :
              job \in s.jobs}

Receipts(s) ==
    UNION {{[ref |-> ref, answer |-> a.id] : ref \in a.cites} : a \in s.answers}

WriteReferences(rows, s) ==
    [rows EXCEPT
        !.jobDocuments = JobDocuments(s),
        !.jobVersions  = JobVersions(s),
        !.receipts     = Receipts(s),
        !.dependencies = Dependencies(s)]

(* The restricted rest: people and their aliases, those of erased people
   before the people, ... *)
WritePeople(rows, s) ==
    [rows EXCEPT !.people = @ \union s.people, !.aliases = s.people]

PrunePeople(rows, s) == [rows EXCEPT !.people = s.people]

(* ... the runs of the privacy review with what they found, ... *)
Occurrences(s) ==
    UNION {{[run |-> plan, person |-> p] : p \in plan.names \intersect s.people} :
              plan \in s.plans}

WriteRuns(rows, s) == [rows EXCEPT !.runs = @ \union s.plans,
                                   !.occurrences = @ \union Occurrences(s)]

PruneOccurrences(rows, s) == [rows EXCEPT !.occurrences = Occurrences(s)]

PruneRuns(rows, s) == [rows EXCEPT !.runs = s.plans]

(* ... what they left open, and what an administrator decided about it. *)
WriteDiagnostics(rows, s) ==
    [rows EXCEPT !.diagnostics = s.diagnostics, !.resolutions = s.resolutions]

(* _purge_prior_record_versions, for records that carry the marker. *)
PurgePriorVersions(rows, s) ==
    [rows EXCEPT
        !.recordInputs = {ref \in @ : ref.record \notin s.purge},
        !.versions = {v \in @ : v.record \in s.purge => v \in s.records}]

(* What the tables hold after each group, the last being what is committed. *)
Sync(rows, s, restricted) ==
    LET documents == WriteDocuments(rows, s, restricted)
        records   == WriteRecords(documents, s, restricted)
        details   == DropStaleDetails(records, s)
        stale     == DropStaleRecords(details, s)
        pruned    == PruneDocuments(stale, s)
        jobs      == WriteJobs(pruned, s)
        cleared   == ClearEdges(jobs)
        memories  == WriteMemories(cleared, s)
        answers   == WriteAnswers(memories, s)
        messages  == WriteMessages(answers, s)
        rebuilds  == WriteRebuilds(messages, s)
        linked    == WriteReferences(rebuilds, s)
        people    == WritePeople(linked, s)
        named     == PrunePeople(people, s)
        runs      == WriteRuns(named, s)
        found     == PruneOccurrences(runs, s)
        reviewed  == PruneRuns(found, s)
        open      == WriteDiagnostics(reviewed, s)
    IN  <<documents, records, details, stale, pruned, jobs, cleared, memories,
          answers, messages, rebuilds, linked>>
            \o (IF restricted THEN <<people, named, runs, found, reviewed, open,
                                     PurgePriorVersions(open, s)>>
                              ELSE <<PurgePriorVersions(linked, s)>>)

(* One transaction: load, change, write back.  A constraint that fails rolls
   it back; the error is no DomainError, so a job that meets it fails with
   internal_error and may be retried, into the same.  `changed' is what was
   loaded with the change made, `intended' the same change to `meant'. *)
Transaction(kind, restricted, changed, intended) ==
    LET writes == Sync(db, changed, restricted)
    IN  IF \A i \in DOMAIN writes : Sound(writes[i])
        THEN /\ db' = writes[Len(writes)]
             /\ meant' = intended
             /\ UNCHANGED refused
        ELSE /\ refused' = refused \union {kind}
             /\ UNCHANGED <<db, meant>>

-----------------------------------------------------------------------------
(* The commands. *)

JobId(kind, target) == <<kind, target>>

NewJob(kind, target, docs, refs, stage) ==
    [id |-> JobId(kind, target), docs |-> docs, refs |-> refs, stage |-> stage]

(* The one job of a kind for a target, as a set. *)
JobsOf(s, kind, target) == {job \in s.jobs : job.id = JobId(kind, target)}

Advance(s, job, refs, stage) ==
    (s.jobs \ {job}) \union {[job EXCEPT !.refs = refs, !.stage = stage]}

(* A cleanup that is not done holds the write barrier. *)
Barrier(s) ==
    \E job \in s.jobs : job.id[1] \in {"delete", "erase"} /\ job.stage # "done"

RefsOf(s, d) == {ref \in s.records : DocumentOf[ref.record] = d}

(* Records in which p occurs as s knows them (person_occurs). *)
Affected(s, p) == {ref \in s.records : ref.record \in Mentioning[p]}

Upload(d) ==
    /\ ~Barrier(db)
    /\ JobsOf(db, "ingest", d) = {}
    /\ LET Change(s) ==
              [s EXCEPT !.documents = @ \union {d},
                        !.raw = @ \union {d},
                        !.jobs = @ \union {NewJob("ingest", d, {d}, {}, "received")}]
       IN  Transaction("upload", TRUE, Change(Load(db, TRUE)), Change(meant))

(* prepare_ingestion at stage received. *)
Parse(d) ==
    /\ ~Barrier(db)
    /\ \E job \in JobsOf(db, "ingest", d) :
          /\ job.stage = "received"
          /\ LET refs == {Ref(r, 1) : r \in {x \in Record : DocumentOf[x] = d}}
                 Change(s) ==
                    [s EXCEPT !.records = @ \union refs,
                              !.rawSpans = @ \union refs,
                              !.jobs = Advance(s, job, refs, "parsed")]
             IN  Transaction("parse", TRUE, Change(Load(db, TRUE)), Change(meant))

(* persist: a plan for every record replaces the one there is, under an id of
   its own, and so do the diagnostics of records it leaves unsettled. *)
Review(d, unsettled) ==
    /\ ~Barrier(db)
    /\ \E job \in JobsOf(db, "ingest", d) :
          /\ job.stage = "parsed"
          /\ unsettled \subseteq job.refs
          /\ LET Change(s) ==
                    LET old(ref) == {plan \in s.plans : plan.ref = ref}
                        names(ref) == {p \in Person : ref.record \in Mentioning[p]}
                        plan(ref) == [ref |-> ref, names |-> names(ref),
                                      again |-> \E x \in old(ref) : ~x.again]
                    IN  [s EXCEPT
                            !.people = @ \union UNION {names(ref) : ref \in job.refs},
                            !.plans = {x \in @ : x.ref \notin job.refs}
                                          \union {plan(ref) : ref \in job.refs},
                            !.diagnostics = (@ \ job.refs) \union unsettled]
             IN  Transaction("review", TRUE, Change(Load(db, TRUE)), Change(meant))

(* resolve_privacy_diagnostic: the record is reviewed again. *)
Resolve(ref) ==
    /\ ~Barrier(db)
    /\ ref \in db.diagnostics \ db.resolutions
    /\ LET Change(s) ==
              [s EXCEPT !.resolutions = @ \union {ref},
                        !.plans = {plan \in @ : plan.ref # ref}]
       IN  Transaction("resolve", TRUE, Change(Load(db, TRUE)), Change(meant))

(* associate_person with a person there is: every record has to be reviewed
   again. *)
Associate(p) ==
    /\ ~Barrier(db)
    /\ p \in db.people
    /\ LET Change(s) == [s EXCEPT !.plans = {}]
       IN  Transaction("associate", TRUE, Change(Load(db, TRUE)), Change(meant))

(* publish of an ingestion or, below, of an erasure: the memories of the
   records, and the plan and the job of the rebuild that follows. *)
Published(s, job, target) ==
    [s EXCEPT
        !.memories = @ \union job.refs,
        !.rebuilds = @ \union (IF job.refs = {} THEN {}
                               ELSE {[id |-> target, refs |-> job.refs]}),
        !.jobs = Advance(s, job, job.refs, "done")
                     \union (IF job.refs = {} THEN {}
                             ELSE {NewJob("rebuild", target, {}, job.refs, "received")})]

Publish(d) ==
    /\ ~Barrier(db)
    /\ \E job \in JobsOf(db, "ingest", d) :
          /\ job.stage = "parsed"
          /\ \A ref \in job.refs : \E plan \in db.runs : plan.ref = ref
          /\ job.refs \intersect (db.diagnostics \ db.resolutions) = {}
          /\ LET Change(s) == Published(s, job, d)
             IN  Transaction("publish", TRUE, Change(Load(db, TRUE)), Change(meant))

(* release_answer.  cites are what its receipts refer to; it is no restricted
   command. *)
Release(a, cites) ==
    /\ ~Barrier(db)
    /\ \A answer \in db.answers : answer.id # a
    /\ cites \subseteq db.memories
    /\ cites # {}
    /\ LET Change(s) == [s EXCEPT !.answers = @ \union {[id |-> a, cites |-> cites]},
                                  !.messages = @ \union {a}]
       IN  Transaction("release", FALSE, Change(Load(db, FALSE)), Change(meant))

(* mutate_document, delete *)
RequestDelete(d) ==
    /\ ~Barrier(db)
    /\ d \in db.documents
    /\ LET Change(s) == [s EXCEPT !.jobs = @ \union
                            {NewJob("delete", d, {d}, {}, "invalidating")}]
       IN  Transaction("command", TRUE, Change(Load(db, TRUE)), Change(meant))

(* erase_person; bound: once for each person *)
RequestErase(p) ==
    /\ ~Barrier(db)
    /\ p \in db.people
    /\ JobsOf(db, "erase", p) = {}
    /\ LET docs == {DocumentOf[ref.record] : ref \in Affected(db, p)}
           Change(s) == [s EXCEPT !.jobs = @ \union
                            {NewJob("erase", p, docs, {}, "invalidating")}]
       IN  Transaction("command", TRUE, Change(Load(db, TRUE)), Change(meant))

(* What both sanitizing transactions remove with the records in refs. *)
Without(s, refs) ==
    [s EXCEPT !.answers = {},
              !.messages = {},
              !.memories = @ \ refs,
              !.rebuilds = {},
              !.plans = {plan \in @ : plan.ref \notin refs},
              !.diagnostics = @ \ refs,
              !.resolutions = @ \ refs]

(* prepare_cleanup at stage sanitizing, of a deletion *)
SanitizeDeletion(d) ==
    \E job \in JobsOf(db, "delete", d) :
        /\ job.stage = "invalidating"
        /\ LET Change(s) ==
                  [Without(s, RefsOf(s, d)) EXCEPT
                      !.documents = @ \ {d},
                      !.raw = @ \ {d},
                      !.records = @ \ RefsOf(s, d),
                      !.rawSpans = @ \ RefsOf(s, d),
                      !.jobs = Advance(s, job, {}, "rebuilding")]
           IN  Transaction("deletion", TRUE, Change(Load(db, TRUE)), Change(meant))

(* ... and of an erasure: the records in which the person occurs get a new
   version, every record of their documents loses its raw spans, and uploads
   that are not published are given up. *)
EndIngestions(jobs) ==
    {IF job.id[1] = "ingest" /\ job.stage # "done"
        THEN [job EXCEPT !.stage = "failed"] ELSE job : job \in jobs}

SanitizeErasure(p) ==
    \E job \in JobsOf(db, "erase", p) :
        /\ job.stage = "invalidating"
        /\ LET Change(s) ==
                  LET renewed == {Ref(ref.record, ref.version + 1) :
                                     ref \in Affected(s, p)}
                  IN  [Without(s, Affected(s, p)) EXCEPT
                          !.records = (@ \ Affected(s, p)) \union renewed,
                          !.raw = @ \ job.docs,
                          !.rawSpans = {ref \in @ : DocumentOf[ref.record] \notin job.docs},
                          !.jobs = Advance([s EXCEPT !.jobs = EndIngestions(@)],
                                           job, renewed, "rebuilding")]
           IN  Transaction("erasure", TRUE, Change(Load(db, TRUE)), Change(meant))

(* publish of an erasure, which forgets the person. *)
FinishErasure(p) ==
    \E job \in JobsOf(db, "erase", p) :
        /\ job.stage = "rebuilding"
        /\ LET Change(s) == [Published(s, job, p) EXCEPT !.people = @ \ {p}]
           IN  Transaction("erased", TRUE, Change(Load(db, TRUE)), Change(meant))

-----------------------------------------------------------------------------
Init ==
    /\ db = NoRows
    /\ meant = Empty
    /\ refused = {}

Next ==
    \/ \E d \in Document :
          \/ Upload(d)
          \/ Parse(d)
          \/ \E unsettled \in SUBSET {Ref(r, 1) : r \in Record} : Review(d, unsettled)
          \/ Publish(d)
          \/ RequestDelete(d)
          \/ SanitizeDeletion(d)
    \/ \E ref \in db.diagnostics : Resolve(ref)
    \/ \E p \in Person : Associate(p) \/ RequestErase(p) \/ SanitizeErasure(p)
                            \/ FinishErasure(p)
    \/ \E a \in Answer, cites \in SUBSET db.memories : Release(a, cites)

Spec == Init /\ [][Next]_vars

-----------------------------------------------------------------------------
(* Safety. *)

(* The next command finds the project as the last one left it: objects are
   neither lost nor brought back, a command that was not given the restricted
   rows does not remove them, and the rows derived from the objects are those
   of the objects there are.  (load_project, sync_project, _sync_references) *)
RoundTrip ==
    /\ [Load(db, TRUE) EXCEPT !.rawSpans = {}] = [meant EXCEPT !.rawSpans = {}]
    /\ meant.rawSpans \subseteq Load(db, TRUE).rawSpans
    /\ db.jobDocuments = JobDocuments(meant)
    /\ db.jobVersions = JobVersions(meant)
    /\ db.receipts = Receipts(meant)
    /\ db.dependencies = Dependencies(meant)
    /\ db.occurrences = Occurrences(meant)
    /\ db.aliases = meant.people

(* No command but a deletion and the release of an answer is ever refused by
   a constraint: the order in which tables are written and pruned suits the
   references there are.  (sync_project, _sync_objects) *)
OthersCommit == refused \subseteq {"deletion", "release"}

-----------------------------------------------------------------------------
(* What does not hold. *)

(* A deletion that has been accepted gets through to the tables.
   (sync_project; the comment at the head of _sync_objects) *)
DeletionsCommit == "deletion" \notin refused

(* A second answer may cite what an earlier one cites.
   (_sync_references; docs/.../http-api.md: regeneration is a new request) *)
ReleasesCommit == "release" \notin refused

(* Once an erasure has been sanitized, nothing is kept of the versions that
   named the person, nor of what was uploaded for them.
   (_purge_prior_record_versions) *)
PriorVersionsPurged ==
    \A p \in Person : \A job \in JobsOf(db, "erase", p) :
        \A ref \in job.refs :
            /\ \A v \in db.versions : v.record = ref.record => v = ref
            /\ \A v \in db.recordInputs : v.record # ref.record

(* Raw spans that a command has removed do not come back with the next one.
   (_remove_affected_raw_sources, sync_project) *)
RawSpansStayRemoved == Load(db, TRUE).rawSpans \subseteq meant.rawSpans

=============================================================================
