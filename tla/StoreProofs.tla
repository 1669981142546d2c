---------------------------- MODULE StoreProofs ----------------------------
(***************************************************************************)
(* For any documents, records, people and answers: the next command finds  *)
(* the project as the last one left it, and only deletions and releases    *)
(* are ever refused by a constraint.  The argument is that a sync that     *)
(* loses no record and no document keeps every constraint after every one  *)
(* of its writes, and that its result is known table by table (Written).   *)
(***************************************************************************)
EXTENDS Store, SequenceTheorems, TLAPS

-----------------------------------------------------------------------------
(* The invariant. *)

\* The tables there are.
Columns(rows) ==
    rows = [documents |-> rows.documents, documentInputs |-> rows.documentInputs,
            records |-> rows.records, versions |-> rows.versions,
            recordInputs |-> rows.recordInputs, jobs |-> rows.jobs,
            jobDocuments |-> rows.jobDocuments, jobVersions |-> rows.jobVersions,
            memories |-> rows.memories, answers |-> rows.answers,
            messages |-> rows.messages, rebuilds |-> rows.rebuilds,
            receipts |-> rows.receipts, dependencies |-> rows.dependencies,
            people |-> rows.people, aliases |-> rows.aliases, runs |-> rows.runs,
            occurrences |-> rows.occurrences, diagnostics |-> rows.diagnostics,
            resolutions |-> rows.resolutions]

\* What a command works on; none of them marks a record for the purge.
Field ==
    {"documents", "records", "jobs", "memories", "answers", "messages", "rebuilds", "raw",
     "rawSpans", "people", "plans", "diagnostics", "resolutions", "purge"}

Fields(s) == s = [field \in Field |-> s[field]] /\ s.purge = {}

\* A job refers to versions there are, and to its document; an erasure that has not
\* been sanitized names the documents of all records in which the person occurs.
Known(job, documents, records, versions) ==
    /\ job = [id |-> job.id, docs |-> job.docs, refs |-> job.refs, stage |-> job.stage]
    /\ job.refs \subseteq versions
    /\ job.id[1] \in {"ingest", "delete"} =>
           job.docs = {job.id[2]} /\ job.id[2] \in documents
    /\ job.id[1] = "erase" /\ job.stage = "invalidating" =>
           \A ref \in records :
               ref.record \in Mentioning[job.id[2]] => DocumentOf[ref.record] \in job.docs

JobsKnown(rows) ==
    \A job \in rows.jobs : Known(job, rows.documents, rows.records, rows.versions)

StoreInv ==
    /\ Columns(db)
    /\ Fields(meant)
    /\ Sound(db)
    /\ JobsKnown(db)
    /\ RoundTrip
    /\ OthersCommit

-----------------------------------------------------------------------------
(* A sync that loses nothing. *)

\* The objects a command hands over have what they refer to among them, or in the
\* tables; no document and no record is missing.
Writable(rows, s) ==
    /\ Fields(s)
    /\ rows.documents \subseteq s.documents
    /\ Stale(rows, s) = {}
    /\ \A row \in s.records : DocumentOf[row.record] \in s.documents
    /\ s.raw \subseteq s.documents
    /\ s.rawSpans \subseteq rows.versions \union s.records
    /\ s.memories \subseteq rows.versions \union s.records
    /\ \A a \in s.answers : a.cites \subseteq rows.versions \union s.records
    /\ s.messages \subseteq {a.id : a \in s.answers}
    /\ \A p \in s.rebuilds : p.refs \subseteq rows.versions \union s.records
    /\ \A plan \in s.plans : plan.ref \in rows.versions \union s.records
    /\ s.diagnostics \subseteq rows.versions \union s.records

\* No two answers cite the same version.
Unambiguous(s) == \A r, other \in Receipts(s) : other.ref = r.ref => other = r

\* What the tables hold then, after documents and records, ...
WithDocuments(rows, s, restricted) ==
    [rows EXCEPT
        !.documents      = s.documents,
        !.documentInputs = IF restricted THEN s.raw ELSE @,
        !.records        = s.records,
        !.versions       = @ \union s.records,
        !.recordInputs   = IF restricted THEN @ \union s.rawSpans ELSE @]

\* ... after jobs, objects and references, ...
WithReferences(rows, s) ==
    [rows EXCEPT
        !.jobs = s.jobs, !.jobDocuments = JobDocuments(s),
        !.jobVersions = JobVersions(s), !.memories = s.memories,
        !.answers = s.answers, !.messages = s.messages,
        !.rebuilds = s.rebuilds, !.receipts = Receipts(s),
        !.dependencies = Dependencies(s)]

\* ... after people, plans and diagnostics, ...
WithPeople(rows, s) ==
    [rows EXCEPT
        !.people = s.people, !.aliases = s.people, !.runs = s.plans,
        !.occurrences = Occurrences(s), !.diagnostics = s.diagnostics,
        !.resolutions = s.resolutions]

\* ... and in the end.
Written(rows, s, restricted) ==
    [documents      |-> s.documents,
     documentInputs |-> IF restricted THEN s.raw ELSE rows.documentInputs,
     records        |-> s.records,
     versions       |-> rows.versions \union s.records,
     recordInputs   |-> IF restricted THEN rows.recordInputs \union s.rawSpans
                                      ELSE rows.recordInputs,
     jobs           |-> s.jobs,
     jobDocuments   |-> JobDocuments(s),
     jobVersions    |-> JobVersions(s),
     memories       |-> s.memories,
     answers        |-> s.answers,
     messages       |-> s.messages,
     rebuilds       |-> s.rebuilds,
     receipts       |-> Receipts(s),
     dependencies   |-> Dependencies(s),
     people         |-> IF restricted THEN s.people ELSE rows.people,
     aliases        |-> IF restricted THEN s.people ELSE rows.aliases,
     runs           |-> IF restricted THEN s.plans ELSE rows.runs,
     occurrences    |-> IF restricted THEN Occurrences(s) ELSE rows.occurrences,
     diagnostics    |-> IF restricted THEN s.diagnostics ELSE rows.diagnostics,
     resolutions    |-> IF restricted THEN s.resolutions ELSE rows.resolutions]

\* Documents and records: the first five writes, of which the last three find nothing.
LEMMA FirstWrites ==
    ASSUME NEW rows, Columns(rows), Sound(rows), NEW s, Writable(rows, s),
           NEW restricted \in BOOLEAN,
           NEW documents, documents = WriteDocuments(rows, s, restricted),
           NEW records, records = WriteRecords(documents, s, restricted)
    PROVE  /\ Sound(documents)
           /\ Columns(records)
           /\ Sound(records)
           /\ records = WithDocuments(rows, s, restricted)
           /\ Writable(records, s)
           /\ records.documents = s.documents
           /\ records.records = s.records
           /\ s.records \subseteq records.versions
           /\ DropStaleDetails(records, s) = records
           /\ DropStaleRecords(records, s) = records
           /\ PruneDocuments(records, s) = records
<1>1. rows.documents \union s.documents = s.documents
      BY DEF Writable
<1>2. rows.documentInputs \ s.documents = {}
      BY DEF Writable, Sound
<1>3. documents = [rows EXCEPT !.documents = s.documents,
                               !.documentInputs = IF restricted THEN s.raw ELSE @]
      BY <1>1, <1>2 DEF Columns, WriteDocuments
<1>4. {row \in rows.records : \A new \in s.records : new.record # row.record} = {}
      BY DEF Writable, Stale
<1>5. records = WithDocuments(rows, s, restricted)
      BY <1>3, <1>4 DEF Columns, WriteRecords, WithDocuments
<1>6. Columns(records)
      BY <1>5 DEF Columns, WithDocuments
<1>7. Owners(documents) = Owners(rows) /\ Owners(records) = Owners(rows)
      BY <1>3, <1>5 DEF Columns, Owners, WithDocuments
<1>8. Sound(documents)
      BY <1>3, <1>7 DEF Columns, Sound, Writable
<1>9. Sound(records)
  <2>1. /\ records.documents = s.documents
        /\ records.documentInputs = IF restricted THEN s.raw ELSE rows.documentInputs
        /\ records.records = s.records
        /\ records.versions = rows.versions \union s.records
        /\ records.recordInputs = IF restricted THEN rows.recordInputs \union s.rawSpans
                                                 ELSE rows.recordInputs
        BY <1>5 DEF Columns, WithDocuments
  <2>2. /\ records.jobDocuments = rows.jobDocuments
        /\ records.jobVersions = rows.jobVersions
        /\ records.jobs = rows.jobs
        /\ records.messages = rows.messages
        /\ records.answers = rows.answers
        /\ records.receipts = rows.receipts
        /\ records.dependencies = rows.dependencies
        BY <1>5 DEF Columns, WithDocuments
  <2>3. /\ records.aliases = rows.aliases
        /\ records.people = rows.people
        /\ records.runs = rows.runs
        /\ records.occurrences = rows.occurrences
        /\ records.diagnostics = rows.diagnostics
        BY <1>5 DEF Columns, WithDocuments
  <2>4. \A v \in records.versions : \E row \in records.records : row.record = v.record
    <3>1. ASSUME NEW v \in rows.versions
          PROVE  \E row \in s.records : row.record = v.record
      <4>1. v.record \in {row.record : row \in rows.records}
            BY DEF Sound
      <4>2. v.record \in {row.record : row \in s.records}
            BY <4>1 DEF Writable, Stale
      <4> QED BY <4>2
    <3> QED BY <2>1, <3>1
  <2>5. records.documentInputs \subseteq records.documents
        BY <2>1 DEF Sound, Writable
  <2>6. records.recordInputs \subseteq records.versions
        BY <2>1 DEF Sound, Writable
  <2>7. \A row \in records.records : DocumentOf[row.record] \in records.documents
        BY <2>1 DEF Writable
  <2>8. \A e \in records.jobDocuments :
            /\ e.document \in records.documents
            /\ \E job \in records.jobs : job.id = e.job
        BY <2>1, <2>2 DEF Sound, Writable
  <2> QED BY <1>7, <2>1, <2>2, <2>3, <2>4, <2>5, <2>6, <2>7, <2>8 DEF Sound
<1>10. Stale(records, s) = {}
  <2>1. records.records = s.records
        BY <1>5 DEF Columns, WithDocuments
  <2> QED BY <2>1 DEF Stale
<1>11. /\ records.resolutions  = {ref \in records.resolutions : ref.record \notin Stale(records, s)}
       /\ records.diagnostics  = {ref \in records.diagnostics : ref.record \notin Stale(records, s)}
       /\ records.occurrences  = {o \in records.occurrences : o.run.ref.record \notin Stale(records, s)}
       /\ records.runs         = {run \in records.runs : run.ref.record \notin Stale(records, s)}
       /\ records.recordInputs = {ref \in records.recordInputs : ref.record \notin Stale(records, s)}
       /\ records.dependencies = {e \in records.dependencies : e.ref.record \notin Stale(records, s)}
       /\ records.versions     = {v \in records.versions : v.record \notin Stale(records, s)}
       /\ records.records      = {row \in records.records : row.record \notin Stale(records, s)}
       BY <1>10
<1>12. DropStaleDetails(records, s) = records
  <2>1. DropStaleDetails(records, s) =
            [records EXCEPT !.resolutions  = records.resolutions,
                            !.diagnostics  = records.diagnostics,
                            !.occurrences  = records.occurrences,
                            !.runs         = records.runs,
                            !.recordInputs = records.recordInputs,
                            !.dependencies = records.dependencies]
        BY <1>11 DEF DropStaleDetails
  <2>2. records = [records EXCEPT !.resolutions  = @, !.diagnostics  = @, !.occurrences  = @,
                                  !.runs = @, !.recordInputs = @, !.dependencies = @]
    <3>1. records = [column \in DOMAIN records |-> records[column]]
          BY <1>6 DEF Columns
    <3> QED BY <3>1
  <2> QED BY <2>1, <2>2
<1>14. DropStaleRecords(records, s) = records
  <2>1. DropStaleRecords(records, s) =
            [records EXCEPT !.versions = records.versions, !.records = records.records]
        BY <1>11 DEF DropStaleRecords
  <2>2. records = [records EXCEPT !.versions = @, !.records = @]
        BY <1>6 DEF Columns
  <2> QED BY <2>1, <2>2
<1>13. PruneDocuments(records, s) = records
       BY <1>5, <1>6 DEF Columns, PruneDocuments, WithDocuments
<1>15. /\ records.documents = s.documents
       /\ records.records = s.records
       /\ records.versions = rows.versions \union s.records
       BY <1>5 DEF Columns, WithDocuments
<1>16. Writable(records, s)
       BY <1>10, <1>15 DEF Writable
<1> QED BY <1>5, <1>6, <1>8, <1>9, <1>12, <1>13, <1>14, <1>15, <1>16

\* Jobs, objects and references: the edges are cleared before what they refer to is
\* replaced, and written again last.
LEMMA MiddleWrites ==
    ASSUME NEW rows, Columns(rows), Sound(rows), NEW s, Writable(rows, s),
           rows.documents = s.documents, rows.records = s.records,
           s.records \subseteq rows.versions,
           NEW jobs, jobs = WriteJobs(rows, s),
           NEW cleared, cleared = ClearEdges(jobs),
           NEW memories, memories = WriteMemories(cleared, s),
           NEW answers, answers = WriteAnswers(memories, s),
           NEW messages, messages = WriteMessages(answers, s),
           NEW rebuilds, rebuilds = WriteRebuilds(messages, s),
           NEW linked, linked = WriteReferences(rebuilds, s)
    PROVE  /\ Sound(jobs) /\ Sound(cleared) /\ Sound(memories) /\ Sound(answers)
           /\ Sound(messages) /\ Sound(rebuilds)
           /\ Unambiguous(s) => Sound(linked)
           /\ Columns(linked)
           /\ linked = WithReferences(rows, s)
<1>1. jobs = [rows EXCEPT !.jobs = s.jobs, !.jobDocuments = {}, !.jobVersions = {}]
      BY DEF WriteJobs
<1>2. cleared = [rows EXCEPT !.jobs = s.jobs, !.jobDocuments = {}, !.jobVersions = {},
                     !.dependencies = {}, !.receipts = {}, !.messages = {}]
      BY <1>1 DEF Columns, ClearEdges
<1>3. memories = [cleared EXCEPT !.memories = s.memories]
      BY DEF WriteMemories
<1>4. answers = [cleared EXCEPT !.memories = s.memories, !.answers = s.answers]
      BY <1>2, <1>3 DEF Columns, WriteAnswers
<1>5. messages = [cleared EXCEPT !.memories = s.memories, !.answers = s.answers,
                      !.messages = s.messages]
      BY <1>2, <1>4 DEF Columns, WriteMessages
<1>6. rebuilds = [cleared EXCEPT !.memories = s.memories, !.answers = s.answers,
                      !.messages = s.messages, !.rebuilds = s.rebuilds]
      BY <1>2, <1>5 DEF Columns, WriteRebuilds
<1>7. linked = WithReferences(rows, s)
      BY <1>2, <1>6 DEF Columns, WriteReferences, WithReferences
<1>8. Columns(linked)
      BY <1>7 DEF Columns, WithReferences
<1>9. Sound(jobs)
  <2>1. Owners(jobs) = Owners(rows)
        BY <1>1 DEF Columns, Owners
  <2> QED BY <1>1, <2>1 DEF Columns, Sound
<1>10. Columns(cleared) /\ cleared.dependencies = {} /\ cleared.receipts = {}
         /\ cleared.messages = {} /\ cleared.jobVersions = {} /\ cleared.jobDocuments = {}
       BY <1>2 DEF Columns
<1>11. Sound(cleared)
       BY <1>2, <1>10 DEF Columns, Sound
<1>12. Sound(memories)
       BY <1>3, <1>10, <1>11 DEF Columns, Sound
<1>13. Sound(answers)
       BY <1>4, <1>10, <1>11 DEF Columns, Sound
<1>14. Sound(messages)
       BY <1>5, <1>10, <1>11 DEF Columns, Sound, Writable
<1>15. Sound(rebuilds)
       BY <1>6, <1>10, <1>11 DEF Columns, Sound, Writable
<1>16. ASSUME Unambiguous(s) PROVE Sound(linked)
  <2>1. /\ linked.documents = s.documents
        /\ linked.documentInputs = rows.documentInputs
        /\ linked.records = s.records
        /\ linked.versions = rows.versions
        /\ linked.recordInputs = rows.recordInputs
        BY <1>7 DEF Columns, WithReferences
  <2>2. /\ linked.jobs = s.jobs
        /\ linked.jobDocuments = JobDocuments(s)
        /\ linked.jobVersions = JobVersions(s)
        /\ linked.memories = s.memories
        /\ linked.answers = s.answers
        /\ linked.messages = s.messages
        /\ linked.rebuilds = s.rebuilds
        /\ linked.receipts = Receipts(s)
        /\ linked.dependencies = Dependencies(s)
        BY <1>7 DEF Columns, WithReferences
  <2>3. /\ linked.aliases = rows.aliases
        /\ linked.people = rows.people
        /\ linked.runs = rows.runs
        /\ linked.occurrences = rows.occurrences
        /\ linked.diagnostics = rows.diagnostics
        BY <1>7 DEF Columns, WithReferences
  <2>4. \A e \in JobDocuments(s) :
            e.document \in s.documents /\ \E job \in s.jobs : job.id = e.job
        BY DEF JobDocuments
  <2>5. \A e \in JobVersions(s) :
            e.ref \in rows.versions /\ \E job \in s.jobs : job.id = e.job
        BY DEF JobVersions
  <2>6. \A r \in Receipts(s) :
            r.ref \in rows.versions /\ \E a \in s.answers : a.id = r.answer
        BY DEF Receipts, Writable
  <2>7. \A e \in Dependencies(s) : e.ref \in rows.versions /\ e.owner \in Owners(linked)
    <3>1. ASSUME NEW a \in s.answers, NEW ref \in a.cites
          PROVE  /\ ref \in rows.versions
                 /\ <<"answer", a.id>> \in Owners(linked)
                 /\ <<"receipt", ref>> \in Owners(linked)
      <4>1. [ref |-> ref, answer |-> a.id] \in linked.receipts
            BY <2>2 DEF Receipts
      <4>2. <<"receipt", ref>> \in {<<"receipt", r.ref>> : r \in linked.receipts}
            BY <4>1
      <4>3. <<"answer", a.id>> \in {<<"answer", b.id>> : b \in linked.answers}
            BY <2>2
      <4>4. ref \in rows.versions
            BY DEF Writable
      <4> QED BY <4>2, <4>3, <4>4 DEF Owners
    <3>2. ASSUME NEW m \in s.memories
          PROVE  m \in rows.versions /\ <<"memory", m>> \in Owners(linked)
          BY <2>2 DEF Owners, Writable
    <3>3. ASSUME NEW p \in s.rebuilds, NEW ref \in p.refs
          PROVE  ref \in rows.versions /\ <<"rebuild_plan", p.id>> \in Owners(linked)
          BY <2>2 DEF Owners, Writable
    <3>4. ASSUME NEW e \in Dependencies(s)
          PROVE  e.ref \in rows.versions /\ e.owner \in Owners(linked)
      <4>1. \/ \E a \in s.answers : \E ref \in a.cites :
                   e = [owner |-> <<"answer", a.id>>, ref |-> ref]
            \/ \E m \in s.memories : e = [owner |-> <<"memory", m>>, ref |-> m]
            \/ \E p \in s.rebuilds : \E ref \in p.refs :
                   e = [owner |-> <<"rebuild_plan", p.id>>, ref |-> ref]
            \/ \E a \in s.answers : \E ref \in a.cites :
                   e = [owner |-> <<"receipt", ref>>, ref |-> ref]
            BY <3>4 DEF Dependencies
      <4>2. CASE \E a \in s.answers : \E ref \in a.cites :
                   e = [owner |-> <<"answer", a.id>>, ref |-> ref]
        <5>1. PICK a \in s.answers : \E ref \in a.cites :
                   e = [owner |-> <<"answer", a.id>>, ref |-> ref]
              BY <4>2
        <5>2. PICK ref \in a.cites : e = [owner |-> <<"answer", a.id>>, ref |-> ref]
              BY <5>1
        <5> QED BY <3>1, <5>2
      <4>5. CASE \E a \in s.answers : \E ref \in a.cites :
                   e = [owner |-> <<"receipt", ref>>, ref |-> ref]
        <5>1. PICK a \in s.answers : \E ref \in a.cites :
                   e = [owner |-> <<"receipt", ref>>, ref |-> ref]
              BY <4>5
        <5>2. PICK ref \in a.cites : e = [owner |-> <<"receipt", ref>>, ref |-> ref]
              BY <5>1
        <5> QED BY <3>1, <5>2
      <4>3. CASE \E m \in s.memories : e = [owner |-> <<"memory", m>>, ref |-> m]
            BY <3>2, <4>3
      <4>4. CASE \E p \in s.rebuilds : \E ref \in p.refs :
                   e = [owner |-> <<"rebuild_plan", p.id>>, ref |-> ref]
            BY <3>3, <4>4
      <4> QED BY <4>1, <4>2, <4>3, <4>4, <4>5
    <3> QED BY <3>4
  <2>8. \A r, other \in Receipts(s) : other.ref = r.ref => other = r
        BY <1>16 DEF Unambiguous
  <2> QED BY <2>1, <2>2, <2>3, <2>4, <2>5, <2>6, <2>7, <2>8 DEF Sound, Writable
<1> QED BY <1>7, <1>8, <1>9, <1>11, <1>12, <1>13, <1>14, <1>15, <1>16

\* People, plans, diagnostics: new rows come before what refers to them and old rows go
\* after it.  Nothing is purged.
LEMMA LastWrites ==
    ASSUME NEW rows, Columns(rows), NEW s, Writable(rows, s),
           s.records \subseteq rows.versions,
           NEW people, people = WritePeople(rows, s),
           NEW named, named = PrunePeople(people, s),
           NEW runs, runs = WriteRuns(named, s),
           NEW found, found = PruneOccurrences(runs, s),
           NEW reviewed, reviewed = PruneRuns(found, s),
           NEW open, open = WriteDiagnostics(reviewed, s)
    PROVE  /\ Sound(rows) => /\ Sound(people) /\ Sound(named) /\ Sound(runs)
                             /\ Sound(found) /\ Sound(reviewed) /\ Sound(open)
           /\ Columns(open)
           /\ open = WithPeople(rows, s)
<1>1. people = [rows EXCEPT !.people = @ \union s.people, !.aliases = s.people]
      BY DEF WritePeople
<1>2. named = [rows EXCEPT !.people = s.people, !.aliases = s.people]
      BY <1>1 DEF Columns, PrunePeople
<1>3. Columns(named)
      BY <1>2 DEF Columns
<1>4. runs = [named EXCEPT !.runs = @ \union s.plans, !.occurrences = @ \union Occurrences(s)]
      BY DEF WriteRuns
<1>5. found = [named EXCEPT !.runs = @ \union s.plans, !.occurrences = Occurrences(s)]
      BY <1>3, <1>4 DEF Columns, PruneOccurrences
<1>6. reviewed = [named EXCEPT !.runs = s.plans, !.occurrences = Occurrences(s)]
      BY <1>3, <1>5 DEF Columns, PruneRuns
<1>7. Columns(reviewed)
      BY <1>3, <1>6 DEF Columns
<1>8. open = [reviewed EXCEPT !.diagnostics = s.diagnostics, !.resolutions = s.resolutions]
      BY DEF WriteDiagnostics
<1>9. open = WithPeople(rows, s)
      BY <1>2, <1>6, <1>8 DEF Columns, WithPeople
<1>10. Columns(open)
       BY <1>9 DEF Columns, WithPeople
<1>11. ASSUME Sound(rows) PROVE Sound(people)
  <2>1. Owners(people) = Owners(rows)
        BY <1>1 DEF Columns, Owners
  <2> QED BY <1>1, <1>11, <2>1 DEF Columns, Sound
<1>12. ASSUME Sound(rows) PROVE Sound(named)
  <2>1. Owners(named) = Owners(rows)
        BY <1>2 DEF Columns, Owners
  <2> QED BY <1>2, <1>12, <2>1 DEF Columns, Sound
<1>13. named.versions = rows.versions
       BY <1>2 DEF Columns
<1>14. \A o \in Occurrences(s) : o.run \in s.plans
       BY DEF Occurrences
<1>15. \A plan \in s.plans : plan.ref \in named.versions
       BY <1>13 DEF Writable
<1>16. ASSUME Sound(named) PROVE Sound(runs)
  <2>1. Owners(runs) = Owners(named)
        BY <1>3, <1>4 DEF Columns, Owners
  <2> QED BY <1>3, <1>4, <1>16, <1>14, <1>15, <2>1 DEF Columns, Sound
<1>17. ASSUME Sound(named) PROVE Sound(found)
  <2>1. Owners(found) = Owners(named)
        BY <1>3, <1>5 DEF Columns, Owners
  <2> QED BY <1>3, <1>5, <1>17, <1>14, <1>15, <2>1 DEF Columns, Sound
<1>18. ASSUME Sound(named) PROVE Sound(reviewed)
  <2>1. Owners(reviewed) = Owners(named)
        BY <1>3, <1>6 DEF Columns, Owners
  <2> QED BY <1>3, <1>6, <1>18, <1>14, <1>15, <2>1 DEF Columns, Sound
<1>19. ASSUME Sound(reviewed) PROVE Sound(open)
  <2>1. Owners(open) = Owners(reviewed)
        BY <1>7, <1>8 DEF Columns, Owners
  <2>2. reviewed.versions = rows.versions
        BY <1>3, <1>6, <1>13 DEF Columns
  <2>3. s.diagnostics \subseteq reviewed.versions
        BY <2>2 DEF Writable
  <2> QED BY <1>7, <1>8, <1>19, <2>1, <2>3 DEF Columns, Sound
<1> QED BY <1>9, <1>10, <1>11, <1>12, <1>16, <1>17, <1>18, <1>19

\* No command marks a record.
LEMMA NothingPurged ==
    ASSUME NEW rows, Columns(rows), NEW s, Fields(s)
    PROVE  PurgePriorVersions(rows, s) = rows
<1>1. s.purge = {}
      BY DEF Fields, Field
<1>2. /\ {ref \in rows.recordInputs : ref.record \notin s.purge} = rows.recordInputs
      /\ {v \in rows.versions : v.record \in s.purge => v \in s.records} = rows.versions
      BY <1>1
<1>3. PurgePriorVersions(rows, s) =
          [rows EXCEPT !.recordInputs = rows.recordInputs, !.versions = rows.versions]
      BY <1>2 DEF PurgePriorVersions
<1>4. rows = [rows EXCEPT !.recordInputs = @, !.versions = @]
      BY DEF Columns
<1> QED BY <1>3, <1>4

\* A property of the members of two lists is one of their concatenation, which ends
\* as the second list does.
LEMMA Appended ==
    ASSUME NEW S, NEW first \in Seq(S), NEW second \in Seq(S), second # <<>>
    PROVE  /\ \A i \in DOMAIN (first \o second) : (first \o second)[i] \in S
           /\ (first \o second)[Len(first \o second)] = second[Len(second)]
           /\ Len(first \o second) \in DOMAIN (first \o second)
<1>1. /\ first \o second \in Seq(S)
      /\ Len(first \o second) = Len(first) + Len(second)
      /\ \A i \in 1 .. Len(first) + Len(second) :
             (first \o second)[i] = IF i <= Len(first) THEN first[i] ELSE second[i - Len(first)]
      BY ConcatProperties
<1>2. Len(second) \in Nat \ {0} /\ Len(first) \in Nat
      BY EmptySeq
<1>3. /\ \A i \in 1 .. Len(first) : first[i] \in S
      /\ \A i \in 1 .. Len(second) : second[i] \in S
      OBVIOUS
<1>4. DOMAIN (first \o second) = 1 .. Len(first) + Len(second)
      BY <1>1
<1>5. \A i \in 1 .. Len(first) + Len(second) : (first \o second)[i] \in S
      BY <1>1, <1>2, <1>3
<1>6. (first \o second)[Len(first) + Len(second)] = second[Len(second)]
      BY <1>1, <1>2
<1> QED BY <1>1, <1>2, <1>4, <1>5, <1>6

\* What a sync of an object that loses nothing does.
LEMMA SyncWrites ==
    ASSUME NEW rows, Columns(rows), Sound(rows), NEW s, Writable(rows, s),
           NEW restricted \in BOOLEAN,
           NEW writes, writes = Sync(rows, s, restricted)
    PROVE  /\ Unambiguous(s) => \A i \in DOMAIN writes : Sound(writes[i])
           /\ writes[Len(writes)] = Written(rows, s, restricted)
           /\ Len(writes) \in DOMAIN writes
<1> DEFINE documents == WriteDocuments(rows, s, restricted)
           records   == WriteRecords(documents, s, restricted)
           jobs      == WriteJobs(records, s)
           cleared   == ClearEdges(jobs)
           memories  == WriteMemories(cleared, s)
           answers   == WriteAnswers(memories, s)
           messages  == WriteMessages(answers, s)
           rebuilds  == WriteRebuilds(messages, s)
           linked    == WriteReferences(rebuilds, s)
           people    == WritePeople(linked, s)
           named     == PrunePeople(people, s)
           runs      == WriteRuns(named, s)
           found     == PruneOccurrences(runs, s)
           reviewed  == PruneRuns(found, s)
           open      == WriteDiagnostics(reviewed, s)
           early     == <<documents, records, records, records, records, jobs, cleared,
                          memories, answers, messages, rebuilds, linked>>
           late      == IF restricted
                        THEN <<people, named, runs, found, reviewed, open, open>>
                        ELSE <<linked>>
           States    == {documents, records, jobs, cleared, memories, answers, messages,
                         rebuilds, linked, people, named, runs, found, reviewed, open}
<1>0. /\ documents = WriteDocuments(rows, s, restricted)
      /\ records = WriteRecords(documents, s, restricted)
      /\ jobs = WriteJobs(records, s)
      /\ cleared = ClearEdges(jobs)
      /\ memories = WriteMemories(cleared, s)
      /\ answers = WriteAnswers(memories, s)
      /\ messages = WriteMessages(answers, s)
      /\ rebuilds = WriteRebuilds(messages, s)
      /\ linked = WriteReferences(rebuilds, s)
      /\ people = WritePeople(linked, s)
      /\ named = PrunePeople(people, s)
      /\ runs = WriteRuns(named, s)
      /\ found = PruneOccurrences(runs, s)
      /\ reviewed = PruneRuns(found, s)
      /\ open = WriteDiagnostics(reviewed, s)
      OBVIOUS
<1> HIDE DEF documents, records, jobs, cleared, memories, answers, messages, rebuilds,
             linked, people, named, runs, found, reviewed, open
<1>1. /\ Sound(documents) /\ Sound(records)
      /\ Columns(records)
      /\ records = WithDocuments(rows, s, restricted)
      /\ Writable(records, s)
      /\ records.documents = s.documents
      /\ records.records = s.records
      /\ s.records \subseteq records.versions
      /\ DropStaleDetails(records, s) = records
      /\ DropStaleRecords(records, s) = records
      /\ PruneDocuments(records, s) = records
      BY <1>0, FirstWrites
<1>2. /\ Sound(jobs) /\ Sound(cleared) /\ Sound(memories) /\ Sound(answers)
      /\ Sound(messages) /\ Sound(rebuilds)
      /\ Unambiguous(s) => Sound(linked)
      /\ Columns(linked)
      /\ linked = WithReferences(records, s)
      BY <1>0, <1>1, MiddleWrites
<1>3. Writable(linked, s) /\ s.records \subseteq linked.versions
  <2>1. /\ linked.documents = records.documents /\ linked.records = records.records
        /\ linked.versions = records.versions
        BY <1>1, <1>2 DEF Columns, WithReferences
  <2> QED BY <1>1, <2>1 DEF Writable, Stale
<1>4. /\ Sound(linked) => /\ Sound(people) /\ Sound(named) /\ Sound(runs)
                          /\ Sound(found) /\ Sound(reviewed) /\ Sound(open)
      /\ Columns(open)
      /\ open = WithPeople(linked, s)
      BY <1>0, <1>2, <1>3, LastWrites
<1>5. Columns(open) /\ Fields(s)
      BY <1>4 DEF Writable
<1>6. PurgePriorVersions(open, s) = open /\ PurgePriorVersions(linked, s) = linked
      BY <1>2, <1>5, NothingPurged
<1>7. writes = early \o late
  <2>1. writes = <<documents, records, DropStaleDetails(records, s),
                   DropStaleRecords(records, s), PruneDocuments(records, s), jobs, cleared,
                   memories, answers, messages, rebuilds, linked>>
                     \o (IF restricted THEN <<people, named, runs, found, reviewed, open,
                                             PurgePriorVersions(open, s)>>
                                       ELSE <<PurgePriorVersions(linked, s)>>)
        BY <1>0, <1>1 DEF Sync
  <2> QED BY <1>1, <1>6, <2>1
<1>8. early \in Seq(States) /\ late \in Seq(States) /\ late # <<>>
  <2>1. early \in Seq(States)
        OBVIOUS
  <2>2. CASE restricted
    <3>1. <<people, named, runs, found, reviewed, open, open>> \in Seq(States)
          OBVIOUS
    <3>2. late = <<people, named, runs, found, reviewed, open, open>>
          BY <2>2
    <3> QED BY <2>1, <3>1, <3>2
  <2>3. CASE ~ restricted
    <3>1. <<linked>> \in Seq(States) /\ late = <<linked>>
          BY <2>3
    <3> QED BY <2>1, <3>1
  <2> QED BY <2>2, <2>3
<1>9. late[Len(late)] = IF restricted THEN open ELSE linked
      OBVIOUS
<1> HIDE DEF early, late, States
<1>10. /\ \A i \in DOMAIN writes : writes[i] \in States
       /\ writes[Len(writes)] = late[Len(late)]
       /\ Len(writes) \in DOMAIN writes
       BY <1>7, <1>8, Appended
<1>11. ASSUME Unambiguous(s), NEW state \in States
       PROVE  Sound(state)
       BY <1>1, <1>2, <1>4, <1>11 DEF States
<1>12. ASSUME restricted PROVE open = Written(rows, s, restricted)
       BY <1>1, <1>2, <1>4, <1>12
       DEF Columns, Written, WithDocuments, WithReferences, WithPeople
<1>13. ASSUME ~ restricted PROVE linked = Written(rows, s, restricted)
       BY <1>1, <1>2, <1>13 DEF Columns, Written, WithDocuments, WithReferences
<1>14. writes[Len(writes)] = Written(rows, s, restricted)
       BY <1>9, <1>10, <1>12, <1>13
<1> QED BY <1>10, <1>11, <1>14

\* A command that loses nothing either commits, and then the tables hold what Written
\* says, or is refused because two answers would cite the same version.
LEMMA Commits ==
    ASSUME Columns(db), Sound(db), NEW s, Writable(db, s), NEW restricted \in BOOLEAN,
           NEW kind, NEW m, Transaction(kind, restricted, s, m)
    PROVE  \/ /\ db' = Written(db, s, restricted)
              /\ Sound(db')
              /\ meant' = m
              /\ refused' = refused
           \/ /\ ~ Unambiguous(s)
              /\ refused' = refused \union {kind}
              /\ UNCHANGED <<db, meant>>
<1> DEFINE writes == Sync(db, s, restricted)
<1>1. /\ Unambiguous(s) => \A i \in DOMAIN writes : Sound(writes[i])
      /\ writes[Len(writes)] = Written(db, s, restricted)
      /\ Len(writes) \in DOMAIN writes
      BY SyncWrites
<1>2. IF \A i \in DOMAIN writes : Sound(writes[i])
      THEN /\ db' = writes[Len(writes)]
           /\ meant' = m
           /\ UNCHANGED refused
      ELSE /\ refused' = refused \union {kind}
           /\ UNCHANGED <<db, meant>>
      BY DEF Transaction
<1> HIDE DEF writes
<1> QED BY <1>1, <1>2

-----------------------------------------------------------------------------
(* What a command is given. *)

\* The object loaded with the restricted rows is the one meant, but for raw spans.
LEMMA Loaded ==
    ASSUME StoreInv, NEW s, s = Load(db, TRUE)
    PROVE  /\ Fields(s)
           /\ s.documents = db.documents /\ meant.documents = db.documents
           /\ s.records = db.records /\ meant.records = db.records
           /\ s.jobs = db.jobs /\ meant.jobs = db.jobs
           /\ s.memories = db.memories /\ meant.memories = db.memories
           /\ s.answers = db.answers /\ meant.answers = db.answers
           /\ s.messages = db.messages /\ meant.messages = db.messages
           /\ s.rebuilds = db.rebuilds /\ meant.rebuilds = db.rebuilds
           /\ s.raw = db.documentInputs /\ meant.raw = db.documentInputs
           /\ s.people = db.people /\ meant.people = db.people
           /\ s.plans = db.runs /\ meant.plans = db.runs
           /\ s.diagnostics = db.diagnostics /\ meant.diagnostics = db.diagnostics
           /\ s.resolutions = db.resolutions /\ meant.resolutions = db.resolutions
           /\ s.rawSpans = db.recordInputs \intersect db.records
           /\ meant.rawSpans \subseteq s.rawSpans
<1>1. /\ s.documents = db.documents
      /\ s.records = db.records
      /\ s.jobs = db.jobs
      /\ s.memories = db.memories
      /\ s.answers = db.answers
      /\ s.messages = db.messages
      /\ s.rebuilds = db.rebuilds
      /\ s.raw = db.documentInputs
      /\ s.people = db.people
      /\ s.plans = db.runs
      /\ s.diagnostics = db.diagnostics
      /\ s.resolutions = db.resolutions
      /\ s.rawSpans = db.recordInputs \intersect db.records
      /\ s.purge = {}
      BY DEF Load
<1>2. Fields(s)
      BY DEF Load, Fields, Field
<1>3. /\ [s EXCEPT !.rawSpans = {}] = [meant EXCEPT !.rawSpans = {}]
      /\ meant.rawSpans \subseteq s.rawSpans
      BY DEF StoreInv, RoundTrip
<1>4. Fields(meant)
      BY DEF StoreInv
<1>5. /\ s.documents = meant.documents
      /\ s.records = meant.records
      /\ s.jobs = meant.jobs
      /\ s.memories = meant.memories
      /\ s.answers = meant.answers
      /\ s.messages = meant.messages
      BY <1>2, <1>3, <1>4 DEF Fields, Field
<1>6. /\ s.rebuilds = meant.rebuilds
      /\ s.raw = meant.raw
      /\ s.people = meant.people
      /\ s.plans = meant.plans
      /\ s.diagnostics = meant.diagnostics
      /\ s.resolutions = meant.resolutions
      BY <1>2, <1>3, <1>4 DEF Fields, Field
<1> QED BY <1>1, <1>2, <1>3, <1>5, <1>6

\* Every reference there is goes to a version: the edges are constrained, and they are
\* those of the objects.
LEMMA References ==
    ASSUME StoreInv
    PROVE  /\ db.memories \subseteq db.versions
           /\ \A a \in db.answers : a.cites \subseteq db.versions
           /\ \A p \in db.rebuilds : p.refs \subseteq db.versions
<1>1. /\ meant.memories = db.memories /\ meant.answers = db.answers
      /\ meant.rebuilds = db.rebuilds
      BY Loaded
<1>2. db.dependencies = Dependencies(meant) /\ \A e \in db.dependencies : e.ref \in db.versions
      BY DEF StoreInv, RoundTrip, Sound
<1>3. ASSUME NEW m \in db.memories PROVE m \in db.versions
  <2>1. [owner |-> <<"memory", m>>, ref |-> m] \in Dependencies(meant)
        BY <1>1 DEF Dependencies
  <2> QED BY <1>2, <2>1
<1>4. ASSUME NEW a \in db.answers, NEW ref \in a.cites PROVE ref \in db.versions
  <2>1. [owner |-> <<"answer", a.id>>, ref |-> ref] \in Dependencies(meant)
        BY <1>1 DEF Dependencies
  <2> QED BY <1>2, <2>1
<1>5. ASSUME NEW p \in db.rebuilds, NEW ref \in p.refs PROVE ref \in db.versions
  <2>1. [owner |-> <<"rebuild_plan", p.id>>, ref |-> ref] \in Dependencies(meant)
        BY <1>1 DEF Dependencies
  <2> QED BY <1>2, <2>1
<1> QED BY <1>3, <1>4, <1>5

\* What was loaded could be written back.
LEMMA LoadedWritable ==
    ASSUME StoreInv, NEW s, s = Load(db, TRUE)
    PROVE  Writable(db, s) /\ Unambiguous(s)
<1>1. /\ Fields(s)
      /\ s.documents = db.documents
      /\ s.records = db.records
      /\ s.memories = db.memories
      /\ s.answers = db.answers /\ meant.answers = db.answers
      /\ s.messages = db.messages
      /\ s.rebuilds = db.rebuilds
      /\ s.raw = db.documentInputs
      /\ s.plans = db.runs
      /\ s.diagnostics = db.diagnostics
      /\ s.rawSpans = db.recordInputs \intersect db.records
      BY Loaded
<1>2. Sound(db)
      BY DEF StoreInv
<1>3. Stale(db, s) = {}
      BY <1>1 DEF Stale
<1>4. Writable(db, s)
      BY <1>1, <1>2, <1>3, References DEF Writable, Sound
<1>5. Receipts(s) = Receipts(meant)
      BY <1>1 DEF Receipts
<1>6. db.receipts = Receipts(meant)
      BY DEF StoreInv, RoundTrip
<1> QED BY <1>2, <1>4, <1>5, <1>6 DEF Unambiguous, Sound

\* Two objects that differ in raw spans alone, of which the second has none the first lacks.
Alike(s, m) ==
    /\ Fields(s) /\ Fields(m)
    /\ s.documents = m.documents /\ s.records = m.records /\ s.jobs = m.jobs
    /\ s.memories = m.memories /\ s.answers = m.answers /\ s.messages = m.messages
    /\ s.rebuilds = m.rebuilds /\ s.raw = m.raw /\ s.people = m.people
    /\ s.plans = m.plans /\ s.diagnostics = m.diagnostics
    /\ s.resolutions = m.resolutions
    /\ m.rawSpans \subseteq s.rawSpans \intersect s.records

\* What was loaded is like what was meant.
LEMMA LoadedAlike ==
    ASSUME StoreInv
    PROVE  Alike(Load(db, TRUE), meant)
  BY Loaded DEF Alike, StoreInv

\* Alike objects have the same rows derived from them.
LEMMA AlikeRows ==
    ASSUME NEW s, NEW m, Alike(s, m)
    PROVE  /\ JobDocuments(s) = JobDocuments(m)
           /\ JobVersions(s) = JobVersions(m)
           /\ Receipts(s) = Receipts(m)
           /\ Dependencies(s) = Dependencies(m)
           /\ Occurrences(s) = Occurrences(m)
  BY DEF Alike, JobDocuments, JobVersions, Receipts, Dependencies, Occurrences

\* The next command finds what a restricted one left.
LEMMA WrittenRoundTrip ==
    ASSUME NEW s, NEW m, Alike(s, m), db' = Written(db, s, TRUE), meant' = m
    PROVE  RoundTrip'
<1> DEFINE new == Load(db', TRUE)
<1>1. /\ db'.documents = s.documents
      /\ db'.documentInputs = s.raw
      /\ db'.records = s.records
      /\ db'.recordInputs = db.recordInputs \union s.rawSpans
      /\ db'.jobs = s.jobs
      /\ db'.jobDocuments = JobDocuments(s)
      /\ db'.jobVersions = JobVersions(s)
      BY DEF Written
<1>2. /\ db'.memories = s.memories
      /\ db'.answers = s.answers
      /\ db'.messages = s.messages
      /\ db'.rebuilds = s.rebuilds
      /\ db'.receipts = Receipts(s)
      /\ db'.dependencies = Dependencies(s)
      BY DEF Written
<1>3. /\ db'.people = s.people
      /\ db'.aliases = s.people
      /\ db'.runs = s.plans
      /\ db'.occurrences = Occurrences(s)
      /\ db'.diagnostics = s.diagnostics
      /\ db'.resolutions = s.resolutions
      BY DEF Written
<1>4. new = [documents |-> s.documents, records |-> s.records, jobs |-> s.jobs,
             memories |-> s.memories, answers |-> s.answers, messages |-> s.messages,
             rebuilds |-> s.rebuilds, raw |-> s.raw,
             rawSpans |-> (db.recordInputs \union s.rawSpans) \intersect s.records,
             people |-> s.people, plans |-> s.plans, diagnostics |-> s.diagnostics,
             resolutions |-> s.resolutions, purge |-> {}]
      BY <1>1, <1>2, <1>3 DEF Load
<1> HIDE DEF new
<1>5. [new EXCEPT !.rawSpans = {}] = [m EXCEPT !.rawSpans = {}]
      BY <1>4 DEF Alike, Fields, Field
<1>6. m.rawSpans \subseteq new.rawSpans
      BY <1>4 DEF Alike
<1>7. /\ db'.jobDocuments = JobDocuments(m)
      /\ db'.jobVersions = JobVersions(m)
      /\ db'.receipts = Receipts(m)
      /\ db'.dependencies = Dependencies(m)
      /\ db'.occurrences = Occurrences(m)
      /\ db'.aliases = m.people
      BY <1>1, <1>2, <1>3, AlikeRows DEF Alike
<1> QED BY <1>5, <1>6, <1>7 DEF RoundTrip, new

\* A restricted command that loses nothing and keeps jobs known keeps the invariant.
LEMMA RestrictedKeeps ==
    ASSUME StoreInv, NEW kind, NEW s, NEW m, Transaction(kind, TRUE, s, m),
           Writable(db, s), Unambiguous(s), Alike(s, m), JobsKnown(Written(db, s, TRUE))
    PROVE  StoreInv'
<1>1. Columns(db) /\ Sound(db)
      BY DEF StoreInv
<1>2. db' = Written(db, s, TRUE) /\ Sound(db') /\ meant' = m /\ refused' = refused
      BY <1>1, Commits
<1>3. Columns(db')
      BY <1>2 DEF Columns, Written
<1>4. Fields(meant')
      BY <1>2 DEF Alike
<1>5. RoundTrip'
      BY <1>2, WrittenRoundTrip
<1>6. OthersCommit'
      BY <1>2 DEF StoreInv, OthersCommit
<1>7. JobsKnown(db')
      BY <1>2
<1> QED BY <1>2, <1>3, <1>4, <1>5, <1>6, <1>7 DEF StoreInv

\* A command that changes neither documents nor records nor anything that refers to
\* them loses nothing.
LEMMA StillWritable ==
    ASSUME NEW s, Writable(db, s), Unambiguous(s), NEW new, Fields(new),
           new.documents = s.documents, new.records = s.records,
           new.answers = s.answers, new.messages = s.messages,
           new.memories \subseteq s.memories, new.rebuilds \subseteq s.rebuilds,
           new.raw \subseteq s.raw, new.rawSpans \subseteq s.rawSpans,
           new.plans \subseteq s.plans, new.diagnostics \subseteq s.diagnostics
    PROVE  Writable(db, new) /\ Unambiguous(new)
<1>1. Stale(db, new) = Stale(db, s)
      BY DEF Stale
<1>2. Receipts(new) = Receipts(s)
      BY DEF Receipts
<1> QED BY <1>1, <1>2 DEF Writable, Unambiguous

\* A job stays known while documents and versions are added.
LEMMA StaysKnown ==
    ASSUME NEW job, NEW documents, NEW records, NEW versions,
           Known(job, documents, records, versions),
           NEW more, documents \subseteq more,
           NEW later, versions \subseteq later
    PROVE  Known(job, more, records, later)
  BY DEF Known

\* A job goes on with versions there are, and stays known.
LEMMA AdvancedKnown ==
    ASSUME NEW job, NEW documents, NEW records, NEW versions,
           Known(job, documents, records, versions),
           NEW some, NEW refs, refs \subseteq versions, NEW stage, stage # "invalidating",
           NEW later, later = [job EXCEPT !.refs = refs, !.stage = stage]
    PROVE  Known(later, documents, some, versions) /\ later.id = job.id
<1>1. job = [id |-> job.id, docs |-> job.docs, refs |-> job.refs, stage |-> job.stage]
      BY DEF Known
<1>2. later = [id |-> job.id, docs |-> job.docs, refs |-> refs, stage |-> stage]
      BY <1>1
<1>3. later.id = job.id /\ later.docs = job.docs /\ later.refs = refs /\ later.stage = stage
      BY <1>2
<1>4. later = [id |-> later.id, docs |-> later.docs, refs |-> later.refs, stage |-> later.stage]
      BY <1>2, <1>3
<1>5. job.id[1] \in {"ingest", "delete"} => job.docs = {job.id[2]} /\ job.id[2] \in documents
      BY DEF Known
<1> HIDE <1>1, <1>2
<1> QED BY <1>3, <1>4, <1>5 DEF Known

\* The job of a command.
LEMMA JobOf ==
    ASSUME StoreInv, NEW kind, NEW target, NEW job \in JobsOf(db, kind, target)
    PROVE  /\ job \in db.jobs
           /\ job.id = <<kind, target>> /\ job.id[1] = kind /\ job.id[2] = target
           /\ Known(job, db.documents, db.records, db.versions)
<1>1. job \in db.jobs /\ job.id = <<kind, target>>
      BY DEF JobsOf, JobId
<1> QED BY <1>1 DEF StoreInv, JobsKnown

\* Jobs stay known while documents and versions are kept, unless records of further
\* documents come in while a person is being erased.
LEMMA JobsStayKnown ==
    ASSUME StoreInv, NEW s, db.documents \subseteq s.documents,
           \/ ~ Barrier(db)
           \/ \A new \in s.records : \E ref \in db.records : new.record = ref.record,
           \A job \in s.jobs :
               \/ job \in db.jobs
               \/ Known(job, s.documents, s.records, db.versions \union s.records)
    PROVE  JobsKnown(Written(db, s, TRUE))
<1>1. /\ Written(db, s, TRUE).jobs = s.jobs
      /\ Written(db, s, TRUE).documents = s.documents
      /\ Written(db, s, TRUE).records = s.records
      /\ Written(db, s, TRUE).versions = db.versions \union s.records
      BY DEF Written
<1>2. ASSUME NEW job \in db.jobs
      PROVE  Known(job, s.documents, s.records, db.versions \union s.records)
  <2>1. Known(job, db.documents, db.records, db.versions)
        BY DEF StoreInv, JobsKnown
  <2>2. CASE ~ Barrier(db)
    <3>1. ~ (job.id[1] = "erase" /\ job.stage = "invalidating")
          BY <2>2 DEF Barrier
    <3> QED BY <2>1, <3>1 DEF Known
  <2>3. CASE \A new \in s.records : \E ref \in db.records : new.record = ref.record
        BY <2>1, <2>3 DEF Known
  <2> QED BY <2>2, <2>3
<1> QED BY <1>1, <1>2 DEF JobsKnown

\* What a restricted command starts from.
LEMMA Given ==
    ASSUME StoreInv, NEW old, old = Load(db, TRUE)
    PROVE  /\ Writable(db, old) /\ Unambiguous(old) /\ Alike(old, meant)
           /\ Fields(old) /\ Fields(meant)
           /\ old.records = db.records /\ old.documents = db.documents
           /\ old.jobs = db.jobs
           /\ \A job \in db.jobs : Known(job, db.documents, db.records, db.versions)
<1>1. Writable(db, old) /\ Unambiguous(old)
      BY LoadedWritable
<1>2. Alike(old, meant)
      BY LoadedAlike
<1>3. old.records = db.records /\ old.documents = db.documents /\ old.jobs = db.jobs
      BY Loaded
<1> QED BY <1>1, <1>2, <1>3 DEF Alike, StoreInv, JobsKnown

-----------------------------------------------------------------------------
(* The commands. *)

\* An upload is written with its document and its job.
LEMMA UploadKeeps ==
    ASSUME StoreInv, NEW d \in Document, Upload(d)
    PROVE  StoreInv'
<1> DEFINE job == NewJob("ingest", d, {d}, {}, "received")
           Change(s) == [s EXCEPT !.documents = @ \union {d}, !.raw = @ \union {d},
                                  !.jobs = @ \union {job}]
           old == Load(db, TRUE)
           new == Change(old)
<1>1. Transaction("upload", TRUE, new, Change(meant))
      BY DEF Upload
<1>2. /\ Writable(db, old) /\ Unambiguous(old) /\ Alike(old, meant)
      /\ Fields(old) /\ Fields(meant)
      /\ old.records = db.records /\ old.documents = db.documents /\ old.jobs = db.jobs
      BY Given
<1> HIDE DEF old
<1>3. /\ Fields(new)
      /\ new.documents = old.documents \union {d}
      /\ new.raw = old.raw \union {d}
      /\ new.jobs = old.jobs \union {job}
      /\ new.records = old.records /\ new.rawSpans = old.rawSpans
      /\ new.memories = old.memories /\ new.answers = old.answers
      /\ new.messages = old.messages /\ new.rebuilds = old.rebuilds
      /\ new.plans = old.plans /\ new.diagnostics = old.diagnostics
      BY <1>2 DEF Fields, Field
<1>4. Alike(new, Change(meant))
      BY <1>2 DEF Alike, Fields, Field
<1> HIDE DEF new
<1>5. Writable(db, new) /\ Unambiguous(new)
  <2>1. Stale(db, new) = {}
        BY <1>2, <1>3 DEF Stale
  <2>2. Receipts(new) = Receipts(old)
        BY <1>3 DEF Receipts
  <2> QED BY <1>2, <1>3, <2>1, <2>2 DEF Writable, Unambiguous
<1>6. JobsKnown(Written(db, new, TRUE))
  <2>1. Known(job, new.documents, new.records, db.versions \union new.records)
        BY <1>3 DEF Known, NewJob, JobId
  <2> QED BY <1>2, <1>3, <2>1, JobsStayKnown
<1> QED BY <1>1, <1>4, <1>5, <1>6, RestrictedKeeps

\* The records of a document are written with their versions.
LEMMA ParseKeeps ==
    ASSUME StoreInv, NEW d \in Document, Parse(d)
    PROVE  StoreInv'
<1> DEFINE refs == {Ref(r, 1) : r \in {x \in Record : DocumentOf[x] = d}}
<1>1. PICK job \in JobsOf(db, "ingest", d) :
          LET Change(s) == [s EXCEPT !.records = @ \union refs, !.rawSpans = @ \union refs,
                                     !.jobs = Advance(s, job, refs, "parsed")]
          IN  Transaction("parse", TRUE, Change(Load(db, TRUE)), Change(meant))
      BY DEF Parse
<1> DEFINE Change(s) == [s EXCEPT !.records = @ \union refs, !.rawSpans = @ \union refs,
                                  !.jobs = Advance(s, job, refs, "parsed")]
           old == Load(db, TRUE)
           new == Change(old)
           later == [job EXCEPT !.refs = refs, !.stage = "parsed"]
<1>2. /\ Writable(db, old) /\ Unambiguous(old) /\ Alike(old, meant)
      /\ Fields(old) /\ Fields(meant)
      /\ old.records = db.records /\ old.documents = db.documents /\ old.jobs = db.jobs
      /\ \A j \in db.jobs : Known(j, db.documents, db.records, db.versions)
      BY Given
<1>3. Transaction("parse", TRUE, new, Change(meant)) /\ ~ Barrier(db)
      BY <1>1 DEF Parse
<1>4. d \in db.documents /\ Known(job, db.documents, db.records, db.versions)
  <2>1. /\ Known(job, db.documents, db.records, db.versions)
        /\ job.id[1] = "ingest" /\ job.id[2] = d
        BY JobOf
  <2> QED BY <2>1 DEF Known
<1>5. \A ref \in refs : DocumentOf[ref.record] = d
      BY DEF Ref
<1> HIDE DEF old, refs
<1>6. /\ Fields(new)
      /\ new.documents = old.documents
      /\ new.raw = old.raw
      /\ new.jobs = (old.jobs \ {job}) \union {later}
      /\ new.records = old.records \union refs /\ new.rawSpans = old.rawSpans \union refs
      /\ new.memories = old.memories /\ new.answers = old.answers
      /\ new.messages = old.messages /\ new.rebuilds = old.rebuilds
      /\ new.plans = old.plans /\ new.diagnostics = old.diagnostics
      BY <1>2 DEF Fields, Field, Advance
<1>7. Alike(new, Change(meant))
      BY <1>2 DEF Alike, Fields, Field, Advance
<1> HIDE DEF new
<1>8. Writable(db, new) /\ Unambiguous(new)
  <2>1. Stale(db, new) = {}
        BY <1>2, <1>6 DEF Stale
  <2>2. Receipts(new) = Receipts(old)
        BY <1>6 DEF Receipts
  <2> QED BY <1>2, <1>4, <1>5, <1>6, <2>1, <2>2 DEF Writable, Unambiguous
<1>9. JobsKnown(Written(db, new, TRUE))
  <2>1. Known(job, new.documents, new.records, db.versions \union new.records)
    <3>1. job.id[1] = "ingest"
          BY JobOf
    <3> QED BY <1>2, <1>4, <1>6, <3>1 DEF Known
  <2>2. Known(later, new.documents, new.records, db.versions \union new.records)
        BY <1>6, <2>1, AdvancedKnown
  <2> QED BY <1>2, <1>3, <1>6, <2>2, JobsStayKnown
<1> QED BY <1>3, <1>7, <1>8, <1>9, RestrictedKeeps

\* A review writes people before what names them, and plans of versions there are.
LEMMA ReviewKeeps ==
    ASSUME StoreInv, NEW d \in Document, NEW unsettled, Review(d, unsettled)
    PROVE  StoreInv'
<1> DEFINE Old(s, ref) == {plan \in s.plans : plan.ref = ref}
           Names(ref) == {p \in Person : ref.record \in Mentioning[p]}
           Plan(s, ref) == [ref |-> ref, names |-> Names(ref),
                            again |-> \E x \in Old(s, ref) : ~x.again]
           Plans(s, refs) == {Plan(s, ref) : ref \in refs}
           NamesOf(refs) == UNION {Names(ref) : ref \in refs}
           Change(s, refs) ==
               [s EXCEPT !.people = @ \union NamesOf(refs),
                         !.plans = {x \in @ : x.ref \notin refs} \union Plans(s, refs),
                         !.diagnostics = (@ \ refs) \union unsettled]
           old == Load(db, TRUE)
<1>1. PICK job \in JobsOf(db, "ingest", d) :
          /\ unsettled \subseteq job.refs
          /\ Transaction("review", TRUE, Change(old, job.refs), Change(meant, job.refs))
      BY DEF Review
<1> DEFINE new == Change(old, job.refs)
<1>2. /\ Writable(db, old) /\ Unambiguous(old) /\ Alike(old, meant)
      /\ Fields(old) /\ Fields(meant)
      /\ old.records = db.records /\ old.documents = db.documents /\ old.jobs = db.jobs
      BY Given
<1>3. job.refs \subseteq db.versions
  <2>1. Known(job, db.documents, db.records, db.versions)
        BY JobOf
  <2> QED BY <2>1 DEF Known
<1>4. \A ref : Plan(old, ref).ref = ref
      OBVIOUS
<1>5. Plans(old, job.refs) = Plans(meant, job.refs)
  <2>1. old.plans = meant.plans
        BY <1>2 DEF Alike
  <2> QED BY <2>1
<1>6. ASSUME NEW plan \in Plans(old, job.refs) PROVE plan.ref \in job.refs
  <2>1. PICK ref \in job.refs : plan = Plan(old, ref)
        OBVIOUS
  <2> QED BY <1>4, <2>1
<1>11. Transaction("review", TRUE, new, Change(meant, job.refs))
       BY <1>1
<1> HIDE DEF old, Plans, NamesOf
<1>7. /\ Fields(new)
      /\ new.documents = old.documents
      /\ new.raw = old.raw
      /\ new.jobs = old.jobs
      /\ new.records = old.records /\ new.rawSpans = old.rawSpans
      /\ new.memories = old.memories /\ new.answers = old.answers
      /\ new.messages = old.messages /\ new.rebuilds = old.rebuilds
      /\ new.plans = {x \in old.plans : x.ref \notin job.refs} \union Plans(old, job.refs)
      /\ new.diagnostics = (old.diagnostics \ job.refs) \union unsettled
      BY <1>2 DEF Fields, Field
<1>8. Alike(new, Change(meant, job.refs))
      BY <1>2, <1>5 DEF Alike, Fields, Field
<1> HIDE DEF new
<1>9. Writable(db, new) /\ Unambiguous(new)
  <2>1. Stale(db, new) = {}
        BY <1>2, <1>7 DEF Stale
  <2>2. Receipts(new) = Receipts(old)
        BY <1>7 DEF Receipts
  <2>3. \A plan \in new.plans : plan.ref \in db.versions \union new.records
        BY <1>2, <1>3, <1>6, <1>7 DEF Writable
  <2>4. new.diagnostics \subseteq db.versions \union new.records
        BY <1>1, <1>2, <1>3, <1>7 DEF Writable
  <2> QED BY <1>2, <1>7, <2>1, <2>2, <2>3, <2>4 DEF Writable, Unambiguous
<1>10. JobsKnown(Written(db, new, TRUE))
       BY <1>2, <1>7, JobsStayKnown
<1> QED BY <1>8, <1>9, <1>10, <1>11, RestrictedKeeps

\* A decision about a record takes its plan away.
LEMMA ResolveKeeps ==
    ASSUME StoreInv, NEW ref, Resolve(ref)
    PROVE  StoreInv'
<1> DEFINE Change(s) == [s EXCEPT !.resolutions = @ \union {ref},
                                  !.plans = {plan \in @ : plan.ref # ref}]
           old == Load(db, TRUE)
           new == Change(old)
<1>1. Transaction("resolve", TRUE, new, Change(meant))
      BY DEF Resolve
<1>2. /\ Writable(db, old) /\ Unambiguous(old) /\ Alike(old, meant)
      /\ Fields(old) /\ Fields(meant)
      /\ old.records = db.records /\ old.documents = db.documents /\ old.jobs = db.jobs
      BY Given
<1> HIDE DEF old
<1>3. /\ Fields(new)
      /\ new.documents = old.documents /\ new.records = old.records
      /\ new.jobs = old.jobs /\ new.raw = old.raw /\ new.rawSpans = old.rawSpans
      /\ new.memories = old.memories /\ new.answers = old.answers
      /\ new.messages = old.messages /\ new.rebuilds = old.rebuilds
      /\ new.plans \subseteq old.plans /\ new.diagnostics = old.diagnostics
      BY <1>2 DEF Fields, Field
<1>4. Alike(new, Change(meant))
      BY <1>2 DEF Alike, Fields, Field
<1> HIDE DEF new
<1>5. Writable(db, new) /\ Unambiguous(new)
      BY <1>2, <1>3, StillWritable
<1>6. JobsKnown(Written(db, new, TRUE))
      BY <1>2, <1>3, JobsStayKnown
<1> QED BY <1>1, <1>4, <1>5, <1>6, RestrictedKeeps

\* An association takes every plan away.
LEMMA AssociateKeeps ==
    ASSUME StoreInv, NEW p \in Person, Associate(p)
    PROVE  StoreInv'
<1> DEFINE Change(s) == [s EXCEPT !.plans = {}]
           old == Load(db, TRUE)
           new == Change(old)
<1>1. Transaction("associate", TRUE, new, Change(meant))
      BY DEF Associate
<1>2. /\ Writable(db, old) /\ Unambiguous(old) /\ Alike(old, meant)
      /\ Fields(old) /\ Fields(meant)
      /\ old.records = db.records /\ old.documents = db.documents /\ old.jobs = db.jobs
      BY Given
<1> HIDE DEF old
<1>3. /\ Fields(new)
      /\ new.documents = old.documents /\ new.records = old.records
      /\ new.jobs = old.jobs /\ new.raw = old.raw /\ new.rawSpans = old.rawSpans
      /\ new.memories = old.memories /\ new.answers = old.answers
      /\ new.messages = old.messages /\ new.rebuilds = old.rebuilds
      /\ new.plans \subseteq old.plans /\ new.diagnostics = old.diagnostics
      BY <1>2 DEF Fields, Field
<1>4. Alike(new, Change(meant))
      BY <1>2 DEF Alike, Fields, Field
<1> HIDE DEF new
<1>5. Writable(db, new) /\ Unambiguous(new)
      BY <1>2, <1>3, StillWritable
<1>6. JobsKnown(Written(db, new, TRUE))
      BY <1>2, <1>3, JobsStayKnown
<1> QED BY <1>1, <1>4, <1>5, <1>6, RestrictedKeeps

\* A cleanup is requested: its job names the documents it is about.
LEMMA RequestsKeep ==
    ASSUME StoreInv, NEW job, Known(job, db.documents, db.records, db.versions),
           LET Change(s) == [s EXCEPT !.jobs = @ \union {job}]
           IN  Transaction("command", TRUE, Change(Load(db, TRUE)), Change(meant))
    PROVE  StoreInv'
<1> DEFINE Change(s) == [s EXCEPT !.jobs = @ \union {job}]
           old == Load(db, TRUE)
           new == Change(old)
<1>1. Transaction("command", TRUE, new, Change(meant))
      OBVIOUS
<1>2. /\ Writable(db, old) /\ Unambiguous(old) /\ Alike(old, meant)
      /\ Fields(old) /\ Fields(meant)
      /\ old.records = db.records /\ old.documents = db.documents /\ old.jobs = db.jobs
      BY Given
<1> HIDE DEF old
<1>3. /\ Fields(new)
      /\ new.documents = old.documents /\ new.records = old.records
      /\ new.jobs = old.jobs \union {job}
      /\ new.raw = old.raw /\ new.rawSpans = old.rawSpans
      /\ new.memories = old.memories /\ new.answers = old.answers
      /\ new.messages = old.messages /\ new.rebuilds = old.rebuilds
      /\ new.plans = old.plans /\ new.diagnostics = old.diagnostics
      BY <1>2 DEF Fields, Field
<1>4. Alike(new, Change(meant))
      BY <1>2 DEF Alike, Fields, Field
<1> HIDE DEF new
<1>5. Writable(db, new) /\ Unambiguous(new)
      BY <1>2, <1>3, StillWritable
<1>6. JobsKnown(Written(db, new, TRUE))
  <2>1. Known(job, new.documents, new.records, db.versions \union new.records)
        BY <1>2, <1>3, StaysKnown
  <2> QED BY <1>2, <1>3, <2>1, JobsStayKnown
<1> QED BY <1>1, <1>4, <1>5, <1>6, RestrictedKeeps

\* A deletion that is requested: the job names the document it deletes.
LEMMA RequestDeleteKeeps ==
    ASSUME StoreInv, NEW d \in Document, RequestDelete(d)
    PROVE  StoreInv'
<1> DEFINE job == NewJob("delete", d, {d}, {}, "invalidating")
<1>1. LET Change(s) == [s EXCEPT !.jobs = @ \union {job}]
      IN  Transaction("command", TRUE, Change(Load(db, TRUE)), Change(meant))
      BY DEF RequestDelete
<1>2. Known(job, db.documents, db.records, db.versions)
      BY DEF RequestDelete, Known, NewJob, JobId
<1> QED BY <1>1, <1>2, RequestsKeep

\* An erasure that is requested: the job names the documents of every record in
\* which the person occurs.
LEMMA RequestEraseKeeps ==
    ASSUME StoreInv, NEW p \in Person, RequestErase(p)
    PROVE  StoreInv'
<1> DEFINE docs == {DocumentOf[ref.record] : ref \in Affected(db, p)}
           job == NewJob("erase", p, docs, {}, "invalidating")
<1>1. LET Change(s) == [s EXCEPT !.jobs = @ \union {job}]
      IN  Transaction("command", TRUE, Change(Load(db, TRUE)), Change(meant))
      BY DEF RequestErase
<1>2. \A ref \in db.records : ref.record \in Mentioning[p] => DocumentOf[ref.record] \in docs
      BY DEF Affected
<1> HIDE DEF docs
<1>3. Known(job, db.documents, db.records, db.versions)
      BY <1>2 DEF Known, NewJob, JobId
<1> QED BY <1>1, <1>3, RequestsKeep DEF docs

\* A publication adds memories and a rebuild plan of versions there are; that of an
\* erasure forgets a person as well.
LEMMA PublicationKeeps ==
    ASSUME StoreInv, NEW job \in db.jobs, NEW target, NEW kind, NEW gone,
           LET Change(s) == [Published(s, job, target) EXCEPT !.people = @ \ gone]
           IN  Transaction(kind, TRUE, Change(Load(db, TRUE)), Change(meant))
    PROVE  StoreInv'
<1> DEFINE plans == IF job.refs = {} THEN {} ELSE {[id |-> target, refs |-> job.refs]}
           follow == IF job.refs = {} THEN {}
                     ELSE {NewJob("rebuild", target, {}, job.refs, "received")}
           later == [job EXCEPT !.refs = job.refs, !.stage = "done"]
           Change(s) == [Published(s, job, target) EXCEPT !.people = @ \ gone]
           old == Load(db, TRUE)
           new == Change(old)
<1>1. Transaction(kind, TRUE, new, Change(meant))
      OBVIOUS
<1>2. /\ Writable(db, old) /\ Unambiguous(old) /\ Alike(old, meant)
      /\ Fields(old) /\ Fields(meant)
      /\ old.records = db.records /\ old.documents = db.documents /\ old.jobs = db.jobs
      BY Given
<1>3. Known(job, db.documents, db.records, db.versions) /\ job.refs \subseteq db.versions
      BY Given DEF Known
<1>4. \A p \in plans : p.refs \subseteq db.versions
      BY <1>3
<1>5. \A j \in follow : \A documents, records : Known(j, documents, records, db.versions)
      BY <1>3 DEF Known, NewJob, JobId
<1> HIDE DEF old, plans, follow, later
<1>6. ASSUME NEW s, Fields(s)
      PROVE  /\ Fields(Change(s))
             /\ Change(s).documents = s.documents /\ Change(s).records = s.records
             /\ Change(s).jobs = ((s.jobs \ {job}) \union {later}) \union follow
             /\ Change(s).raw = s.raw /\ Change(s).rawSpans = s.rawSpans
             /\ Change(s).memories = s.memories \union job.refs
             /\ Change(s).answers = s.answers /\ Change(s).messages = s.messages
             /\ Change(s).rebuilds = s.rebuilds \union plans
             /\ Change(s).plans = s.plans /\ Change(s).diagnostics = s.diagnostics
             /\ Change(s).resolutions = s.resolutions
             /\ Change(s).people = s.people \ gone
  <2>1. Published(s, job, target) =
            [s EXCEPT !.memories = @ \union job.refs, !.rebuilds = @ \union plans,
                      !.jobs = ((s.jobs \ {job}) \union {later}) \union follow]
        BY DEF Published, Advance, plans, later, follow
  <2>2. Change(s) =
            [s EXCEPT !.memories = @ \union job.refs, !.rebuilds = @ \union plans,
                      !.jobs = ((s.jobs \ {job}) \union {later}) \union follow,
                      !.people = @ \ gone]
        BY <1>6, <2>1 DEF Fields, Field
  <2> HIDE DEF Change
  <2> QED BY <1>6, <2>2 DEF Fields, Field
<1> HIDE DEF Change
<1>7. /\ Fields(new)
      /\ new.documents = old.documents /\ new.records = old.records
      /\ new.jobs = ((old.jobs \ {job}) \union {later}) \union follow
      /\ new.raw = old.raw /\ new.rawSpans = old.rawSpans
      /\ new.memories = old.memories \union job.refs
      /\ new.answers = old.answers /\ new.messages = old.messages
      /\ new.rebuilds = old.rebuilds \union plans
      /\ new.plans = old.plans /\ new.diagnostics = old.diagnostics
      BY <1>2, <1>6
<1>8. Alike(new, Change(meant))
  <2> DEFINE m == Change(meant)
  <2>1. /\ Fields(m)
        /\ m.documents = meant.documents /\ m.records = meant.records
        /\ m.jobs = ((meant.jobs \ {job}) \union {later}) \union follow
        /\ m.raw = meant.raw /\ m.rawSpans = meant.rawSpans
        /\ m.memories = meant.memories \union job.refs
        /\ m.answers = meant.answers /\ m.messages = meant.messages
        /\ m.rebuilds = meant.rebuilds \union plans
        /\ m.plans = meant.plans /\ m.diagnostics = meant.diagnostics
        /\ m.resolutions = meant.resolutions
        /\ m.people = meant.people \ gone
        BY <1>2, <1>6
  <2>2. new.resolutions = old.resolutions /\ new.people = old.people \ gone
        BY <1>2, <1>6
  <2> HIDE DEF m, new
  <2>3. Alike(new, m)
        BY <1>2, <1>7, <2>1, <2>2 DEF Alike
  <2> QED BY <2>3 DEF m
<1> HIDE DEF new
<1>9. Writable(db, new) /\ Unambiguous(new)
  <2>1. Stale(db, new) = {}
        BY <1>2, <1>7 DEF Stale
  <2>2. Receipts(new) = Receipts(old)
        BY <1>7 DEF Receipts
  <2> QED BY <1>2, <1>3, <1>4, <1>7, <2>1, <2>2 DEF Writable, Unambiguous
<1>10. JobsKnown(Written(db, new, TRUE))
  <2>1. Known(job, new.documents, new.records, db.versions \union new.records)
        BY <1>2, <1>3, <1>7, StaysKnown
  <2>2. Known(later, new.documents, new.records, db.versions \union new.records)
        BY <1>3, <2>1, AdvancedKnown DEF later
  <2>3. \A j \in follow : Known(j, new.documents, new.records, db.versions \union new.records)
        BY <1>5, StaysKnown
  <2> QED BY <1>2, <1>7, <2>2, <2>3, JobsStayKnown
<1> QED BY <1>1, <1>8, <1>9, <1>10, RestrictedKeeps

\* The publication of an ingestion is a publication that removes nobody.
LEMMA PublishKeeps ==
    ASSUME StoreInv, NEW d \in Document, Publish(d)
    PROVE  StoreInv'
<1>1. PICK job \in JobsOf(db, "ingest", d) :
          Transaction("publish", TRUE, Published(Load(db, TRUE), job, d), Published(meant, job, d))
      BY DEF Publish
<1>2. Fields(Load(db, TRUE)) /\ Fields(meant)
      BY Given
<1>3. ASSUME NEW s, Fields(s)
      PROVE  Published(s, job, d) = [Published(s, job, d) EXCEPT !.people = @ \ {}]
  <2>1. Fields(Published(s, job, d))
        BY <1>3 DEF Fields, Field, Published
  <2> QED BY <2>1 DEF Fields, Field
<1>4. LET Change(s) == [Published(s, job, d) EXCEPT !.people = @ \ {}]
      IN  Transaction("publish", TRUE, Change(Load(db, TRUE)), Change(meant))
      BY <1>1, <1>2, <1>3
<1>5. job \in db.jobs
      BY JobOf
<1> QED BY <1>4, <1>5, PublicationKeeps

\* The end of an erasure is a publication that removes the person.
LEMMA FinishErasureKeeps ==
    ASSUME StoreInv, NEW p \in Person, FinishErasure(p)
    PROVE  StoreInv'
<1>1. PICK job \in JobsOf(db, "erase", p) :
          LET Change(s) == [Published(s, job, p) EXCEPT !.people = @ \ {p}]
          IN  Transaction("erased", TRUE, Change(Load(db, TRUE)), Change(meant))
      BY DEF FinishErasure
<1>2. job \in db.jobs
      BY JobOf
<1> QED BY <1>1, <1>2, PublicationKeeps

\* The tables that the first writes touch, and that of the edges from jobs to documents.
Touched ==
    {"documents", "documentInputs", "records", "versions", "recordInputs", "jobDocuments",
     "dependencies", "runs", "occurrences", "diagnostics", "resolutions"}

Touchable(rows) == rows = [table \in DOMAIN rows |-> rows[table]] /\ Touched \subseteq DOMAIN rows

\* A deletion never commits: its job still refers to the document when that is pruned.
LEMMA SanitizeDeletionRefused ==
    ASSUME StoreInv, NEW d \in Document, SanitizeDeletion(d)
    PROVE  refused' = refused \union {"deletion"} /\ UNCHANGED <<db, meant>>
<1> DEFINE Change(s, job) == [Without(s, RefsOf(s, d)) EXCEPT
                                 !.documents = @ \ {d},
                                 !.raw = @ \ {d},
                                 !.records = @ \ RefsOf(s, d),
                                 !.rawSpans = @ \ RefsOf(s, d),
                                 !.jobs = Advance(s, job, {}, "rebuilding")]
           old == Load(db, TRUE)
<1>1. PICK job \in JobsOf(db, "delete", d) :
          Transaction("deletion", TRUE, Change(old, job), Change(meant, job))
      BY DEF SanitizeDeletion
<1> DEFINE new == Change(old, job)
           documents == WriteDocuments(db, new, TRUE)
           records   == WriteRecords(documents, new, TRUE)
           details   == DropStaleDetails(records, new)
           stale     == DropStaleRecords(details, new)
           pruned    == PruneDocuments(stale, new)
           writes    == Sync(db, new, TRUE)
           edge      == [job |-> job.id, document |-> d]
<1>2. edge \in db.jobDocuments
  <2>1. /\ job \in db.jobs /\ Known(job, db.documents, db.records, db.versions)
        /\ job.id[1] = "delete" /\ job.id[2] = d
        BY JobOf
  <2>2. d \in job.docs \intersect db.documents
        BY <2>1 DEF Known
  <2>3. db.jobDocuments = JobDocuments(meant) /\ meant.jobs = db.jobs
        /\ meant.documents = db.documents
        BY Loaded DEF StoreInv, RoundTrip
  <2> QED BY <2>1, <2>2, <2>3 DEF JobDocuments
<1>3. d \notin new.documents
  <2>1. Fields(old)
        BY Given
  <2> HIDE DEF old
  <2> QED BY <2>1 DEF Fields, Field, Without
<1> HIDE DEF new
<1>4. Touchable(db)
      BY DEF StoreInv, Columns, Touchable, Touched
<1>5. Touchable(documents) /\ documents.jobDocuments = db.jobDocuments
      BY <1>4 DEF Touchable, Touched, WriteDocuments
<1> HIDE DEF documents
<1>6. Touchable(records) /\ records.jobDocuments = db.jobDocuments
      BY <1>5 DEF Touchable, Touched, WriteRecords
<1> HIDE DEF records
<1>7. Touchable(details) /\ details.jobDocuments = db.jobDocuments
      BY <1>6 DEF Touchable, Touched, DropStaleDetails
<1> HIDE DEF details
<1>8. Touchable(stale) /\ stale.jobDocuments = db.jobDocuments
      BY <1>7 DEF Touchable, Touched, DropStaleRecords
<1> HIDE DEF stale
<1>9. pruned.documents = new.documents /\ pruned.jobDocuments = db.jobDocuments
      BY <1>8 DEF Touchable, Touched, PruneDocuments
<1> HIDE DEF pruned
<1>10. ~ Sound(pruned)
       BY <1>2, <1>3, <1>9 DEF Sound
<1>11. 5 \in DOMAIN writes /\ writes[5] = pruned
       BY DEF Sync, documents, records, details, stale, pruned
<1> HIDE DEF writes
<1>12. refused' = refused \union {"deletion"} /\ UNCHANGED <<db, meant>>
  <2>1. IF \A i \in DOMAIN writes : Sound(writes[i])
        THEN /\ db' = writes[Len(writes)]
             /\ meant' = Change(meant, job)
             /\ UNCHANGED refused
        ELSE /\ refused' = refused \union {"deletion"}
             /\ UNCHANGED <<db, meant>>
        BY <1>1 DEF Transaction, writes, new
  <2> QED BY <1>10, <1>11, <2>1
<1> QED BY <1>12

\* So it keeps the invariant.
LEMMA SanitizeDeletionKeeps ==
    ASSUME StoreInv, NEW d \in Document, SanitizeDeletion(d)
    PROVE  StoreInv'
BY SanitizeDeletionRefused DEF StoreInv, OthersCommit, RoundTrip

\* An erasure renews records, and removes the raw spans of all it renews: they are in
\* documents its job names.
LEMMA SanitizeErasureKeeps ==
    ASSUME StoreInv, NEW p \in Person, SanitizeErasure(p)
    PROVE  StoreInv'
<1> DEFINE some == Affected(db, p)
           renewed == {Ref(ref.record, ref.version + 1) : ref \in some}
           Later(job) == [job EXCEPT !.refs = renewed, !.stage = "rebuilding"]
           Ended(job) == (EndIngestions(db.jobs) \ {job}) \union {Later(job)}
           Change(s, job) ==
               [s EXCEPT !.answers = {}, !.messages = {}, !.memories = @ \ some,
                         !.rebuilds = {}, !.plans = {plan \in @ : plan.ref \notin some},
                         !.diagnostics = @ \ some, !.resolutions = @ \ some,
                         !.records = (@ \ some) \union renewed,
                         !.raw = @ \ job.docs,
                         !.rawSpans = {ref \in @ : DocumentOf[ref.record] \notin job.docs},
                         !.jobs = Ended(job)]
           old == Load(db, TRUE)
<1>1. /\ Writable(db, old) /\ Unambiguous(old) /\ Alike(old, meant)
      /\ Fields(old) /\ Fields(meant)
      /\ old.records = db.records /\ old.documents = db.documents /\ old.jobs = db.jobs
      /\ \A job \in db.jobs : Known(job, db.documents, db.records, db.versions)
      BY Given
<1>2. PICK job \in JobsOf(db, "erase", p) :
          /\ job.stage = "invalidating"
          /\ Transaction("erasure", TRUE, Change(old, job), Change(meant, job))
  <2> DEFINE Code(s, job) ==
                 LET again == {Ref(ref.record, ref.version + 1) : ref \in Affected(s, p)}
                 IN  [Without(s, Affected(s, p)) EXCEPT
                         !.records = (@ \ Affected(s, p)) \union again,
                         !.raw = @ \ job.docs,
                         !.rawSpans = {ref \in @ : DocumentOf[ref.record] \notin job.docs},
                         !.jobs = Advance([s EXCEPT !.jobs = EndIngestions(@)],
                                          job, again, "rebuilding")]
  <2>1. PICK job \in JobsOf(db, "erase", p) :
            /\ job.stage = "invalidating"
            /\ Transaction("erasure", TRUE, Code(old, job), Code(meant, job))
        BY DEF SanitizeErasure
  <2>2. ASSUME NEW s, Fields(s), s.records = db.records, s.jobs = db.jobs
        PROVE  Code(s, job) = Change(s, job)
    <3>1. Affected(s, p) = some
          BY <2>2 DEF Affected
    <3>2. Advance([s EXCEPT !.jobs = EndIngestions(@)], job, renewed, "rebuilding") = Ended(job)
          BY <2>2 DEF Advance, Fields, Field
    <3> QED BY <2>2, <3>1, <3>2 DEF Without, Fields, Field
  <2>3. meant.records = db.records /\ meant.jobs = db.jobs
        BY <1>1 DEF Alike
  <2> QED BY <1>1, <2>1, <2>2, <2>3
<1> DEFINE new == Change(old, job)
           m == Change(meant, job)
<1>3. /\ job \in db.jobs /\ Known(job, db.documents, db.records, db.versions)
      /\ \A ref \in some : ref \in db.records /\ DocumentOf[ref.record] \in job.docs
  <2>1. /\ job \in db.jobs /\ Known(job, db.documents, db.records, db.versions)
        /\ job.id[1] = "erase" /\ job.id[2] = p
        BY JobOf
  <2> QED BY <1>2, <2>1 DEF Known, Affected
<1>4. \A new1 \in renewed : \E ref \in some : new1.record = ref.record
      BY DEF Ref
<1>5. ASSUME NEW ref \in some PROVE \E new1 \in renewed : new1.record = ref.record
  <2>1. Ref(ref.record, ref.version + 1) \in renewed
        OBVIOUS
  <2>2. Ref(ref.record, ref.version + 1).record = ref.record
        BY DEF Ref
  <2> QED BY <2>1, <2>2
<1>6. Transaction("erasure", TRUE, new, m)
      BY <1>2
<1> HIDE DEF old, some, renewed, Ended
<1>7. /\ Fields(new)
      /\ new.documents = old.documents /\ new.jobs = Ended(job)
      /\ new.raw = old.raw \ job.docs
      /\ new.records = (old.records \ some) \union renewed
      /\ new.rawSpans = {ref \in old.rawSpans : DocumentOf[ref.record] \notin job.docs}
      /\ new.memories = old.memories \ some
      /\ new.answers = {} /\ new.messages = {} /\ new.rebuilds = {}
      /\ new.plans = {plan \in old.plans : plan.ref \notin some}
      /\ new.diagnostics = old.diagnostics \ some
      /\ new.people = old.people /\ new.resolutions = old.resolutions \ some
      BY <1>1 DEF Fields, Field
<1>8. /\ Fields(m)
      /\ m.documents = meant.documents /\ m.jobs = Ended(job)
      /\ m.raw = meant.raw \ job.docs
      /\ m.records = (meant.records \ some) \union renewed
      /\ m.rawSpans = {ref \in meant.rawSpans : DocumentOf[ref.record] \notin job.docs}
      /\ m.memories = meant.memories \ some
      /\ m.answers = {} /\ m.messages = {} /\ m.rebuilds = {}
      /\ m.plans = {plan \in meant.plans : plan.ref \notin some}
      /\ m.diagnostics = meant.diagnostics \ some
      /\ m.people = meant.people /\ m.resolutions = meant.resolutions \ some
      BY <1>1 DEF Fields, Field
<1> HIDE DEF new, m, Change
<1>9. Alike(new, m)
  <2>1. m.rawSpans \subseteq new.rawSpans \intersect new.records
    <3>1. ASSUME NEW ref \in m.rawSpans
          PROVE  ref \in new.rawSpans /\ ref \in new.records
      <4>1. ref \in meant.rawSpans /\ DocumentOf[ref.record] \notin job.docs
            BY <1>8
      <4>2. ref \in old.rawSpans /\ ref \in old.records
            BY <1>1, <4>1 DEF Alike
      <4> QED BY <1>3, <1>7, <4>1, <4>2
    <3> QED BY <3>1
  <2> QED BY <1>1, <1>7, <1>8, <2>1 DEF Alike
<1>10. \A new1 \in new.records : \E ref \in db.records : new1.record = ref.record
       BY <1>1, <1>3, <1>4, <1>7
<1>11. Writable(db, new) /\ Unambiguous(new)
  <2>1. Stale(db, new) = {}
    <3>1. ASSUME NEW ref \in db.records
          PROVE  \E new1 \in new.records : new1.record = ref.record
          BY <1>1, <1>5, <1>7
    <3> QED BY <3>1 DEF Stale
  <2>2. Receipts(new) = {}
        BY <1>7 DEF Receipts
  <2>3. \A row \in new.records : DocumentOf[row.record] \in new.documents
        BY <1>1, <1>7, <1>10 DEF Writable
  <2>4. new.rawSpans \subseteq db.versions \union new.records
    <3>1. old.rawSpans \subseteq db.versions
      <4>1. old.rawSpans = db.recordInputs \intersect db.records
            BY Loaded DEF old
      <4>2. db.recordInputs \subseteq db.versions
            BY DEF StoreInv, Sound
      <4> QED BY <4>1, <4>2
    <3> QED BY <1>7, <3>1
  <2>5. /\ new.memories \subseteq db.versions
        /\ \A plan \in new.plans : plan.ref \in db.versions
        /\ new.diagnostics \subseteq db.versions
    <3>1. old.memories = db.memories /\ old.plans = db.runs /\ old.diagnostics = db.diagnostics
          BY Loaded DEF old
    <3>2. /\ \A plan \in db.runs : plan.ref \in db.versions
          /\ db.diagnostics \subseteq db.versions
          BY DEF StoreInv, Sound
    <3> QED BY <1>7, <3>1, <3>2, References
  <2> QED BY <1>1, <1>7, <2>1, <2>2, <2>3, <2>4, <2>5 DEF Writable, Unambiguous
<1>12. JobsKnown(Written(db, new, TRUE))
  <2>1. ASSUME NEW j \in db.jobs
        PROVE  Known([j EXCEPT !.stage = "failed"], new.documents, new.records,
                     db.versions \union new.records)
    <3>1. Known(j, new.documents, db.records, db.versions \union new.records)
          BY <1>1, <1>7, StaysKnown
    <3> DEFINE k == [j EXCEPT !.stage = "failed"]
    <3>2. k = [j EXCEPT !.refs = j.refs, !.stage = "failed"]
      <4>1. j = [id |-> j.id, docs |-> j.docs, refs |-> j.refs, stage |-> j.stage]
            BY <3>1 DEF Known
      <4> QED BY <4>1
    <3>3. j.refs \subseteq db.versions \union new.records
          BY <3>1 DEF Known
    <3> HIDE DEF k
    <3>4. Known(k, new.documents, new.records, db.versions \union new.records)
          BY <3>1, <3>2, <3>3, AdvancedKnown
    <3> QED BY <3>4 DEF k
  <2>2. Known(Later(job), new.documents, new.records, db.versions \union new.records)
    <3>1. Known(job, new.documents, db.records, db.versions \union new.records)
          BY <1>1, <1>3, <1>7, StaysKnown
    <3> QED BY <1>7, <3>1, AdvancedKnown
  <2>3. ASSUME NEW j \in new.jobs
        PROVE  \/ j \in db.jobs
               \/ j = Later(job)
               \/ \E other \in db.jobs : j = [other EXCEPT !.stage = "failed"]
        BY <1>7 DEF Ended, EndIngestions
  <2> HIDE DEF Later
  <2>4. \A j \in new.jobs :
            \/ j \in db.jobs
            \/ Known(j, new.documents, new.records, db.versions \union new.records)
        BY <2>1, <2>2, <2>3
  <2>5. db.documents \subseteq new.documents
        BY <1>1, <1>7
  <2> QED BY <1>10, <2>4, <2>5, JobsStayKnown
<1> QED BY <1>6, <1>9, <1>11, <1>12, RestrictedKeeps

\* Two projects that agree in every column but the raw spans are equal once both
\* have none.
LEMMA SpansApart ==
    ASSUME NEW s, NEW r, Fields(s), Fields(r),
           /\ s.documents = r.documents /\ s.records = r.records
           /\ s.jobs = r.jobs /\ s.memories = r.memories
           /\ s.answers = r.answers /\ s.messages = r.messages
           /\ s.rebuilds = r.rebuilds /\ s.raw = r.raw
           /\ s.people = r.people /\ s.plans = r.plans
           /\ s.diagnostics = r.diagnostics /\ s.resolutions = r.resolutions
    PROVE  [s EXCEPT !.rawSpans = {}] = [r EXCEPT !.rawSpans = {}]
BY DEF Fields, Field

\* A release is no restricted command: what it was not given it does not write.  It is
\* refused when it cites what another answer cites.
LEMMA ReleaseKeeps ==
    ASSUME StoreInv, NEW a \in Answer, NEW cites \in SUBSET db.memories, Release(a, cites)
    PROVE  StoreInv'
<1> DEFINE answer == [id |-> a, cites |-> cites]
           Change(s) == [s EXCEPT !.answers = @ \union {answer}, !.messages = @ \union {a}]
           old == Load(db, FALSE)
           new == Change(old)
           m == Change(meant)
<1>1. Transaction("release", FALSE, new, m)
      BY DEF Release
<1>2. Fields(meant) /\ Columns(db) /\ Sound(db)
      BY DEF StoreInv
<1>3. /\ Fields(old)
      /\ old.documents = db.documents /\ old.records = db.records /\ old.jobs = db.jobs
      /\ old.memories = db.memories /\ old.answers = db.answers
      /\ old.messages = db.messages /\ old.rebuilds = db.rebuilds
      /\ old.raw = {} /\ old.rawSpans = {} /\ old.plans = {} /\ old.diagnostics = {}
  <2>1. Fields(old)
        BY DEF Load, Fields, Field
  <2> QED BY <2>1 DEF Load
<1> HIDE DEF old
<1>4. /\ Fields(new)
      /\ new.documents = db.documents /\ new.records = db.records /\ new.jobs = db.jobs
      /\ new.memories = db.memories /\ new.answers = db.answers \union {answer}
      /\ new.messages = db.messages \union {a} /\ new.rebuilds = db.rebuilds
      /\ new.raw = {} /\ new.rawSpans = {} /\ new.plans = {} /\ new.diagnostics = {}
      BY <1>3 DEF Fields, Field
<1>5. /\ Fields(m)
      /\ m.documents = meant.documents /\ m.records = meant.records /\ m.jobs = meant.jobs
      /\ m.memories = meant.memories /\ m.answers = meant.answers \union {answer}
      /\ m.messages = meant.messages \union {a} /\ m.rebuilds = meant.rebuilds
      /\ m.raw = meant.raw /\ m.rawSpans = meant.rawSpans /\ m.people = meant.people
      /\ m.plans = meant.plans /\ m.diagnostics = meant.diagnostics
      /\ m.resolutions = meant.resolutions
      BY <1>2 DEF Fields, Field
<1> HIDE DEF new, m
<1>6. Writable(db, new)
  <2>1. Stale(db, new) = {}
        BY <1>4 DEF Stale
  <2>2. answer.id = a /\ answer.cites \subseteq db.versions
        BY References
  <2>3. new.messages \subseteq {b.id : b \in new.answers}
        BY <1>2, <1>4, <2>2 DEF Sound
  <2>4. \A b \in new.answers : b.cites \subseteq db.versions \union new.records
        BY <1>4, <2>2, References
  <2>5. /\ new.memories \subseteq db.versions
        /\ \A p \in new.rebuilds : p.refs \subseteq db.versions
        BY <1>4, References
  <2>6. \A row \in new.records : DocumentOf[row.record] \in new.documents
        BY <1>2, <1>4 DEF Sound
  <2> QED BY <1>4, <2>1, <2>3, <2>4, <2>5, <2>6 DEF Writable
<1>7. CASE /\ db' = Written(db, new, FALSE) /\ Sound(db') /\ meant' = m /\ refused' = refused
  <2>1. Columns(db')
        BY <1>7 DEF Columns, Written
  <2>2. OthersCommit'
        BY <1>7 DEF StoreInv, OthersCommit
  <2>3. JobsKnown(db')
    <3>1. /\ db'.jobs = db.jobs /\ db'.documents = db.documents /\ db'.records = db.records
          /\ db'.versions = db.versions \union db.records
          BY <1>4, <1>7 DEF Written
    <3>2. \A job \in db.jobs : Known(job, db.documents, db.records, db.versions)
          BY Given
    <3>3. \A job \in db.jobs :
              Known(job, db.documents, db.records, db.versions \union db.records)
          BY <3>2, StaysKnown
    <3> QED BY <3>1, <3>3 DEF JobsKnown
  <2>4. RoundTrip'
    <3> DEFINE later == Load(db', TRUE)
    <3>1. /\ db'.documents = new.documents /\ db'.records = new.records
          /\ db'.jobs = new.jobs /\ db'.memories = new.memories
          /\ db'.answers = new.answers /\ db'.messages = new.messages
          /\ db'.rebuilds = new.rebuilds
          /\ db'.jobDocuments = JobDocuments(new)
          /\ db'.jobVersions = JobVersions(new)
          /\ db'.receipts = Receipts(new)
          /\ db'.dependencies = Dependencies(new)
          BY <1>7 DEF Written
    <3>2. /\ db'.documentInputs = db.documentInputs
          /\ db'.recordInputs = db.recordInputs
          /\ db'.people = db.people /\ db'.aliases = db.aliases
          /\ db'.runs = db.runs /\ db'.occurrences = db.occurrences
          /\ db'.diagnostics = db.diagnostics /\ db'.resolutions = db.resolutions
          BY <1>7 DEF Written
    <3>3. /\ meant.documents = db.documents /\ meant.records = db.records
          /\ meant.jobs = db.jobs /\ meant.memories = db.memories
          /\ meant.answers = db.answers /\ meant.messages = db.messages
          /\ meant.rebuilds = db.rebuilds /\ meant.raw = db.documentInputs
          /\ meant.people = db.people /\ meant.plans = db.runs
          /\ meant.diagnostics = db.diagnostics /\ meant.resolutions = db.resolutions
          /\ meant.rawSpans \subseteq db.recordInputs \intersect db.records
          BY Loaded
    <3>4. later = [documents |-> m.documents, records |-> m.records, jobs |-> m.jobs,
                   memories |-> m.memories, answers |-> m.answers, messages |-> m.messages,
                   rebuilds |-> m.rebuilds, raw |-> m.raw,
                   rawSpans |-> db.recordInputs \intersect db.records,
                   people |-> m.people, plans |-> m.plans, diagnostics |-> m.diagnostics,
                   resolutions |-> m.resolutions, purge |-> {}]
          BY <1>4, <1>5, <3>1, <3>2, <3>3 DEF Load
    <3> HIDE DEF later
    <3>5. [later EXCEPT !.rawSpans = {}] = [m EXCEPT !.rawSpans = {}]
      <4>1. Fields(later)
            BY <3>4 DEF Fields, Field
      <4>2. /\ later.documents = m.documents /\ later.records = m.records
            /\ later.jobs = m.jobs /\ later.memories = m.memories
            /\ later.answers = m.answers /\ later.messages = m.messages
            /\ later.rebuilds = m.rebuilds /\ later.raw = m.raw
            /\ later.people = m.people /\ later.plans = m.plans
            /\ later.diagnostics = m.diagnostics /\ later.resolutions = m.resolutions
            BY <3>4
      <4>3. Fields(m)
            BY <1>5
      <4> QED BY <4>1, <4>2, <4>3, SpansApart
    <3>6. m.rawSpans \subseteq later.rawSpans
          BY <1>5, <3>3, <3>4
    <3>7. /\ JobDocuments(new) = JobDocuments(m)
          /\ JobVersions(new) = JobVersions(m)
          /\ Receipts(new) = Receipts(m)
          /\ Dependencies(new) = Dependencies(m)
          BY <1>4, <1>5, <3>3 DEF JobDocuments, JobVersions, Receipts, Dependencies
    <3>8. Occurrences(m) = Occurrences(meant)
          BY <1>5 DEF Occurrences
    <3>9. db.occurrences = Occurrences(meant) /\ db.aliases = meant.people
          BY DEF StoreInv, RoundTrip
    <3> QED BY <1>5, <1>7, <3>1, <3>2, <3>5, <3>6, <3>7, <3>8, <3>9 DEF RoundTrip, later
  <2> QED BY <1>5, <1>7, <2>1, <2>2, <2>3, <2>4 DEF StoreInv
<1>8. CASE refused' = refused \union {"release"} /\ UNCHANGED <<db, meant>>
      BY <1>8 DEF StoreInv, OthersCommit, RoundTrip
<1> QED BY <1>1, <1>2, <1>6, <1>7, <1>8, Commits

-----------------------------------------------------------------------------
(* The theorems. *)

\* A new project is empty.
LEMMA InitStore ==
    ASSUME Init
    PROVE  StoreInv
<1>1. Columns(NoRows) /\ Sound(NoRows)
      BY DEF NoRows, Columns, Sound, Owners
<1>2. Fields(Empty)
      BY DEF Empty, Load, Fields, Field
<1>3. JobsKnown(NoRows)
      BY DEF NoRows, JobsKnown
<1>4. /\ Empty.jobs = {} /\ Empty.documents = {} /\ Empty.answers = {}
      /\ Empty.memories = {} /\ Empty.rebuilds = {} /\ Empty.plans = {} /\ Empty.people = {}
      BY DEF Empty, Load, NoRows
<1>5. /\ JobDocuments(Empty) = {} /\ JobVersions(Empty) = {} /\ Receipts(Empty) = {}
      /\ Dependencies(Empty) = {} /\ Occurrences(Empty) = {}
      BY <1>4 DEF JobDocuments, JobVersions, Receipts, Dependencies, Occurrences
<1>6. Load(db, TRUE) = Empty /\ meant = Empty
      BY DEF Init, Empty
<1>7. /\ db.jobDocuments = {} /\ db.jobVersions = {} /\ db.receipts = {}
      /\ db.dependencies = {} /\ db.occurrences = {} /\ db.aliases = {}
      BY DEF Init, NoRows
<1>8. RoundTrip
      BY <1>4, <1>5, <1>6, <1>7 DEF RoundTrip
<1> QED BY <1>1, <1>2, <1>3, <1>8 DEF Init, StoreInv, OthersCommit

\* Every command keeps the invariant.
LEMMA StepStore ==
    ASSUME StoreInv, [Next]_vars
    PROVE  StoreInv'
<1>1. ASSUME NEW d \in Document,
             \/ Upload(d) \/ Parse(d) \/ Publish(d) \/ RequestDelete(d) \/ SanitizeDeletion(d)
             \/ \E unsettled \in SUBSET {Ref(r, 1) : r \in Record} : Review(d, unsettled)
      PROVE  StoreInv'
      BY <1>1, UploadKeeps, ParseKeeps, PublishKeeps, RequestDeleteKeeps,
         SanitizeDeletionKeeps, ReviewKeeps
<1>2. ASSUME NEW p \in Person,
             Associate(p) \/ RequestErase(p) \/ SanitizeErasure(p) \/ FinishErasure(p)
      PROVE  StoreInv'
      BY <1>2, AssociateKeeps, RequestEraseKeeps, SanitizeErasureKeeps, FinishErasureKeeps
<1>3. ASSUME NEW ref \in db.diagnostics, Resolve(ref)
      PROVE  StoreInv'
      BY <1>3, ResolveKeeps
<1>4. ASSUME NEW a \in Answer, NEW cites \in SUBSET db.memories, Release(a, cites)
      PROVE  StoreInv'
      BY <1>4, ReleaseKeeps
<1>5. CASE UNCHANGED vars
      BY <1>5 DEF vars, StoreInv, RoundTrip, OthersCommit
<1> QED BY <1>1, <1>2, <1>3, <1>4, <1>5 DEF Next

\* What the tables hold is sound, and is what the commands meant.
THEOREM StoreInvariant == Spec => []StoreInv
<1>1. Init => StoreInv
      BY InitStore
<1>2. StoreInv /\ [Next]_vars => StoreInv'
      BY StepStore
<1> QED BY <1>1, <1>2, PTL DEF Spec

\* The next command finds the project as the last one left it.
THEOREM RoundTrips == Spec => []RoundTrip
<1>1. StoreInv => RoundTrip
      BY DEF StoreInv
<1> QED BY <1>1, StoreInvariant, PTL

\* Only deletions and releases are ever refused by a constraint.
THEOREM OthersAlwaysCommit == Spec => []OthersCommit
<1>1. StoreInv => OthersCommit
      BY DEF StoreInv
<1> QED BY <1>1, StoreInvariant, PTL

\* Whatever a project holds, the sanitizing of a deletion changes no row: documents are
\* pruned while the edge from the deletion's own job still refers to one of them.
THEOREM DeletionNeverCommits ==
    Spec => [][\A d \in Document : SanitizeDeletion(d) => UNCHANGED db]_vars
<1>1. StoreInv => [\A d \in Document : SanitizeDeletion(d) => UNCHANGED db]_vars
      BY SanitizeDeletionRefused
<1> QED BY <1>1, StoreInvariant, PTL DEF Spec
=============================================================================
