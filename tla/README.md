# Verification of the evidence platform

TLA+ models, TLC runs and TLAPS proofs for the project-memory service of this
repository: a backend (`src/backend/app`) that ingests confidential uploads,
pseudonymises them, publishes records with a vector index beside them, answers
questions over them, and can forget a document or a person.

Contents: [inventory](#inventory), [what is modelled](#what-is-modelled),
[runs](#runs), [proofs](#proofs), [disagreements](#disagreements-with-the-documentation),
[plan](#plan), [not modelled](#not-modelled).

## Inventory

All state of a project is one logical object, loaded `FOR UPDATE` from some
thirty tables, changed, and written back whole in one SQL transaction
(`service.py:134-155`, `jobs.py:211-216`, `service.py:845-849`, `relational.py`). The processes that meet in it are the HTTP handlers, any
number of worker processes (`worker.py`, `run_once`), and the external services
the workers call between two transactions: the vector index (Qdrant) and the
language and privacy models.

| Component | State | Operations | What makes it correct |
| --- | --- | --- | --- |
| Job coordinator (`jobs.py`, class Jobs) | jobs with kind, stage, state, lease, `lifecycle_revision`; `write_barrier` | claim (with rescheduling), heartbeat, advance, fail, prepare_ingestion, prepare_cleanup, publish | one effective worker per job; fenced jobs write nothing; a deletion or erasure leaves nothing behind; the barrier comes down exactly when it has finished |
| Operation ledger (`jobs.py`, class Ledger) | operations with state and outcome | prepare, start, report | an unknown outcome is never taken for a settled one |
| Lifecycle commands (`service.py`) | documents, records, people | submit_upload, activate / deactivate / delete, erase_person, associate_person, retry_job | commands on one target are serialised; a failed command can be resumed or repeated |
| Worker (`run_once`, `worker.py`) | none between calls | one job, stage by stage, with a heartbeat task | restartable at every point; makes progress |
| Maintenance handlers (`maintenance.py`) | checkpoints | process_record, rebuild_affected, remove_index_entries, reconcile | a checkpointed draft is reused, its entries are the ones written |
| Vector index client (`qdrant.py`) | the points, outside the database | ensure, upsert, verify, delete | calls may time out and land late |
| Membership, sessions (`service.py`) | members, roles, access epochs, sessions | set_member, remove_member, login, logout | there is always an administrator; a context dies with its grant |
| Chat (`service.py`, `answering.py`) | attempts, messages, answers | begin_chat, release_answer, fail_chat | one answer per request, over the evidence of one snapshot |
| Aggregates (`service.py`, `maintenance.py`) | plans, memories, overview | rebuild_affected, release_overview | nothing stale is shown; the rebuild converges |
| Stale review (`service.py`, `maintenance.py`) | history events | propose, decide | no consequential event without an administrator's approval |
| Privacy agent (`privacy.py`, `jobs.py`) | plans, diagnostics, resolutions, registry | plan, persist, resolve | a plan is applied to the registry it was made for |
| Review loop (`answering.py`, `tools.py`) | rounds, budgets | answer | terminates, releases reviewed claims only |
| Retrieval, paging (`retrieval.py`, `service.py`) | cursors | search, validate_candidates | a page sequence is over one snapshot |
| Chunking (`chunking.py`) | none | make_chunks | slices cover every character |
| Relational store (`relational.py`, `migrations/`) | rows of the tables | load_project, sync_project | the next command finds what the last one left; no constraint refuses a legal command |
| Web client (`frontend/src/app.ts`) | epoch | views | a late response draws nothing |
| Parsing, providers, HTTP surface, wiring | none | | see [not modelled](#not-modelled) |

Which module models which part, and how far, is listed under `components` in
`PROJECT.json`.

How they interact: a command creates a job and, for the ones that change what
is visible, raises `lifecycle_revision`, which fences every older job at once. A
deletion or an erasure also raises `write_barrier`, which refuses new work until
its job publishes. A worker calls the index only between `Ledger.start` and
`Ledger.report`. `report` is the one call that needs no lease, so outcomes of a
dead worker arrive at any time. `claim` first reschedules fenced work that can
be carried on, which creates new jobs beside the old ones.

Hard behaviours, each at its line in `PROJECT.json` under `hazards`: workers
that outlive their lease, lifecycle commands in the middle of every stage,
reports that come late or never, crashes between an external write and its
report, writes that land after their caller gave up, retries of what was already
done, uploads pending while a person is erased, duplicates and refusals of
commands on one document, a registry of people that several reviews change at
once, budgets that run out in the middle of a loop, drafts overtaken by the corpus
they were written from, and a write-back whose statements must come in an order
the foreign keys allow.

## What is modelled

The modules are three layers. `Jobs`, `Access`, `Chat`, `Privacy` and `Knowledge`
are the platform: one action is one transaction, and that it commits is taken for
granted. `Store` is below them: what a transaction does to the tables, and whether
it commits. `Worker`, `Answering` and `PrivacyPlan` are the clients: what happens
outside the transactions, in the worker processes, in the index, and in the loops
around the language model.

### Jobs

`Jobs.tla` is the coordinator, the ledger, the lifecycle commands and the
workers of one project. One action is one transaction.

| State | Code |
| --- | --- |
| `lifecycle_revision`, `write_barrier`, `people` | the fields of those names; "gone" is a person removed from the registry |
| `doc[d]` | a document: deleted or not, `ai_status`, `latest_job_id`, `processing_state`, whether `raw` is retained; "gone" is a row that was dropped |
| `rec[d]` | the record of the document: version (0: none), people it names, whether its privacy review passed, `published`, `quarantined`, its index entry |
| `job[j]` | the public job, its targets, `lifecycle_revision`, and the lease as none / live / expired |
| `work[j]` | the work plan (records with versions, removals), `rescheduled_to` as `successor`, `resumption_forbidden`, `obsolete_index_removed` as `cleaned`, and `fresh`: the plan's snapshot is still the project's |
| `entry[j][d]` | the checkpoint of job j for the record of d |
| `op[j][x]` | the ledger operation of j for upsert d, or for the removal and its second attempt |
| `purged[j]` | operations whose input a completed cleanup emptied (`jobs.py:305-307`) |

| Action | Code |
| --- | --- |
| `SubmitUpload`, `MutateDocument`, `ErasePerson`, `AssociatePerson`, `RetryJob` | the commands of `service.py` |
| `Claim` | `claim` with all of `_reschedule_stale`; the new jobs take the next numbers in the order the code creates them |
| `Expire` | a lease that runs out: crash, stall, or lost database |
| `Parse`, `PrivacyReady`, `PrivacyUnresolved` | `prepare_ingestion` |
| `Invalidating`, `Inventory`, `Drain`, `SanitizeDeleted`, `SanitizeErased` | the stages of `prepare_cleanup` |
| `StageArtifacts`, `Prepare`, `Start`, `Report` | checkpoints and the ledger |
| `ObsoleteIndexRemoved`, `Advance`, `Publish`, `Fail` | the rest of `run_once`, `advance`, `publish`, `fail` |

Abstractions:

- A document has one record and a record one index entry. The loops over records
  and entries repeat the same calls on independent keys.
- An entry is (document, record version, draft). The code hashes exactly what
  these three determine (`hashing.py:12-14`), so two jobs that draft the same text
  for the same version write the same point.
- People are registered before the first upload and `Mentions` fixes whom a text
  names. `erase_person` and the sanitizing pass look for the name again in what
  the record holds at that moment.
- A worker's call is enabled by the state of its job's row. `run_once` may do
  less than that in one run (it stops at the first error), never more, with one
  exception on the safe side: after a record was quarantined again, a restarted
  `process_record` refuses the record, where the model still lets the prepared
  operation be started.
- A claim leases any claimable job. The code takes the first in creation order;
  no property depends on the order.
- `rebuild_aggregate` is created and published; what it computes is the module
  `Knowledge`. Its plan is `fresh` until `_invalidate` next runs.
- `reconcile` jobs have handlers but no command creates one; they are left out.
- The verdict of the privacy agent (module `Privacy`), drafts, and outcomes of the
  index (module `Worker`) are choices. `resolve_privacy_diagnostic` changes nothing the properties see that
  `AssociatePerson` does not.
- Failure codes: "transient" stands for the retryable ones. The others
  are enumerated where the code raises them (`FailureCodes`).
- A second attempt at an acknowledged removal whose entries were found again has to be
  acknowledged as well before the job goes on, where a restarted `remove_index_entries`
  that finds the entries gone returns whatever became of that attempt. The proofs do not
  use this restriction; it keeps the instances small.
- The checkpoints a cleanup prunes belong to fenced jobs, which never read them
  again; they are kept.

Bounds: `MaxJobs` jobs in the life of the project, with `Outcomes`, `Codes` and
`ClaimKinds` narrowed per run. A lifecycle revision and a record version change
only with a job, so nothing else needs a bound. `CHECK_DEADLOCK FALSE` everywhere:
with `MaxJobs` used up and all work finished the system has nothing to do.

`Barrier.tla` is the promise of the write barrier, without leases, stages, retries and
late reports: open, any job announces, sends and settles calls of the index; closed by
a cleanup, calls of others only settle; drained when none is left, and only then are
entries removed; open again when everything others ever announced for the documents
concerned is removed. The refinement mapping (`Promise` in `Jobs`) reads the phase off
the barrier and the stage of the open cleanup, takes the operations of all other jobs
for the calls (pending ones are announced, unresolved ones sent), and the inventories
of acknowledged removals for what is removed.

`Jobs` has no fairness: its runs check safety. Liveness is stated in `Worker`,
where the processes that make a job progress are explicit.

### Access

`Access.tla` is who may do what in one project: sessions, grants, and the
contexts in which HTTP requests carry both from one transaction to the next.

| State | Code |
| --- | --- |
| `session[s]` | a row of `sessions`: not there yet, live, or ended (revoked or past its twelve hours, which no check tells apart) |
| `members[u]`, `access_epochs[u]` | role and revision of a member, and what a removal leaves behind |
| `corpus_generation` | stands for the whole snapshot: `_invalidate` raises it every time, the privacy generation only together with it |
| `request[r]` | a request being handled: its phase and its `RequestContext` |
| `outdated` | history for the properties: whose grant changed since `authorize` read it |

| Action | Code |
| --- | --- |
| `Login`, `Logout`, `Expire` | `login`, `logout`, the expiry `_session` compares with |
| `Authorize`, `LoadSnapshot` | `authorize`: it reads the grant and then the project, and locks neither, so everything else may happen in between |
| `SetMember`, `RemoveMember` | `set_member`, `set_member_by_email`, `remove_member` with the checks of `transaction` (`Accepted`) |
| `End` | the answer, a refusal, a client that went away, or the death of the process |

A refused call changes nothing and is `End`. `transaction` locks the session row
before it waits for the project row, so a logout happens before or after it, never
inside; a session whose time runs out while it waits counts as ended just after.
An `authorize` for administrators asks for the role once more than
`SetMember` does, which asks for it anyway.

### Chat

`Chat.tla` extends `Access` with questions and answers: the handler of `main.py`
between `begin_chat` and `release_answer` or `fail_chat`.

| State | Code |
| --- | --- |
| `attempt[k]` | the attempt stored for a request identifier: its lease token as `id`, state, whether its deadline passed, `retryable`, the question's digest, its message, snapshot and access revision |
| `turns[k]` | the user messages written for k with the answer below each: the states of both messages and the saved answer |
| `call[r]` | what the handler of request r remembers between its transactions |
| `cleanup` | how far a deletion or an erasure is, as far as chats notice; `write_barrier` is up unless it is "none" |
| `issued`, `overtaken` | numbers for attempts; history for the properties |

| Action | Code |
| --- | --- |
| `Replay`, `BeginChat` | the two results of `begin_chat` |
| `Release` | `release_answer`; the handler may be cancelled after its commit and then still calls `fail_chat` |
| `FailChat` | `fail_chat`, with the failure code as a choice of `retryable` |
| `Deadline` | the time of an attempt runs out |
| `EvidenceChanges`, `AcceptCleanup`, `Sanitize`, `FinishCleanup` | `_invalidate` wherever it is called, and what a cleanup does to chats |
| `RequestOrGrant` | the actions of `Access` |

Abstractions:

- What a candidate says, its history and its receipts are left out (module
  `Answering`). The checks of
  `_validate_candidate` against records can only refuse more: whatever makes a
  record ineligible also invalidates, which the snapshot comparison notices.
- A cleanup is not tied to the administrator's request that started it.
  `Access` covers that side, `Jobs` the cleanup itself.
- While the barrier is up nothing but the cleanup invalidates: commands are
  refused, publications fenced (`BarrierExclusive` of `Jobs`).
- Keys, their owners and conversations exist from the start.

`Reservation.tla` is the promise behind it, without handlers, messages,
snapshots or grants: an identifier is reserved for a time, answered at most once
by who holds it, released or timed out, and forgotten by a cleanup while
nothing can be reserved. The refinement mapping (`Promise`) takes the running attempt
for the reservation and the answer of a completed one for the answer.

### Privacy

`PrivacyPlan.tla` is one pass of the privacy agent over one text, without state of
its own; `Privacy.tla` is the review of whole uploads by several workers that share
the registry of people with each other and with administrators.

A text is a sequence of words. What the patterns for mail addresses, numbers and
identifiers match, and what looks like a name, are sets of word sequences, so that
matches lie inside, beside and across each other.

| Definition | Code |
| --- | --- |
| `Candidates`, `Labelled`, `Deterministic`, `Known`, `Deduplicated`, `Collapsed`, `Bound`, `Edits`, `Acceptable` | the passes of `PrivacyAgent._validate_batch` in their order; the mapper (`Decision`) is a choice for each candidate |
| `Registered` | `_register_identity_proposals` (`jobs.py:39-90`) |
| `Merged` | `_merge_privacy_plans` (`jobs.py:92-114`) |
| `Sanitized`, `Clean`, `Normalize` | applying the edits, `validate_sanitized`, `normalize` |
| `people`, `privacy_generation`, `privacy_plans`, `privacy_diagnostics`, `privacy_resolutions` | the fields of those names |
| `worker[j]` | what the loop of `run_once` remembers between its transactions: the round, the record, whether anybody was registered in this round, the plans so far |
| `ReadPrivate`, `Look`, `PlanRecord`, `Persist`, `Apply` | one transaction each, with the language model between `Look` and `PlanRecord` |
| `Raise`, `Crash`, `RetryJob` | whatever fails, a worker that dies, the job taken up again |
| `AssociatePerson`, `ResolveDiagnostic` | the administrators' commands |

Abstractions: everything the agent returns is source-bound and certain, because its
branches for uncertain entities cannot be reached; postal addresses, which only the
language model finds, and the kinds that lead to no person, contact or identifier
are left out; batches and corrections are one choice; a hash of a name is an
injective table (`Proposed`). `began` is history: whom the registry held when the
review of an upload began. An entity that a pattern finds inside of a larger one of the
mapper stands beside it until `Collapsed`, where `_enforce_deterministic_entities` makes
the larger one shrink to the match (`privacy.py:328-337`): the two differ only for a
personal identifier inside of what was taken for a contact. A name has one derived form,
its initials.

### Answering

`Answering.tla` is how one question is answered: the loop of `answering.py`, the
sessions of `tools.py` with their budgets, and the check the platform makes of the
result (`_validate_candidate`).

| State | Code |
| --- | --- |
| `step` | where `answer` is: gathering, the last response after a spent budget, the review, the end |
| `session` | the `ToolSession` of the phase: calls, pages, tokens and searches used, what was discovered and read, which calls are completed, which have more pages |
| `retries`, `round`, `feedback` | why `_agent` asked again and how often, `review_index`, the verdict a repair starts from |
| `payload`, `results` | the draft and what the reviewer said of each of its claims |
| `changed`, `cut`, `generations` | the project left the request's snapshot; history: a budget cut off a result; history: responses of the provider in this phase |

| Action | Code |
| --- | --- |
| `Discover` | the search made before the model is asked |
| `CallTool`, `ExhaustBudget`, `RejectCall`, `AskAgain` | the four ways `_agent` goes on: a tool call, a call no budget is left for, one that is repeated or not legal yet, a final response taken for too shallow or citing what was not read |
| `Finalize`, `FinalizeExhausted` | `_draft` of a final response |
| `Review` | `_review`, and the repair session if it fails |
| `Release`, `Fail`, `EvidenceChanges` | `_validate_candidate`; whatever raises; the project changes underneath |

Abstractions: the model is a choice of tool, arguments, claims and verdicts; a
response with several tool calls behaves as that many with one; a page is one chunk
of one span; a claim is a value that comes with what it cites and whether it says
something was retired; every result costs one token. A search begins at its first page
and a call is one for all ways of spelling it, so that `as_of`, which `read_history`
ignores, is left out.

### Worker

`Worker.tla` is `run_once` step by step in several processes, with the index as
state: one document, whose ingestion replaces an earlier attempt and which may be
deleted at any time. It makes explicit what `Jobs` leaves to choice.

| State | Code |
| --- | --- |
| `job`, `op` | the rows of the ingestion and the deletion, and their ledger operations |
| `index` | the points the external index holds |
| `late[j][x]` | writes under way whose caller gave up; each may land at any time or never |
| `process[w]` | what a worker process does next, what its ticket showed, whether its heartbeat failed |
| `faults` | failures so far |
| `overtaken`, `misreported` | history: a removal landed for a caller without the lease; a write that had been sent was reported failed |

| Action | Code |
| --- | --- |
| `Claim`, `Expire`, `HeartbeatFails`, `Crash`, `Restart` | the lease, the heartbeat task, and the process; a heartbeat's error is raised by `await beat` (`jobs.py:743-746`) into the loop of `worker.py` and ends the process |
| `Cleanup`, `StageArtifacts`, `Prepare`, `Start`, `Report`, `Removed`, `Publish`, `Fail` | calls of the coordinator and the ledger, each of which may find the lease gone |
| `Ensure`, `Fetch`, `Acknowledged`, `Verify`, `ReadFails`, `Timeout`, `LandLate` | calls of the index: `process_record` and `remove_index_entries` |
| `DeleteDocument`, `RetryJob` | the administrators |

`FairSpec` assumes that every call of a worker ends (the index client has a timeout
of 60 s), that a lease nobody renews runs out with the clock, that a process that
ended is started again, and that idle ones poll (`worker.py`). It does not assume
that a write that timed out ever lands, that a failed job is retried, or
that a deletion is requested.

### Knowledge

`Knowledge.tla` is what a project knows beyond its records: the topic summary, the
overview and the decision history, which aggregate jobs rebuild, and the proposals
of that history on which administrators decide.

| State | Code |
| --- | --- |
| `record`, `command`, `cleanup` | documents and records, their unpublished base jobs, and the cleanup that holds the barrier, as far as readers notice |
| `generation` | `corpus_generation` |
| `topic`, `overview`, `history` | the memory, the released overview with what was readable when it was written, the events |
| `jobs[s]` | the aggregate job whose plan is of snapshot s: its step, the context it took, its checkpoint (`batch`), its released candidate (`staged`) |
| `approved` | history: every proposal as an administrator approved it |

| Action | Code |
| --- | --- |
| `Begin`, `TakeContext`, `Draft`, `Stage`, `Resume`, `Release`, `Publish`, `Abandon` | the transactions and reads of `rebuild_affected`, `stage_artifacts`, `release_overview`, `publish`, and a crash or failure |
| `PublishBase`, `FinishErasure`, `FinishDeletion` | `publish` of the other kinds |
| `Upload`, `Activate`, `Deactivate`, `Delete`, `Erase`, `Sanitize`, `AssociatePerson` | the commands and the sanitizing stage |
| `Decide` | `decide_stale_review` |

One topic, one record per document, at most one proposal per rebuild, of one kind.
The base jobs are followed in `Jobs`; here each is one command that is published or
not. A lifecycle command ends every aggregate job, since no capability of an older
revision is accepted and `_reschedule_stale` never resumes this kind.

### Store

`Store.tla` is `load_project` and `sync_project`: one transaction loads the rows of
a project into one object, changes the object, and writes all of it back, group of
statements after group of statements.

| State | Code |
| --- | --- |
| `db` | one set of rows for each table whose rows refer to one another (`migrations/002`, `004`) |
| `meant` | history: the object as the commands left it |
| `refused` | history: the kinds of command a constraint rolled back |

`Sync` is the sequence of what the tables hold after each group; `Sound` is the
foreign and primary keys, none of which is deferred. `Transaction` commits if each
member of the sequence is sound and changes nothing otherwise. A command that is not
`restricted` (`service.py`) is given no uploads, people, plans or diagnostics and
must leave their rows alone. The commands are those that change which rows there
are; when they may run is left to the other modules and reduced to the order in
which a document, an answer and a cleanup go on. Because a deletion that has begun
never commits, as the runs show, behaviours with a deletion end with the barrier up.

## Runs

Twelve runs are listed in `PROJECT.json`; the configurations marked "by hand" below
check further statements on the same modules
(`tlc -config <name>.cfg <module>.tla`).

| Run (configuration) | Instance | Shows |
| --- | --- | --- |
| `JobsOneDoc` of `MCJobs` | 1 document that names 1 person, 4 jobs, every kind, every outcome, every code; about 400,000 states | `TypeOK`, `BarrierExclusive`, `Drained`, `InventoryComplete`, `ErasedForgotten`, `BarrierReleaseVerified`, `KeepsBarrier` |
| `JobsTwoDocs` of `MCJobs` | 2 documents (symmetric), nobody named, 5 jobs, ingestion and deletion claimed, every index call succeeds; about 340,000 states | `OneWriterPerDocument`, `NoOrphanedEntry` |
| `Access` of `MCAccess` | 2 accounts with one login each, 2 requests, 4 revisions per account; about 67,000 states | `AccessTypeOK`, `AdminRemains`, `GrantCurrent` |
| `Chat` of `MCChat` | an administrator and a member who asks, 2 requests, 1 identifier, 2 questions, 2 attempts, 3 revisions, 2 generations; about 840,000 states | `TypeOK`, `OneHolder`, `MessageMatchesAttempt`, `NothingAfterSanitizing`, `AnsweredAsAsked`, `OutdatedNeverReleases`, `KeepsPromise` |
| `Privacy` of `MCPrivacy` | 2 uploads of one record that both name Tom, one of them beside a mail address and an identifier, 2 registered people of whom Tom may be taken for one, 2 privacy generations, 1 restart, 1 association; 93,432 states | `PrivacyTypeOK`, `KnownNamesHidden`, `UnresolvedExplained`, `NormalizeNeverGuesses`, `RegistryNeverDuplicates` |
| `Answering` of `MCAnswering` | 2 records of 2 and 1 pages, a search of 2 pages, a history of 2 pages, 2 claims, 4 tool calls, 4 pages, 7 tokens, 3 and 1 search rounds, 2 reviews; 422,140 states | `AnsweringTypeOK`, `GenerationsBounded`, `CandidateAccepted`, `CompleteMeansFollowed`, `RetiredByDecision` |
| `Worker` | 2 processes, 1 point, 2 faults of 4 kinds; 374,775 states, with fairness | `ReplacementKept`, `RemovedUnlessMisreported`, `EventuallySettled` |
| `Knowledge` | 2 records, one of them published at first and naming the person, 4 generations; 256,279 states | `KnowledgeTypeOK`, `OverviewCurrent`, `NothingOfErased`, `BasePriorsKept`, `ApprovedAsShown`, `ProposalsOfReadable` |
| `Store` of `MCStore` | 2 documents of one record each, 1 person in one of them, 2 answers; 20,817 states | `RoundTrip`, `OthersCommit` |
| `JobsUnreviewed`, `StoreDeletions`, `StoreReleases` | as `JobsOneDoc` and `Store` | the first three [disagreements](#disagreements-with-the-documentation) |

Why the bounds are enough.

- Jobs: four jobs on one document hold an ingestion, a command that fences it, its
  replacement and the cleanup that has to account for both, or an erasure followed by
  a deletion and the retry of either. Five jobs on two documents are the least in
  which a command on one document fences the ingestion of the other, the
  replacement is fenced again by a second command and replaced again.
- Access, Chat: two requests and four revisions let two administrators change each
  other's grants and then be granted again. Two handlers are the fewest that race,
  and with two attempts, two generations and three revisions an attempt is retried
  after its deadline while the old handler still runs, in a corpus that changed or
  under a grant that was taken away and given back. Identifiers share nothing but the
  generation and the barrier, so one is enough.
- Privacy: two uploads are the fewest that register the same name at once. One mapper may
  take Tom for somebody new and the other for Lena Berg, and an administrator may call
  somebody else Tom meanwhile, so that reviews disagree, diagnostics are asked and decided
  (about a person, a contact, or an identifier that is a system code) and an upload is
  released on the decision. Two generations let a saved plan grow old, one restart lets it
  be read again. `PrivacyApplicable.cfg` has names that lie inside of one another.
- Answering: two pages in every paged place are the fewest that can be left
  unfollowed; the budgets are one short of everything the model could ask for, so
  that each of them runs out in some behaviour.
- Worker: two processes are the fewest of which one takes over. With one point a
  replacement rewrites the very point it removes, which is the dangerous case, since
  a late removal then hits the new text; two faults are a write that times out and a
  crash, or a failed read, of the one that takes over. By hand with two points
  (571,790 states) the safety properties hold as well.
- Knowledge: four generations hold a publication, a command, the cleanup's, and the
  rebuild after it. By hand with five generations, starting from an empty project,
  the same holds (5.8 million states).
- Store: two documents are the fewest of which one must be left alone, and two
  answers the fewest that share evidence. Every command occurs once for each target.

Deadlock is not checked (`CHECK_DEADLOCK FALSE`) because every instance comes to an
end when its bound is used up and all work is finished.

Every property has a mutant of the model, a bug one could write in that very
definition, with which the same run reports a violation.

What the properties say:

- `BarrierExclusive`: the barrier is up exactly while one cleanup is unfinished,
  and then everything else unfinished is fenced.
- `Drained`: after draining nothing older is outstanding, whatever is reported.
- `InventoryComplete`: after a deletion or an erasure every entry ever prepared
  for its documents has been removed by a completed cleanup.
- `ErasedForgotten`: no upload accepted before an erasure brings the name back.
- `BarrierReleaseVerified`: the step that lowers the barrier leaves no unknown
  write and no published record whose entry was just removed.
- `KeepsBarrier`: `Jobs` implements `Barrier`: under the barrier nobody but the cleanup
  sends a call, it removes nothing before the rest has settled, and it lowers the
  barrier only when all that was written for its documents has been removed.
- `OneWriterPerDocument`: at one revision one job writes a document, and it is
  the one the document names.
- `NoOrphanedEntry`: what a replaced job may have written, its replacement removes.
- `AdminRemains`: two administrators that demote or remove each other do not both succeed.
- `GrantCurrent`: a context dies with the grant it was made from, also if the same
  role is granted again: revisions are never reused.
- `OneHolder`: of all handlers of an identifier at most one can still release.
- `MessageMatchesAttempt`: late and repeated failures never mark an answered question.
- `OutdatedNeverReleases`: no answer over evidence that was invalidated, or for
  somebody who was removed, since the handler began.
- `NothingAfterSanitizing`: no late handler puts an answer or an attempt back.
- `AnsweredAsAsked`: the reply belongs to the question that was sent.
- `KeepsPromise`: `Chat` implements `Reservation`.
- `RegistryNeverDuplicates`: workers that propose people at the same time never give
  one name to two of them.
- `KnownNamesHidden`: whoever the registry held when a review began is hidden in what
  it releases, however often it was interrupted. It speaks of uploads that have reached
  privacy_ready: a record of an upload that failed in between may already be released and
  hold a new plan, which is only applied when the upload is taken up again. It leaves out
  a name that two people share (what stands there is a diagnostic) and one that lies
  inside of what an administrator decided to be a system code, which the code keeps.
- `UnresolvedExplained`: a review that fails on an open question has asked it.
- `NormalizeNeverGuesses`: unplanned text leaves without any alias, and bound only to
  people no other can be meant instead of.
- `GenerationsBounded`: whatever the model responds, a phase ends.
- `CandidateAccepted`: what the loop hands over the platform accepts, unless the
  evidence changed or a reviewer reordered the receipts of a claim, which `_review`
  lets pass and `_validate_candidate` does not (`answering.py:159`, `service.py:728`).
- `CompleteMeansFollowed`: "complete" coverage means every page was followed, in
  whichever phase it was begun.
- `RetiredByDecision`: a claim that something was retired comes with an approved
  event this request has read and that covers the claim's records.
- `ReplacementKept`: an acknowledged replacement stays in the index through restarts.
- `RemovedUnlessMisreported`: after a completed deletion nothing of the document is
  in the index and nothing of it can land, as long as no write was reported failed
  that was only unanswered.
- `EventuallySettled`: a job that was accepted completes or shows that it failed.
- `OverviewCurrent`: the overview was written with exactly those records readable
  that are readable now.
- `NothingOfErased`: nothing kept rests on a version a cleanup took away, and no job
  that had read it puts it back.
- `BasePriorsKept`: a proposal never outlives the event of a record it would supersede
  (one that would supersede another proposal may, disagreement 13).
- `ApprovedAsShown`: what readers see of a proposal is what was approved.
- `ProposalsOfReadable`: no proposal about evidence that may not be read enters.
- `RoundTrip`: each command finds the project as the last one left it, whether or not
  it was given the restricted rows (but for the raw spans of disagreement 15).
- `OthersCommit`: no command but a deletion and a release is refused by a constraint.

## Proofs

### Jobs

`JobsProofs.tla` and `JobsDocumentProofs.tla`, which extends it, prove, for every number
of documents, people, jobs and drafts, every assignment of names to texts, and every set
of outcomes and codes (`ConstantsAssumption` is the only assumption):

| Theorem | Statement | Argument |
| --- | --- | --- |
| `TypeCorrect` | `Spec => []TypeOK` | one lemma per action. The conjunct that an operation has a checkpointed entry is what makes the inventory and the removals sets of entries; without it `TypeOK` is not inductive |
| `CompletedJobsFinal` | `Spec => CompletedFinal` | relative to `TypeOK`: each action either leaves the row alone or has a guard no completed job satisfies; new jobs take numbers above `njobs`. Proved, and therefore no longer a property of a run |
| `BarrierAlwaysExclusive` | `Spec => []BarrierExclusive` | inductive with `TypeOK` and `LifeBounded` (no job is stamped with a revision above the project's). `BarrierExclusive` names the cleanup, its revision and the fencing of all others in one formula since each is needed to keep the other two |
| `CleanupStaysDrained` | `Spec => []Drained` | inductive with `TypeOK` and `LifeBounded`: only a worker at the current revision makes an operation outstanding (`OutstandingSource`), a job past draining has an older one only if the operation is not its worker's, and the step that enters sanitizing has just checked |
| `InventoryAlwaysComplete` | `Spec => []InventoryComplete` | part of the inductive `CleanupInv`, below |
| `BarrierKeepsPromise` | `Spec => KeepsBarrier` | the refinement of `Barrier` relative to `CleanupInv`: every action maps to one step of the abstract specification or to a stutter |
| `OneWriterAlways` | `Spec => []OneWriterPerDocument` | part of the inductive `DocumentInv`, below; `ReplacedIdle`: nobody at the current revision writes the documents of a fenced job that is still their latest |
| `ErasedStayForgotten` | `Spec => []ErasedForgotten` | `Stopped` and `ForbiddenFenced`: the ingestions an erasure finds are over or forbidden, later ones are of new documents, so nothing parses an older upload again (`NothingParsed`) |
| `NoEntryOrphaned` | `Spec => []NoOrphanedEntry` | `Successors`, `Inherited` and `Cleaned`: the replaced job is fenced, so what it wrote stays as its replacement took it over, and no replacement completes before its removals are acknowledged |
| `BarrierReleases` | `Spec => BarrierReleaseVerified` | `DeletedGone` for deletions; for erasures `Affected`: what they write again is newer than anything they remove |

`RowKept`, `StageKept`, `StillOpen` and `Creates` say what a step does to the rows
of existing jobs; each is proved once per action and cited by the invariants.
Likewise `CleanupStages` (a cleanup passes through draining and never returns to it) and
`LedgerKept` (how an operation and its entry may move) carry the proof of `CleanupInv`.

Neither `InventoryComplete` nor the mapping's steps follow from the earlier
invariants: that what is removed suffices when the barrier comes down depends on what
was taken into account several stages before. `CleanupInv` adds what has to be
remembered in between: operations not yet used have no entry (`Unused`); removals are
prepared only past draining (`RemovalLate`); an operation whose input is emptied wrote
an entry that is removed already (`PurgedForgotten`); a completed cleanup has its whole
inventory acknowledged (`FinishedClean`); from the stage in which it takes the
inventory on, a cleanup covers all that older jobs wrote (`InventoryTaken`); and the
open cleanup is the newest job (`CleanupNewest`), so that older means all others.
TLC checked `CleanupInv` on the instance of `JobsOneDoc` before it was proved.

`DocumentInv` (`JobsDocumentProofs.tla`) extends `CleanupInv` by what jobs do to
documents. `BarrierReleaseVerified` is the reason for most of it. The entry an erasure
publishes is content-addressed, so the same text under the same version would be the
very point it has just removed. That it never is rests on versions: the entries a job
checkpoints are of the version its plan names (`OfPlan`), and no plan, record or removal
names a version beyond the record's (`Ages`). An erasure raises the version of every
record it touches, and it touches exactly the documents it was created for (`Affected`).
A version would fall back to 1 if a document could be parsed twice; it cannot, since at
most one ingestion of a document is not replaced (`OneIngestion`), and until that one has
parsed there is no record (`Unparsed`). The proof of each part goes through what a step
may do at all: `DocumentStep`, `RecordStep`, `PlanStep` and `Newcomers` (which actions
change a document, a record, a plan, or create a job). TLC checked `DocumentInv` on the
instances of `JobsOneDoc` and `JobsTwoDocs` before it was proved.

### Access

The first part of `ChatProofs.tla` proves, for any accounts, logins, request slots and
bounds (`AccessAssumption`):

| Theorem | Statement | Argument |
| --- | --- | --- |
| `AccessTypeCorrect` | `AccessSpec => []AccessTypeOK` | one lemma per action that writes; a member's revision stays beyond its epoch because the next one is taken beyond both |
| `AdministratorRemains` | `AccessSpec => []AdminRemains` | the witness of the guard survives the step |
| `GrantsStayCurrent` | `AccessSpec => []GrantCurrent` | `GrantCurrent` is not inductive: a context of a removed account could be accepted once the account is back. `Behind` adds that every context's revision is at most the row's or the epoch's, and strictly less than the row's once outdated; the next revision, beyond both, keeps it so |

### Chat

`ChatProofs.tla` goes on to prove, for any questions, keys, request
slots and bounds (`ChatAssumption`, `NoneAssumption` and `AccessAssumption`), every
property `Chat.cfg` checks of the code:

| Theorem | Statement | Argument |
| --- | --- | --- |
| `TypeCorrect` | `Spec => []TypeOK` | one lemma per action; that an attempt points at an existing message, and that an answer is stored exactly when it is shown, is what the later actions need to be well defined |
| `PromiseKept` | `Spec => KeepsPromise` | the refinement of `Reservation`: for each key the mapped holder, its expiry and whether it is answered; every action maps to one step of the abstract specification or to a stutter. It needs `TypeOK` only |
| `AtMostOneHolder` | `Spec => []OneHolder` | inductive as `Distinct`: two handlers answering under one key have different attempts, and none is numbered beyond those issued, so that the next one is new |
| `SanitizedStaysEmpty` | `Spec => []NothingAfterSanitizing` | inductive with `TypeOK`: until the cleanup ends the barrier refuses what would begin or release, and a failure needs an attempt to report on |
| `MessagesMatchAttempts` | `Spec => []MessageMatchesAttempt` | `Told`, per key: a retry reopens the message its attempt points at, and nobody else writes it |
| `RepliesAnswerTheQuestion` | `Spec => []AnsweredAsAsked` | three parts, for handlers (`AskedFor`), stored answers (`SavedFor`) and replies (`Replied`), with `Distinct`: the handler that still holds an attempt is the one whose question it was begun for |
| `OutdatedAnswersRefused` | `Spec => OutdatedNeverReleases` | `Behind` of `Access` and `Overtaken`: no context is ahead of its project, and one whose project was invalidated since is strictly behind it, so that `Fresh` refuses it |

### Privacy

`PrivacyProofs.tla` proves, for any texts, names, contacts, records, uploads and
registry, and whatever the mapper answers:

| Theorem | Statement | Argument |
| --- | --- | --- |
| `PrivacyTypes` | `Spec => []PrivacyTypeOK` | that what is found stays an entity of its text through every pass (`LabelsRead` to `EntitiesRead`, `PassesRead`, `RegisteredAlone`), be it saved, planned again or joined with an earlier pass |
| `UnresolvedAlwaysExplained` | `Spec => []UnresolvedExplained` | `persist` asks about every entity of a plan it leaves unresolved (`FinalRead`), and there is one; whatever closes a diagnostic drops the plan of its record (`DisturbedKeeps`) |
| `NamesNeverDuplicated` | `Spec => RegistryNeverDuplicates` | `RegisteredAlone` for a plan, `AdmittedAlone` for the first loop of `persist`: who is added has a name that nobody had at that moment, and no two of those added share one |
| `KnownNamesStayHidden` | `Spec => []KnownNamesHidden` | inductive as `HiddenInv` with `PrivacyInv`, below |
| `NormalizeNeverMistaken` | `Spec => []NormalizeNeverGuesses` | `NormalizeBindsOne`, and for the text that is left the same lemmas about edits, below |
| `NormalizeBindsOne` | for any text and any finite registry | the part of `NormalizeNeverGuesses` about the people a text is bound to |

The inductive invariant is `PrivacyInv`: what is stored (`Stored`), the reasons
(`UnresolvedExplained`), and what each worker remembers (`Workers`): plans of its own
records, read with a registry of some generation up to the present one, one for each
record it has passed, and after the first round one for each (`Planning`). A plan is a
plan of its text (`PlanOf`): persons are written as names, contacts as contacts, and no
range is two people (`OnePerson`). The last is what `NamesNeverDuplicated` needs: two
proposals of one place would not be read one after the other, and both could be filed.
`DeterministicRead`, `KnownRead` and `DeduplicatedRead` carry it from pass to pass. TLC
checked `PrivacyInv` on the instance of `Privacy.cfg` and on a smaller one with more
generations before it was proved.

`HiddenInv` is what `KnownNamesHidden` needs of the steps before a release. A plan
*hides* somebody (`Hides`) if every range of the text that is this person's name is
covered by an edit, or lies inside of a system code. Once the second round of a review has
planned a record, its plan hides everybody the worker began with who has the name alone
(`WorkerHides`); every saved plan does (`PlanHides`), and an upload at privacy_ready has
had such a plan applied to each of the records it released (`UploadHides`). Within a
generation people are only added (`Progress`), so a name may come to have two owners and
never one again; `persist` keeps every edit of either pass; and the step that raises the
generation drops the plans and quarantines the records.

From edits to text: that no name is left after all edits (`SanitizedHides`) is a
statement about a recursive function over the text. The induction principle of the
library cannot be instantiated, but the minimal element of a non-empty set of numbers can
be had (`WFMin` of `WellFoundedInduction`, which takes a set); each induction is
therefore written as a smallest counterexample. What it shows is that a word of the text
that is left is either a word outside of all edits or a replacement, and that what is
left of two neighbours were neighbours. As no name contains a replacement, a name
in the result would be a range of the text that no edit covers.

`TextAssumption` and `PrivacyAssumption` are what the code says of its inputs: a name is
no contact (`looks_like_person` takes letters, a contact has an `@` or digits), hashes of
different proposals differ, an identifier drawn for a new person is none of those, and
an upload has at least one record. `MarkerAssumption`: no word of a name or contact is a
replacement, which is in brackets or is `PERSON_` with sixteen hexadecimal digits
(`looks_like_person` takes letters, hyphens, apostrophes and initials); and such
identifiers are finitely many. `RecordAssumption`: uploads share no record, as parsing
draws new identifiers.

### Knowledge

`KnowledgeProofs.tla` proves, for any records, any of them naming the person or
published at first, and any number of generations (`KnowledgeAssumption`), every
property `Knowledge.cfg` checks:

| Theorem | Statement | Argument |
| --- | --- | --- |
| `KnowledgeTypes` | `Spec => []KnowledgeTypeOK` | that an id names one event rests on the generations (a new event of a record carries the next one) and on what a draft is made of |
| `OverviewIsCurrent` | `Spec => []OverviewCurrent` | `UpToDate`: as long as no generation has passed since the job took its context, what its candidate saw is what is readable |
| `ErasedStaysOut` | `Spec => []NothingOfErased` | only the sanitizing stage takes a version away (`VersionsKept`), it drops all that rests on one, and no job that has not ended survives it (`LivePlanned`) |
| `BasePriorsStay` | `Spec => []BasePriorsKept` | nothing replaces the event of a record (`BasesKept`), and its evidence is part of the proposal's (`PriorKept`), so that a cleanup takes both |
| `SeenAsApproved` | `Spec => []ApprovedAsShown` | `Wellformed`: a verdict of "approved" is there with a decision on this very event; a redraft under the id is pending again |
| `DraftedOfReadable` | `Spec => ProposalsOfReadable` | `UpToDate` and `Kept`: at its publication the records of the plan are readable, and then so is all a draft cites |

The inductive invariant is `KnowledgeInv`. It says of every job that has not ended that
no cleanup is under way and no document of its plan is under a command (`Planned`);
of every batch that may still be published that its proposals are as they were drafted,
rest on nothing erased and are readable if the plan's records are (`Kept`); and of every
job that has read, that while its snapshot is the corpus' the records of its plan are
readable (`UpToDate`). `AllReadable` of the plan implies that of the draft because a
record outside of the plan becomes unreadable only by a command, which ends the job,
or by an association, which makes the plan's own records unreadable too. The
invariant was checked by TLC on the instance of `Knowledge.cfg` before it was proved.
A first version, with every prior and not only those of records, did not go through;
`KnowledgePriorsKnown.cfg` shows why (disagreement 13).

### Worker

`WorkerProofs.tla` proves, for any number of worker processes, draft points and
failures (`ConstantsAssumption`), the safety properties of `Worker.cfg`:

| Theorem | Statement | Argument |
| --- | --- | --- |
| `WorkerTypes` | `Spec => []WorkerTypeOK` | part of `WorkerInv` |
| `ReplacementStays` | `Spec => []ReplacementKept` | `Present`: once its write is acknowledged the replacement is in the index, as nothing removes a point that is not of the removals; a removal that a caller without the lease sent is remembered in `overtaken` |
| `DeletionIsFinal` | `Spec => []RemovedUnlessMisreported` | `DocumentGone`: a cleanup that has passed draining has no write to wait for, and one that has removed has no point left of those it took over |

Neither is inductive: what a report may claim depends on what was sent before it, by a
process that may since have lost its lease. `WorkerInv` says what each process's next
step rests on (`Steps`), how the rows of the jobs, the ledger and the index belong
together (`Rows`, `FirstGone`), and, unless a write was misreported, that one write at a
time is under way (`Once`: not sent, being prepared, or awaited). The steps of the
processes are many and small; the proof first brings each to a normal form (`Rests`,
`Moves`, `LandLate`) and then to what it is to the write of the replacement
(`WriteStep`), and each part of the invariant is proved over those forms. TLC checked
`WorkerInv` before it was proved, with two processes, two points and two failures.

### Answering

`AnsweringProofs.tla` proves, for any records, pages, histories, claims, limits and
retries (`LimitsAssumption`; `PagesAssumption`: a search or history has a first page,
were it an empty one, and evidence is spans of records), every property `Answering.cfg`
checks:

| Theorem | Statement | Argument |
| --- | --- | --- |
| `AnsweringTypes` | `Spec => []AnsweringTypeOK` | `Budgeted`, `ReadTyped` and `Typed`; a repair resets calls and pages but keeps tokens and what was read |
| `ResponsesBounded` | `Spec => []GenerationsBounded` | `Counts`: every response is matched by a call or a retry, but for at most three a phase ends with |
| `HandedOverAccepted` | `Spec => []CandidateAccepted` | `Drafted` and `Reviewed`: what passes was judged, on sufficient retrieval, in the review of this very draft; of the conditions of `_validate_candidate` only the order of receipts is left |
| `CompleteIsFollowed` | `Spec => []CompleteMeansFollowed` | `Followed`: pages are read in order, and a search or history that was left is pending until its last page, over the repair too |
| `RetirementDecided` | `Spec => []RetiredByDecision` | every event the session holds came with a page of a history it has completed (`EventOfHistory`), and the draft was decided by one of those (`Drafted`) |

The inductive invariant `AnsweringInv` was checked by TLC on the instance of
`Answering.cfg` before it was proved. That a session rests from the draft to the release
is what lets the properties of the answer speak of the session.

### Store

`StoreProofs.tla` proves, for any documents, records, people and answers, and any
records that mention each (`StoreAssumption`):

| Theorem | Statement | Argument |
| --- | --- | --- |
| `RoundTrips` | `Spec => []RoundTrip` | `WrittenRoundTrip`: if all groups of statements pass, what the next command loads is what this one wrote, restricted or not (`Loaded`, `Alike`) |
| `OthersAlwaysCommit` | `Spec => []OthersCommit` | `SyncWrites`: a change that takes nothing away that is still referred to (`Writable`) keeps every constraint after each of its groups of statements, thirteen or, if restricted, nineteen, and not only at the end |
| `DeletionNeverCommits` | `Spec => [][\A d \in Document : SanitizeDeletion(d) => UNCHANGED db]_vars` | the documents go before the edges of jobs are cleared, and the edge of the deletion's own job to its document is always there (`JobsKnown`): what disagreement 2 shows of one document holds of all |

The inductive invariant is `StoreInv`: the tables and the object have their columns and
fields, every constraint holds, each job refers to versions there are and to its own
document (`JobsKnown`), and the two properties themselves: each is needed for the other,
since what is written starts from what was loaded. `FirstWrites`, `MiddleWrites` and
`LastWrites` follow the groups in the order of the code. A release commits unless two
answers would cite the same version (`Unambiguous`, disagreement 3); whether it
does or not, the invariant stays. An erasure gives records a new version, and the raw
spans of the old one would not be loaded again: it means to keep none of them, because
its job names the documents of all the records in which the person occurs until it has
sanitized them (the last part of `JobsKnown`). TLC checked `StoreInv` before it was proved.

### Only model-checked

One property of the passing runs is not proved: `EventuallySettled` of `Worker`, which is
liveness. The statements that expect a violation are not theorems, of course; the runs
show their counterexamples.

## Disagreements with the documentation

Each is a configuration TLC finds violated, with the sequence of calls as its
counterexample. The first three are listed runs; the others are run by hand.

1. An erasure publishes an unreviewed record (`PublishedReviewed`, `JobsUnreviewed`):
   `jobs.py:562` lifts every quarantine. `compliance-repair-spec.md:27`: "no
   publication without a completed validated privacy result".
2. A deletion never gets through to the tables (`DeletionsCommit`, `StoreDeletions`):
   `relational.py:338` and `:340` prune versions and documents while jobs, receipts
   (cleared only at `:351-352` and `:167`) and the document's upload (`:299`, never
   deleted once the document is gone) still refer to them. The transaction is
   refused at every retry and the barrier stays up. `relational.py:164`: "Clear
   dependent edges inside the transaction before pruning/reinserting authoritative
   object rows".
3. A second answer over the same evidence is refused (`ReleasesCommit`,
   `StoreReleases`): receipts are numbered by what they cite (`service.py:358`) and
   inserted for every stored answer under a primary key (`relational.py:242`).
   `http-api.md:91`: "regeneration uses a new request ID".
4. A failed erasure is not always resumable (`FailedCleanupResumable`,
   `JobsCleanupResumable`): `ambiguous_person` while sanitizing (`jobs.py:560`) is not
   retryable, and the barrier it holds refuses all other work.
   `worker-a-evidence-platform.md:62`: "Keep failed cleanup resumable".
5. A dead job blocks its document (`BlockedOnlyByActive`, `JobsDocumentBlocked`):
   `_active_lifecycle` (`service.py:500-505`) counts failed jobs that nothing can
   resume. `shared-interfaces.md:280` speaks of active ones.
6. An activation that overtakes an ingestion completes with nothing published
   (`ActivatedEligible`, `JobsEmptyActivation`), and the upload is never processed.
   `shared-interfaces.md:537`: "Rebuilt active version is eligible".
7. A cleanup can remove a live entry of another document (`UnrelatedEntryKept`,
   `JobsUnrelatedEntry`): `jobs.py:534` takes in every outstanding upsert.
   `architecture.md:157`: "preserving unrelated vectors".
8. One identifier can be answered twice (`OneCompletedTurn`, `ChatOneTurn`): sanitizing
   drops all attempts (`jobs.py:589`) while the answered user message stays available;
   the same identifier, which the client keeps for the retry of a lost response,
   is then begun as a new one. `shared-interfaces.md:325`: "Never permit two
   completed turns for one key."
9. A review can save a plan that can never be applied (`SavedPlansApplicable`,
   `PrivacyApplicable`): `_merge_privacy_plans` (`jobs.py:96`) joins the edits of two
   passes by exact ranges, and two passes may find different parts of one name.
   Each pass is checked for overlaps, the union is not; every retry reads it again
   and fails with privacy_unresolved, with nothing for an administrator to decide.
   `jobs.py:92-93`: "Union independently validated semantic findings at exact source
   ranges".
10. An answer may be called complete after a budget cut off a result
    (`ExhaustionStated`, `AnsweringExhaustion`): `_new_repair_session`
    (`answering.py:172-181`) carries the reading over and drops `exhausted`.
    `shared-interfaces.md:435` asks for partial content "with explicit coverage".
11. A write that was only unanswered can be settled as failed (`RemovedForGood`,
    `WorkerRemoved`): when the caller that took over cannot read the index, it reports
    "failed" over `in_flight` or `unknown` (`maintenance.py:126`), the ledger permits
    it (`jobs.py:636-648`), the deletion drains and completes, and the write lands.
    `shared-interfaces.md:597`: "a timeout becomes `unknown`, never assumed
    failed/no-write".
12. A crash between start and report stops every later cleanup (`CleanupCompletes`,
    `WorkerCleanup`, under fairness and with every failure retried): the operation
    stays `in_flight`, draining waits for its report (`jobs.py:539`), and nothing
    creates the reconcile job that could settle it (`architecture.md:159`).
13. The knowledge that is kept need not cover what is published:
    a record may stay without an aggregate job (`RecordsCovered`,
    `KnowledgeRecordsCovered`; `service.py:865`, `worker-b-intelligence.md:26`), a
    decided proposal may be overwritten by the batch of a resumed job
    (`DecisionsKept`, `KnowledgeDecisionsKept`; `jobs.py:269`,
    `frontend/src/app.ts:294`), a checkpoint may hold a proposal about an erased
    version (`CheckpointsForgotten`, `KnowledgeCheckpointsForgotten`; `jobs.py:598`,
    `shared-interfaces.md:565`), and one proposal whose sides cannot be shown makes
    the list of all fail (`ReviewsListable`, `KnowledgeReviewsListable`;
    `service.py:473-482`). A proposal may also lose its prior (`PriorsKnown`,
    `KnowledgePriorsKnown` of `MCKnowledge`), and then fails that list for good
    (`service.py:453`): if the prior is a proposal itself, it may be drafted again
    under the same id with other evidence (`maintenance.py:250`), and an erasure of
    that evidence takes it alone (`jobs.py:595`). This one takes 27 steps over three
    records; `OneAtATime` narrows the search to it.
14. What an erasure should purge is kept (`PriorVersionsPurged`, `StorePurged`):
    `_purge_prior_versions` is read at `relational.py:149` and `:480` and set nowhere
    but in a test (`tests/evidence/test_relational_erasure.py:13`).
15. Raw spans come back (`RawSpansStayRemoved`, `StoreRawSpans`): an erasure takes them
    from every record of the documents concerned (`jobs.py:104-111`), but
    `relational.py:321` only writes such rows; for the records that keep their version
    the next restricted load reads them again.

## Plan

Done: `Jobs` with `Barrier`, `Access`, `Chat` with `Reservation`, `Privacy`,
`Answering`, `Worker`, `Knowledge`, `Store`. Next, in order:

1. The retry loop of the stale agent (`maintenance.py:178-224`), rank fusion and
   filters of the retrieval, chunking.

## Not modelled

- Projects: creating one is the initial state of `Access`, deleting one would end
  the model; `bootstrap_project` is an operator's command, taken as run on a new
  identifier.
- Registration, passwords and the CSRF token: `Access` starts from accounts and
  from requests that carry the right token.
- Reconcile jobs: they have handlers, but no command creates one (`Jobs` leaves them
  out, disagreement 12 shows the consequence).
- Chunking and the order and filters of search results: arithmetic on strings and
  numbers without state; chunks are wholes, and a search finds any records.
- Migrations of old data, the legacy JSON column, and connection handling
  (`postgres.py`).
- Regular expressions and prompts (`parsing.py`, parts of `privacy.py`,
  `prompts/`), HTTP routing and schemas (`main.py`, `api/`), configuration:
  no state between calls.
- The services behind `providers.py` and `pii_detector.py`: external, their answers
  are choices. The index behind `qdrant.py` is the set of points in `Worker`.
- The web client: one epoch guards its late responses; the rest draws pages.
- Liveness under fairness and `ENABLED` are outside what TLAPS can prove here;
  what liveness there is stays with TLC.
