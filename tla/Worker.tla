------------------------------- MODULE Worker -------------------------------
(***************************************************************************)
(* Worker processes between the job coordinator and the external index:    *)
(* run_once and the ledger of evidence/jobs.py, process_record and         *)
(* remove_index_entries of intelligence/maintenance.py, the client of      *)
(* intelligence/qdrant.py.                                                 *)
(*                                                                         *)
(* One document.  Its ingestion replaces an earlier attempt: it removes    *)
(* the point that attempt may have written, then upserts the one it        *)
(* drafted, which is the same point when the text is (make_entry_id is     *)
(* content-addressed).  The document may be deleted at any time.           *)
(*                                                                         *)
(* What Jobs.tla leaves to choice is explicit here: the points of the      *)
(* index, writes that land after their caller gave up, worker processes    *)
(* that die, heartbeats that fail, and leases that run out under a worker  *)
(* that is still at work.                                                  *)
(***************************************************************************)
EXTENDS Naturals

CONSTANTS
    Process,     \* worker processes
    Point,       \* index points of the document
    First,       \* the point the earlier attempt drafted
    Faults,      \* BOUND: what may fail: "timeout", "read", "crash", "beat"
    MaxFaults,   \* BOUND: failures in the life of the system
    None         \* no process, no point

ASSUME ConstantsAssumption ==
    /\ First \in Point
    /\ Faults \subseteq {"timeout", "read", "crash", "beat"}
    /\ MaxFaults \in Nat
    /\ None \notin Process \cup Point

Job     == {"ingest", "delete_document"}
Slot    == {"remove", "after", "upsert"}     \* idempotency keys of a job
OpState == {"none", "pending", "in_flight", "unknown", "failed", "succeeded"}

UnresolvedSent == {"in_flight"}              \* mutant: a timeout is settled

Unresolved == {"in_flight", "unknown"}
Outstanding == Unresolved \cup {"pending"}

VARIABLES
    job,        \* the rows of the two jobs
    op,         \* op[j][x]: the ledger
    index,      \* the points the external index holds
    late,       \* late[j][x]: writes under way whose caller gave up
    process,    \* what each worker process is doing
    faults,     \* failures so far
    overtaken,  \* history: a removal landed for a caller without the lease
    misreported \* history: a write that was sent was reported failed

history == <<overtaken, misreported>>
vars    == <<job, op, index, late, process, faults, history>>

NoJob == [state |-> "none", stage |-> "none", retryable |-> FALSE, holder |-> None,
          expired |-> FALSE, removals |-> {}, removed |-> FALSE, draft |-> None]

\* seen: the state on the ticket, then the outcome to report.
Idle == [at |-> "idle", job |-> "ingest", slot |-> "remove", seen |-> "none",
         beat |-> "ok"]

Init ==
    /\ job = [j \in Job |-> IF j = "ingest"
                 THEN [NoJob EXCEPT !.state = "pending", !.stage = "privacy_ready",
                                    !.removals = {First}]
                 ELSE NoJob]
    /\ op = [j \in Job |-> [x \in Slot |-> "none"]]
    /\ index \in {{}, {First}}
    /\ late = [j \in Job |-> [x \in Slot |-> 0]]
    /\ process = [w \in Process |-> Idle]
    /\ faults = 0
    /\ overtaken = FALSE
    /\ misreported = FALSE

Fault(kind) ==
    /\ kind \in Faults
    /\ faults < MaxFaults
    /\ faults' = faults + 1

-----------------------------------------------------------------------------
(* The administrators (service.py).                                        *)

\* Every lifecycle command moves the revision the ingestion was stamped with.
Fenced(j) == j = "ingest" /\ job["delete_document"].state # "none"

DeleteDocument ==
    /\ job["delete_document"].state = "none"
    /\ job' = [job EXCEPT !["delete_document"] =
          [NoJob EXCEPT !.state = "pending", !.stage = "inventory",
                        !.removals = IF job["ingest"].state = "completed"
                                     THEN {job["ingest"].draft} ELSE {}]]
    /\ UNCHANGED <<op, index, late, process, faults, history>>

RetryJob(j) ==
    /\ job[j].state = "failed" /\ job[j].retryable /\ ~Fenced(j)
    /\ job' = [job EXCEPT ![j].state = "pending", ![j].retryable = FALSE,
                          ![j].holder = None]
    /\ UNCHANGED <<op, index, late, process, faults, history>>

-----------------------------------------------------------------------------
(* Leases (jobs.py).                                                       *)

Held(w) ==
    LET j == process[w].job
    IN  job[j].state = "running" /\ job[j].holder = w /\ ~job[j].expired /\ ~Fenced(j)

ClaimablePending(j) == job[j].state = "pending" /\ ~Fenced(j)    \* mutant

Claimable(j) ==
    /\ job[j].state = "pending" \/ (job[j].state = "running" /\ job[j].expired)
    /\ ~Fenced(j)

\* claim: fenced work is failed (_reschedule_stale), then a job is leased.
Superseded(rows) == [j \in Job |->
    IF Fenced(j) /\ rows[j].state \in {"pending", "running"}
    THEN [rows[j] EXCEPT !.state = "failed", !.retryable = FALSE, !.holder = None]
    ELSE rows[j]]

\* run_once keeps nothing between attempts: what is left to do is read from
\* the job's row.
Beginning(j) ==
    CASE j = "ingest" /\ job[j].removed -> "stage"
      [] j = "delete_document" /\ job[j].stage # "removing_index" -> "cleanup"
      [] OTHER -> "prepare"

Claim(w) ==
    /\ process[w].at = "idle"
    /\ \E j \in Job :
          /\ Claimable(j)
          /\ job' = [Superseded(job) EXCEPT ![j].state = "running", ![j].holder = w,
                                            ![j].expired = FALSE]
          /\ process' = [process EXCEPT ![w] = [Idle EXCEPT !.at = Beginning(j), !.job = j]]
    /\ UNCHANGED <<op, index, late, faults, history>>

Alive(w) == process[w].at \notin {"idle", "dead"}

\* The lease is renewed every third of its life: it runs out only when its
\* holder is gone or when the holder's heartbeat is.
Expire(j) ==
    /\ job[j].state = "running" /\ ~job[j].expired /\ ~Fenced(j)
    /\ \A w \in Process : job[j].holder = w /\ Alive(w) /\ process[w].job = j
          => process[w].beat = "failed"
    /\ job' = [job EXCEPT ![j].expired = TRUE]
    /\ UNCHANGED <<op, index, late, process, faults, history>>

\* A heartbeat is refused once the lease is not held any more, and may fail
\* with the database.  Nobody looks at the task until run_once ends.
HeartbeatFails(w) ==
    /\ Alive(w) /\ process[w].beat = "ok"
    /\ IF Held(w) THEN Fault("beat") ELSE UNCHANGED faults
    /\ process' = [process EXCEPT ![w].beat = "failed"]
    /\ UNCHANGED <<job, op, index, late, history>>

Crash(w) ==
    /\ Alive(w) /\ Fault("crash")
    /\ LET p == process[w]
       IN  late' = IF p.at = "calling" THEN [late EXCEPT ![p.job][p.slot] = @ + 1] ELSE late
    /\ process' = [process EXCEPT ![w].at = "dead"]
    /\ UNCHANGED <<job, op, index, history>>

Restart(w) ==
    /\ process[w].at = "dead"
    /\ process' = [process EXCEPT ![w] = Idle]
    /\ UNCHANGED <<job, op, index, late, faults, history>>

-----------------------------------------------------------------------------
(* The steps of run_once.  Every call of the coordinator that finds the    *)
(* lease gone raises; so does every index failure.                         *)

Goto(w, at) == process' = [process EXCEPT ![w].at = at]

GotoSlot(w, at, x) == process' = [process EXCEPT ![w].at = at, ![w].slot = x]

\* prepare_cleanup: every upsert made for the document joins the removals;
\* the cleanup waits until no write made before it is unresolved, and cancels
\* what was prepared only.
Cleanup(w) ==
    LET old == op["ingest"]
        drafted == {First} \cup (IF old["upsert"] = "none" THEN {} ELSE {job["ingest"].draft})
    IN  /\ process[w].at = "cleanup"
        /\ IF ~Held(w) THEN Goto(w, "failing") /\ UNCHANGED <<job, op>>
           ELSE IF job["delete_document"].stage = "inventory"
           THEN /\ job' = [job EXCEPT !["delete_document"].stage = "draining",
                                      !["delete_document"].removals = @ \cup drafted]
                /\ UNCHANGED <<op, process>>
           ELSE IF \E x \in Slot : old[x] \in Unresolved
           THEN Goto(w, "retryable") /\ UNCHANGED <<job, op>>
           ELSE /\ op' = [op EXCEPT !["ingest"] = [x \in Slot |->
                             IF old[x] = "pending" THEN "failed" ELSE old[x]]]
                /\ job' = [job EXCEPT !["delete_document"].stage = "removing_index"]
                /\ GotoSlot(w, "prepare", "remove")
        /\ UNCHANGED <<index, late, faults, history>>

StageArtifacts(w) ==
    /\ process[w].at = "stage"
    /\ IF ~Held(w) THEN Goto(w, "failing") /\ UNCHANGED job
       ELSE /\ GotoSlot(w, "prepare", "upsert")
            /\ \E p \in Point : job' = [job EXCEPT !["ingest"].draft =
                                           IF @ = None THEN p ELSE @]
    /\ UNCHANGED <<op, index, late, faults, history>>

\* The ticket shows the operation as it is now; what it shows is acted upon
\* in later calls.
Prepare(w) ==
    LET j == process[w].job
        x == process[w].slot
        state == IF op[j][x] = "none" THEN "pending" ELSE op[j][x]
    IN  /\ process[w].at = "prepare"
        /\ IF ~Held(w) THEN Goto(w, "failing") /\ UNCHANGED op
           ELSE /\ op' = [op EXCEPT ![j][x] = state]
                /\ process' = [process EXCEPT ![w].seen = state, ![w].at =
                      IF x = "upsert" THEN "ensure"
                      ELSE IF x = "remove" /\ state = "succeeded" THEN "fetch"
                      ELSE "start"]
        /\ UNCHANGED <<job, index, late, faults, history>>

Points(j, x) == IF x = "upsert" THEN {job[j].draft} ELSE job[j].removals

Verified(j, x) == IF x = "upsert" THEN Points(j, x) \subseteq index
                                  ELSE Points(j, x) \cap index = {}

\* A read of the index that fails is reported as "failed", whatever the ticket
\* showed; ensure may also fail while it creates the collection.
ReadFails(w) ==
    /\ process[w].at \in {"ensure", "fetch", "verify"}
    /\ Fault("read")
    /\ \E outcome \in {"failed", IF process[w].at = "ensure" THEN "unknown" ELSE "failed"} :
          process' = [process EXCEPT ![w].at = "report", ![w].seen = outcome]
    /\ UNCHANGED <<job, op, index, late, history>>

\* process_record: an operation of an earlier attempt is verified, never sent
\* again unless it failed.
Ensure(w) ==
    LET p == process[w]
        verified == Verified(p.job, p.slot)
    IN  /\ p.at = "ensure"
        /\ CASE p.seen = "succeeded" -> Goto(w, IF verified THEN "publish" ELSE "retryable")
             [] p.seen \in Unresolved ->
                   IF verified
                   THEN process' = [process EXCEPT ![w].at = "report", ![w].seen = "succeeded"]
                   ELSE Goto(w, "retryable")
             [] OTHER -> Goto(w, "start")
        /\ UNCHANGED <<job, op, index, late, faults, history>>

\* remove_index_entries: a removal already acknowledged that finds its points
\* present again needs a new one.
Fetch(w) ==
    LET p == process[w]
    IN  /\ p.at = "fetch"
        /\ IF Verified(p.job, p.slot) THEN Goto(w, "removed")
                                      ELSE GotoSlot(w, "prepare", "after")
        /\ UNCHANGED <<job, op, index, late, faults, history>>

MayStart(x, state) ==
    \/ state \in {"pending", "failed"}
    \/ x # "upsert" /\ state \in Unresolved

Start(w) ==
    LET j == process[w].job
        x == process[w].slot
    IN  /\ process[w].at = "start"
        /\ IF ~Held(w) THEN Goto(w, "failing") /\ UNCHANGED op
           ELSE IF op[j][x] = "succeeded" THEN Goto(w, "calling") /\ UNCHANGED op
           ELSE IF MayStart(x, op[j][x])
           THEN op' = [op EXCEPT ![j][x] = "in_flight"] /\ Goto(w, "calling")
           ELSE Goto(w, "retryable") /\ UNCHANGED op
        /\ UNCHANGED <<job, index, late, faults, history>>

Written(j, x) == IF x = "upsert" THEN index \cup Points(j, x) ELSE index \ Points(j, x)

\* The write lands and its caller is told so.
Acknowledged(w) ==
    LET p == process[w]
    IN  /\ p.at = "calling"
        /\ index' = Written(p.job, p.slot)
        /\ overtaken' = (overtaken \/ (p.slot # "upsert" /\ ~Held(w)))
        /\ Goto(w, "verify")
        /\ UNCHANGED <<job, op, late, faults, misreported>>

\* The caller gives up; the write is under way, and may never land.
Timeout(w) ==
    LET p == process[w]
    IN  /\ p.at = "calling" /\ Fault("timeout")
        /\ late' = [late EXCEPT ![p.job][p.slot] = @ + 1]
        /\ process' = [process EXCEPT ![w].at = "report", ![w].seen = "unknown"]
        /\ UNCHANGED <<job, op, index, history>>

LandLate(j, x) ==
    /\ late[j][x] > 0
    /\ late' = [late EXCEPT ![j][x] = @ - 1]
    /\ index' = Written(j, x)
    /\ overtaken' = (overtaken \/ x # "upsert")
    /\ UNCHANGED <<job, op, process, faults, misreported>>

Verify(w) ==
    LET p == process[w]
    IN  /\ p.at = "verify"
        /\ process' = [process EXCEPT ![w].at = "report", ![w].seen =
              IF Verified(p.job, p.slot) THEN "succeeded" ELSE "unknown"]
        /\ UNCHANGED <<job, op, index, late, faults, history>>

\* Ledger.report asks for the ticket only.
Reportable(state, outcome) ==
    /\ state = "succeeded" => outcome = "succeeded"
    /\ state = "failed" => outcome # "unknown"

Report(w) ==
    LET p == process[w]
        state == op[p.job][p.slot]
    IN  /\ p.at = "report"
        /\ IF ~Reportable(state, p.seen)
           THEN Goto(w, IF state = "failed" THEN "retryable" ELSE "failing") /\ UNCHANGED op
           ELSE /\ op' = [op EXCEPT ![p.job][p.slot] = p.seen]
                /\ Goto(w, IF p.seen # "succeeded" THEN "retryable"
                           ELSE IF p.slot = "upsert" THEN "publish" ELSE "removed")
        /\ misreported' = (misreported \/ (state \in Unresolved /\ op'[p.job][p.slot] = "failed"))
        /\ UNCHANGED <<job, index, late, faults, overtaken>>

RemovedUnmarked(j) == FALSE                 \* mutant: nothing is committed

RemovedMark(j) == j = "ingest"

\* The removal is committed before the first upsert of the replacement.
Removed(w) ==
    LET j == process[w].job
    IN  /\ process[w].at = "removed"
        /\ IF ~Held(w) THEN Goto(w, "failing") /\ UNCHANGED job
           ELSE /\ job' = [job EXCEPT ![j].removed = RemovedMark(j)]
                /\ Goto(w, IF j = "ingest" THEN "stage" ELSE "publish")
        /\ UNCHANGED <<op, index, late, faults, history>>

\* Awaiting the heartbeat raises what it failed with into the worker's loop,
\* which ends the process.
Finally(w) == process' = [process EXCEPT ![w] =
    IF process[w].beat = "failed" THEN [Idle EXCEPT !.at = "dead"] ELSE Idle]

Publishable(j) ==
    IF j = "ingest" THEN op[j]["upsert"] = "succeeded"
    ELSE /\ \A i \in Job : \A x \in Slot : op[i][x] \notin Outstanding
         /\ "succeeded" \in {op[j]["remove"], op[j]["after"]}

Publish(w) ==
    LET j == process[w].job
    IN  /\ process[w].at = "publish"
        /\ IF ~Held(w) THEN Goto(w, "failing") /\ UNCHANGED job
           ELSE IF ~Publishable(j) THEN Goto(w, "retryable") /\ UNCHANGED job
           ELSE /\ job' = [job EXCEPT ![j].state = "completed", ![j].holder = None]
                /\ Finally(w)
        /\ UNCHANGED <<op, index, late, faults, history>>

\* jobs.fail is refused, and the refusal swallowed, without the lease.
Fail(w) ==
    LET j == process[w].job
    IN  /\ process[w].at \in {"failing", "retryable"}
        /\ job' = IF ~Held(w) THEN job
                  ELSE [job EXCEPT ![j].state = "failed", ![j].holder = None,
                                   ![j].retryable = (process[w].at = "retryable")]
        /\ Finally(w)
        /\ UNCHANGED <<op, index, late, faults, history>>

-----------------------------------------------------------------------------
Working(w) ==
    \/ Cleanup(w) \/ StageArtifacts(w) \/ Prepare(w) \/ Ensure(w)
    \/ Fetch(w) \/ Start(w) \/ Acknowledged(w) \/ Verify(w) \/ Report(w)
    \/ Removed(w) \/ Publish(w) \/ Fail(w)

Failing(w) == Timeout(w) \/ ReadFails(w) \/ HeartbeatFails(w) \/ Crash(w)

Next ==
    \/ DeleteDocument
    \/ \E j \in Job : RetryJob(j) \/ Expire(j) \/ \E x \in Slot : LandLate(j, x)
    \/ \E w \in Process : Claim(w) \/ Working(w) \/ Failing(w) \/ Restart(w)

Spec == Init /\ [][Next]_vars

\* Every call of a worker ends: the index client has a timeout.  A lease that
\* nobody renews runs out with the clock.  Somebody starts a dead process
\* again, and the idle ones poll.
Fairness ==
    /\ \A w \in Process : WF_vars(Working(w)) /\ WF_vars(Restart(w))
    /\ \A j \in Job : WF_vars(Expire(j))
    /\ WF_vars(\E w \in Process : Claim(w))

FairSpec == Spec /\ Fairness

-----------------------------------------------------------------------------
(* Properties.                                                             *)

JobRow == [state : {"none", "pending", "running", "failed", "completed"},
           stage : {"none", "privacy_ready", "inventory", "draining", "removing_index"},
           retryable : BOOLEAN, holder : Process \cup {None}, expired : BOOLEAN,
           removals : SUBSET Point, removed : BOOLEAN, draft : Point \cup {None}]

At == {"idle", "dead", "cleanup", "stage", "prepare", "ensure", "fetch",
       "start", "calling", "verify", "report", "removed", "publish", "failing", "retryable"}

\* Type correctness; only a job that is running has a holder.
WorkerTypeOK ==
    /\ job \in [Job -> JobRow]
    /\ \A j \in Job : job[j].holder # None => job[j].state = "running"
    /\ op \in [Job -> [Slot -> OpState]]
    /\ index \subseteq Point
    /\ late \in [Job -> [Slot -> 0 .. MaxFaults]]
    /\ process \in [Process -> [at : At, job : Job, slot : Slot, seen : OpState,
                                beat : {"ok", "failed"}]]
    /\ faults \in 0 .. MaxFaults
    /\ {overtaken, misreported} \subseteq BOOLEAN

\* jobs.py:681: an acknowledged replacement is in the index until its document
\* is deleted, however often its job is restarted; only a removal that landed
\* for a caller without the lease can have taken it away.
ReplacementKept ==
    op["ingest"]["upsert"] = "succeeded" /\ job["delete_document"].state = "none"
        => job["ingest"].draft \in index \/ overtaken

\* jobs.py:539: when a deletion is complete nothing of the document is in the
\* index and no write of it can still land, as long as the ledger did not call
\* a write failed that was only unanswered.
RemovedUnlessMisreported ==
    job["delete_document"].state = "completed" /\ ~misreported =>
        /\ index \cap job["delete_document"].removals = {}
        /\ late["ingest"]["upsert"] = 0

\* The same for every deletion (shared-interfaces.md:601): cleanup is not
\* complete until no earlier writer can recreate what it removed.
RemovedForGood ==
    job["delete_document"].state = "completed" =>
        /\ index \cap job["delete_document"].removals = {}
        /\ late["ingest"]["upsert"] = 0

\* A job that was accepted does not stay pending or running for ever, whatever
\* its workers die of: it completes or it shows that it failed.
EventuallySettled ==
    \A j \in Job : job[j].state \in {"pending", "running"}
        ~> job[j].state \in {"failed", "completed"}

\* A deletion whose failures are retried completes in the end: its failure is
\* resumable and what it waits for gets resolved.
CleanupCompletes ==
    job["delete_document"].state # "none" ~> job["delete_document"].state = "completed"

\* As above, and the administrators retry a failed deletion.
RetrySpec == FairSpec /\ WF_vars(RetryJob("delete_document"))
=============================================================================
