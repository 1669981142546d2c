----------------------------- MODULE WorkerProofs -----------------------------
(***************************************************************************)
(* The safety properties of Worker, for any number of processes, points    *)
(* and faults.  The argument follows the one write of the replacement: no  *)
(* second one is sent while it is under way or after it was acknowledged,  *)
(* unless the ledger was told that it failed.                              *)
(***************************************************************************)
EXTENDS Worker, TLAPS

-----------------------------------------------------------------------------
(* Types. *)

ProcessRow == [at : At, job : Job, slot : Slot, seen : OpState, beat : {"ok", "failed"}]

Typed ==
    /\ job \in [Job -> JobRow]
    /\ \A j \in Job : job[j].holder # None => job[j].state = "running"
    /\ op \in [Job -> [Slot -> OpState]]
    /\ index \in SUBSET Point
    /\ late \in [Job -> [Slot -> Nat]]
    /\ \A j \in Job, x \in Slot : late[j][x] <= faults
    /\ process \in [Process -> ProcessRow]
    /\ faults \in Nat /\ faults <= MaxFaults
    /\ overtaken \in BOOLEAN /\ misreported \in BOOLEAN

-----------------------------------------------------------------------------
(* The write of the replacement and the cleanup. *)

upsert  == op["ingest"]["upsert"]
writes  == late["ingest"]["upsert"]
draft   == job["ingest"].draft
removed == job["ingest"].removed
cleanup == job["delete_document"]

Tickets == {"ensure", "fetch", "start", "calling", "verify", "report"}
Calls == Tickets \cup {"prepare", "removed"}

(* What the next step of a process rests on. *)
Stepped(w) ==
    LET p == process[w]
    IN  /\ p.at \in Tickets => op[p.job][p.slot] # "none"
        /\ p.slot = "upsert" => p.job = "ingest" /\ removed /\ draft # None
        /\ p.at = "stage" => p.job = "ingest" /\ removed
        /\ p.at = "ensure" => p.slot = "upsert" /\ p.seen # "none"
        /\ p.at \in {"fetch", "removed"} => p.slot # "upsert"
        /\ p.at = "cleanup" => p.job = "delete_document"
        /\ p.at = "report" => p.seen \in {"failed", "unknown", "succeeded"}
        /\ p.job = "delete_document" /\ p.at \in Calls \cup {"publish"}
              => cleanup.stage = "removing_index"
        /\ Held(w) /\ p.job = "ingest" /\ p.slot # "upsert" /\ p.at \in Calls => ~removed

Steps == \A w \in Process : Stepped(w)

Rows ==
    /\ upsert # "none" \/ writes > 0 => removed /\ draft # None
    /\ op["delete_document"]["upsert"] = "none"
    /\ late["delete_document"]["upsert"] = 0
    /\ job["ingest"].removals = {First}
    /\ job["ingest"].state = "completed" => draft # None
    /\ cleanup.state = "none" <=> cleanup.stage = "none"
    /\ cleanup.state = "completed" => cleanup.stage = "removing_index"
    /\ cleanup.stage = "removing_index" => upsert \in {"none", "failed", "succeeded"}
    /\ \A x \in Slot : op["delete_document"][x] # "none" => cleanup.stage = "removing_index"

Sending(w) == process[w].at = "calling" /\ process[w].slot = "upsert"

(* Has seen the replacement in the index. *)
Told(w) == /\ process[w].at = "report"
           /\ process[w].slot = "upsert"
           /\ process[w].seen = "succeeded"

Past(w) == Told(w) \/ (process[w].at = "verify" /\ process[w].slot = "upsert")

Present ==
    /\ upsert = "succeeded" \/ \E w \in Process : Told(w)
    /\ cleanup.state = "none"
    => draft \in index \/ overtaken

Unsent ==
    /\ writes = 0
    /\ \A w \in Process : ~Sending(w) /\ ~Past(w)
    /\ index \subseteq {First}
    /\ removed => index = {}

(* About to send the write for the first time.                               *)
Prepared(w) ==
    /\ Held(w)
    /\ process[w].slot = "upsert"
    /\ \/ process[w].at = "start"
       \/ process[w].at = "ensure" /\ process[w].seen \in {"pending", "failed"}

(* A write that is under way and of which nobody has seen anything.          *)
Awaited ==
    /\ upsert \in Unresolved
    /\ draft \notin index
    /\ \A w \in Process : ~Past(w)

Once ==
    /\ upsert \in {"none", "pending", "failed"} => Unsent
    /\ \A w \in Process :
          Prepared(w) => Unsent /\ upsert \in {"pending", "failed", "unknown"}
    /\ \A w \in Process :
          Sending(w) => Awaited /\ writes = 0 /\ \A v \in Process : Sending(v) => v = w
    /\ writes > 0 => Awaited /\ writes = 1 /\ \A w \in Process : ~Sending(w)

(* Has seen the index without the points to be removed.                      *)
Cleared(w) ==
    /\ process[w].slot # "upsert"
    /\ process[w].at = "removed" \/ (process[w].at = "report" /\ process[w].seen = "succeeded")

FirstGone ==
    \A w \in Process :
       Cleared(w) /\ process[w].job = "ingest" /\ ~removed => First \notin index

Gone == index \cap cleanup.removals = {}

DocumentGone ==
    /\ \A w \in Process :
          /\ Cleared(w) /\ process[w].at = "report"
          /\ process[w].job = "delete_document"
          => Gone
    /\ \A x \in Slot : op["delete_document"][x] = "succeeded" => Gone
    /\ cleanup.state = "completed" => Gone /\ writes = 0

(* The inductive invariant. *)
WorkerInv ==
    /\ Typed /\ Rows /\ Steps /\ Present /\ FirstGone
    /\ ~misreported => Once /\ DocumentGone

-----------------------------------------------------------------------------
(* The rows of the two jobs. *)

JobsTyped ==
    /\ job \in [Job -> JobRow]
    /\ \A j \in Job : job[j].holder # None => job[j].state = "running"

(* What most steps leave of a row.                                           *)
Keeps(j) ==
    /\ job'[j].stage = job[j].stage
    /\ job'[j].removals = job[j].removals
    /\ job'[j].removed = job[j].removed
    /\ job'[j].draft = job[j].draft

\* A job nobody holds has no worker; one that is held is held by one.
LEMMA HolderOnly ==
    ASSUME Typed, NEW v \in Process, NEW w \in Process, Held(v), Held(w),
           process[v].job = process[w].job
    PROVE  v = w
BY DEF Held

LEMMA RowUpdate ==
    ASSUME JobsTyped, NEW j \in Job, NEW row \in JobRow, job' = [job EXCEPT ![j] = row],
           row.holder # None => row.state = "running"
    PROVE  /\ JobsTyped' /\ job'[j] = row
           /\ \A i \in Job : i # j => job'[i] = job[i]
BY DEF JobsTyped

LEMMA DeleteRow ==
    ASSUME Typed, Rows, DeleteDocument
    PROVE  /\ JobsTyped'
           /\ job'["ingest"] = job["ingest"]
           /\ cleanup.state = "none"
           /\ cleanup'.state = "pending" /\ cleanup'.stage = "inventory"
           /\ cleanup'.holder = None
<1> DEFINE removals == IF job["ingest"].state = "completed" THEN {draft} ELSE {}
           row == [NoJob EXCEPT !.state = "pending", !.stage = "inventory",
                                !.removals = removals]
<1>1. job["ingest"] \in JobRow
      BY DEF Typed, Job
<1>2. removals \in SUBSET Point
      BY <1>1 DEF JobRow, Rows, draft
<1> HIDE DEF removals
<1>3. row \in JobRow /\ row.state = "pending" /\ row.stage = "inventory" /\ row.holder = None
      BY <1>2 DEF JobRow, NoJob
<1>4. job' = [job EXCEPT !["delete_document"] = row] /\ cleanup.state = "none"
      BY DEF DeleteDocument, removals, draft, cleanup
<1> HIDE DEF row
<1>5. JobsTyped
      BY DEF Typed, JobsTyped
<1> QED BY <1>3, <1>4, <1>5, RowUpdate DEF Job, cleanup

LEMMA RetryRow ==
    ASSUME Typed, NEW j \in Job, RetryJob(j)
    PROVE  /\ JobsTyped' /\ Keeps(j)
           /\ \A i \in Job : i # j => job'[i] = job[i]
           /\ job'[j].state = "pending" /\ job'[j].holder = None /\ job[j].state = "failed"
<1> DEFINE row == [job[j] EXCEPT !.state = "pending", !.retryable = FALSE, !.holder = None]
<1>1. job[j] \in JobRow /\ JobsTyped
      BY DEF Typed, JobsTyped
<1>2. /\ row \in JobRow /\ row.state = "pending" /\ row.holder = None
      /\ row.stage = job[j].stage /\ row.removals = job[j].removals
      /\ row.removed = job[j].removed /\ row.draft = job[j].draft
      BY <1>1 DEF JobRow
<1>3. job' = [job EXCEPT ![j] = row] /\ job[j].state = "failed"
      BY DEF RetryJob
<1> HIDE DEF row
<1> QED BY <1>1, <1>2, <1>3, RowUpdate DEF Keeps

LEMMA ExpireRow ==
    ASSUME Typed, NEW j \in Job, Expire(j)
    PROVE  /\ JobsTyped' /\ Keeps(j)
           /\ \A i \in Job : i # j => job'[i] = job[i]
           /\ job'[j].state = job[j].state /\ job[j].state = "running" /\ job'[j].expired
<1> DEFINE row == [job[j] EXCEPT !.expired = TRUE]
<1>1. job[j] \in JobRow /\ JobsTyped
      BY DEF Typed, JobsTyped
<1>2. /\ row \in JobRow /\ row.state = job[j].state /\ row.holder = job[j].holder
      /\ row.stage = job[j].stage /\ row.removals = job[j].removals
      /\ row.removed = job[j].removed /\ row.draft = job[j].draft /\ row.expired
      BY <1>1 DEF JobRow
<1>3. job' = [job EXCEPT ![j] = row] /\ job[j].state = "running"
      BY DEF Expire
<1> HIDE DEF row
<1> QED BY <1>1, <1>2, <1>3, RowUpdate DEF Keeps, JobsTyped

\* What a claim does to the rows.
Claims(w, j) ==
    /\ process[w].at = "idle"
    /\ Claimable(j)
    /\ process' = [process EXCEPT ![w] = [Idle EXCEPT !.at = Beginning(j), !.job = j]]
    /\ \A i \in Job : Keeps(i)
    /\ job'[j].state = "running" /\ job'[j].holder = w
    /\ \A i \in Job : i # j =>
          /\ job'[i].state \in {job[i].state, "failed"}
          /\ job[i].state \notin {"pending", "running"} => job'[i].state = job[i].state
          /\ job'[i].holder \in {job[i].holder, None}
          /\ job'[i].expired = job[i].expired

LEMMA ClaimRow ==
    ASSUME Typed, NEW w \in Process, Claim(w)
    PROVE  JobsTyped' /\ \E j \in Job : Claims(w, j)
<1>1. PICK j \in Job :
         /\ Claimable(j)
         /\ job' = [Superseded(job) EXCEPT ![j].state = "running", ![j].holder = w,
                                           ![j].expired = FALSE]
         /\ process' = [process EXCEPT ![w] = [Idle EXCEPT !.at = Beginning(j), !.job = j]]
      BY DEF Claim
<1>2. JobsTyped
      BY DEF Typed, JobsTyped
<1>3. ASSUME NEW i \in Job
      PROVE  /\ Superseded(job)[i] \in JobRow
             /\ Superseded(job)[i].stage = job[i].stage
             /\ Superseded(job)[i].removals = job[i].removals
             /\ Superseded(job)[i].removed = job[i].removed
             /\ Superseded(job)[i].draft = job[i].draft
             /\ Superseded(job)[i].expired = job[i].expired
             /\ Superseded(job)[i].state \in {job[i].state, "failed"}
             /\ job[i].state \notin {"pending", "running"} =>
                   Superseded(job)[i].state = job[i].state
             /\ Superseded(job)[i].holder \in {job[i].holder, None}
             /\ Superseded(job)[i].holder # None => Superseded(job)[i].state = "running"
  <2> DEFINE row == [job[i] EXCEPT !.state = "failed", !.retryable = FALSE, !.holder = None]
  <2>1. job[i] \in JobRow /\ (job[i].holder # None => job[i].state = "running")
        BY <1>2 DEF JobsTyped
  <2>2. /\ row \in JobRow /\ row.state = "failed" /\ row.holder = None
        /\ row.stage = job[i].stage /\ row.removals = job[i].removals
        /\ row.removed = job[i].removed /\ row.draft = job[i].draft
        /\ row.expired = job[i].expired
        BY <2>1 DEF JobRow
  <2>3. \/ Superseded(job)[i] = job[i]
        \/ Superseded(job)[i] = row /\ job[i].state \in {"pending", "running"}
        BY DEF Superseded
  <2> HIDE DEF row
  <2> QED BY <2>1, <2>2, <2>3
<1>4. DOMAIN Superseded(job) = Job
      BY DEF Superseded
<1> DEFINE rows == Superseded(job)
           row == [rows[j] EXCEPT !.state = "running", !.holder = w, !.expired = FALSE]
<1>5. rows \in [Job -> JobRow]
      BY <1>3 DEF Superseded
<1>6. job' = [rows EXCEPT ![j].state = "running", ![j].holder = w, ![j].expired = FALSE]
      BY <1>1
<1>7. \A i \in Job :
         /\ rows[i] \in JobRow
         /\ rows[i].stage = job[i].stage
         /\ rows[i].removals = job[i].removals
         /\ rows[i].removed = job[i].removed
         /\ rows[i].draft = job[i].draft
         /\ rows[i].expired = job[i].expired
         /\ rows[i].state \in {job[i].state, "failed"}
         /\ job[i].state \notin {"pending", "running"} => rows[i].state = job[i].state
         /\ rows[i].holder \in {job[i].holder, None}
         /\ rows[i].holder # None => rows[i].state = "running"
      BY <1>3
<1> HIDE DEF rows
<1>8. /\ row \in JobRow /\ row.state = "running" /\ row.holder = w
      /\ row.stage = rows[j].stage /\ row.removals = rows[j].removals
      /\ row.removed = rows[j].removed /\ row.draft = rows[j].draft
      BY <1>7 DEF JobRow
<1>9. job' = [rows EXCEPT ![j] = row]
      BY <1>5, <1>6
<1> HIDE DEF row
<1>10. /\ job' \in [Job -> JobRow] /\ job'[j] = row
       /\ \A i \in Job : i # j => job'[i] = rows[i]
       BY <1>5, <1>8, <1>9
<1>11. JobsTyped'
       BY <1>7, <1>8, <1>10 DEF JobsTyped
<1>12. \A i \in Job : Keeps(i)
       BY <1>7, <1>8, <1>10 DEF Keeps
<1>13. process[w].at = "idle"
       BY DEF Claim
<1>14. \A i \in Job : i # j =>
          /\ job'[i].state \in {job[i].state, "failed"}
          /\ job[i].state \notin {"pending", "running"} => job'[i].state = job[i].state
          /\ job'[i].holder \in {job[i].holder, None}
          /\ job'[i].expired = job[i].expired
       BY <1>7, <1>10
<1>15. Claims(w, j)
       BY <1>1, <1>8, <1>10, <1>12, <1>13, <1>14 DEF Claims
<1> QED BY <1>11, <1>15

LEMMA CleanupRow ==
    ASSUME Typed, Rows, NEW w \in Process, Cleanup(w)
    PROVE  /\ JobsTyped' /\ job'["ingest"] = job["ingest"]
           /\ cleanup'.state = cleanup.state /\ cleanup'.holder = cleanup.holder
           /\ cleanup'.expired = cleanup.expired
           /\ \/ job' = job
              \/ /\ Held(w) /\ cleanup.stage = "inventory" /\ cleanup'.stage = "draining"
                 /\ UNCHANGED <<op, process>>
              \/ /\ Held(w) /\ cleanup.stage # "inventory" /\ cleanup'.stage = "removing_index"
                 /\ cleanup'.removals = cleanup.removals
                 /\ \A x \in Slot : op["ingest"][x] \notin Unresolved
                 /\ op' = [op EXCEPT !["ingest"] = [x \in Slot |->
                              IF op["ingest"][x] = "pending" THEN "failed"
                              ELSE op["ingest"][x]]]
                 /\ process' = [process EXCEPT ![w].at = "prepare", ![w].slot = "remove"]
<1>1. /\ job["delete_document"] \in JobRow /\ job["ingest"] \in JobRow /\ JobsTyped
      /\ cleanup.holder # None => cleanup.state = "running"
      BY DEF Typed, JobsTyped, Job, cleanup
<1> DEFINE drafted == {First} \cup (IF upsert = "none" THEN {} ELSE {draft})
           listed == cleanup.removals \cup drafted
           row1 == [cleanup EXCEPT !.stage = "draining", !.removals = listed]
           row2 == [cleanup EXCEPT !.stage = "removing_index"]
<1>2. listed \in SUBSET Point
      BY <1>1, ConstantsAssumption DEF JobRow, Rows, draft, cleanup
<1>3. CASE job' = job
      BY <1>1, <1>3 DEF cleanup, JobsTyped
<1>4. CASE /\ Held(w) /\ cleanup.stage = "inventory" /\ UNCHANGED <<op, process>>
           /\ job' = [job EXCEPT !["delete_document"] = row1]
  <2> HIDE DEF listed
  <2>1. /\ row1 \in JobRow /\ row1.stage = "draining" /\ row1.state = cleanup.state
        /\ row1.holder = cleanup.holder /\ row1.expired = cleanup.expired
        BY <1>1, <1>2 DEF JobRow, cleanup
  <2> HIDE DEF row1
  <2> QED BY <1>1, <1>4, <2>1, RowUpdate DEF Job, cleanup
<1>5. CASE /\ Held(w) /\ cleanup.stage # "inventory"
           /\ \A x \in Slot : op["ingest"][x] \notin Unresolved
           /\ op' = [op EXCEPT !["ingest"] = [x \in Slot |->
                              IF op["ingest"][x] = "pending" THEN "failed"
                              ELSE op["ingest"][x]]]
           /\ process' = [process EXCEPT ![w].at = "prepare", ![w].slot = "remove"]
           /\ job' = [job EXCEPT !["delete_document"] = row2]
  <2>1. /\ row2 \in JobRow /\ row2.stage = "removing_index" /\ row2.state = cleanup.state
        /\ row2.holder = cleanup.holder /\ row2.expired = cleanup.expired
        /\ row2.removals = cleanup.removals
        BY <1>1 DEF JobRow, cleanup
  <2> HIDE DEF row2
  <2> QED BY <1>1, <1>5, <2>1, RowUpdate DEF Job, cleanup
<1> QED BY <1>3, <1>4, <1>5 DEF Cleanup, cleanup, GotoSlot, upsert, draft

LEMMA StageRow ==
    ASSUME Typed, NEW w \in Process, StageArtifacts(w)
    PROVE  /\ JobsTyped' /\ job'["delete_document"] = job["delete_document"]
           /\ job'["ingest"].stage = job["ingest"].stage
           /\ job'["ingest"].removals = job["ingest"].removals
           /\ removed' = removed
           /\ draft # None => draft' = draft
           /\ job'["ingest"].state = job["ingest"].state
           /\ job'["ingest"].holder = job["ingest"].holder
           /\ job'["ingest"].expired = job["ingest"].expired
           /\ \/ process' = [process EXCEPT ![w].at = "failing"]
              \/ Held(w) /\ draft' # None
                 /\ process' = [process EXCEPT ![w].at = "prepare", ![w].slot = "upsert"]
<1>1. job["ingest"] \in JobRow /\ JobsTyped
      BY DEF Typed, JobsTyped, Job
<1>2. CASE Goto(w, "failing") /\ UNCHANGED job
      BY <1>1, <1>2 DEF Goto, draft, removed, JobsTyped
<1>3. CASE /\ Held(w) /\ GotoSlot(w, "prepare", "upsert")
           /\ \E p \in Point : job' = [job EXCEPT !["ingest"].draft = IF @ = None THEN p ELSE @]
  <2>1. PICK p \in Point : job' = [job EXCEPT !["ingest"].draft = IF @ = None THEN p ELSE @]
        BY <1>3
  <2> DEFINE text == IF draft = None THEN p ELSE draft
             row == [job["ingest"] EXCEPT !.draft = text]
  <2>2. text \in Point /\ text # None /\ (draft # None => text = draft)
        BY <1>1, ConstantsAssumption DEF JobRow, draft
  <2>3. job' = [job EXCEPT !["ingest"] = row]
        BY <1>1, <2>1 DEF draft
  <2> HIDE DEF text
  <2>4. /\ row \in JobRow /\ row.stage = job["ingest"].stage
        /\ row.removals = job["ingest"].removals /\ row.removed = job["ingest"].removed
        /\ row.state = job["ingest"].state /\ row.holder = job["ingest"].holder
        /\ row.expired = job["ingest"].expired /\ row.draft = text
        BY <1>1, <2>2 DEF JobRow
  <2>5. job["ingest"].holder # None => job["ingest"].state = "running"
        BY <1>1 DEF JobsTyped, Job
  <2> HIDE DEF row
  <2>6. JobsTyped' /\ job'["ingest"] = row /\ job'["delete_document"] = job["delete_document"]
        BY <1>1, <2>3, <2>4, <2>5, RowUpdate DEF Job
  <2>7. /\ job'["ingest"].stage = job["ingest"].stage
        /\ job'["ingest"].removals = job["ingest"].removals
        /\ removed' = removed
        /\ draft # None => draft' = draft
        /\ job'["ingest"].state = job["ingest"].state
        /\ job'["ingest"].holder = job["ingest"].holder
        /\ job'["ingest"].expired = job["ingest"].expired
        /\ draft' # None
        BY <2>2, <2>4, <2>6 DEF draft, removed
  <2> QED BY <1>3, <2>6, <2>7 DEF GotoSlot
<1> QED BY <1>2, <1>3 DEF StageArtifacts

LEMMA RemovedRow ==
    ASSUME Typed, NEW w \in Process, Removed(w)
    PROVE  /\ JobsTyped'
           /\ \A i \in Job : /\ job'[i].state = job[i].state /\ job'[i].holder = job[i].holder
                             /\ job'[i].expired = job[i].expired /\ job'[i].draft = job[i].draft
                             /\ job'[i].removals = job[i].removals /\ job'[i].stage = job[i].stage
           /\ \/ job' = job /\ process' = [process EXCEPT ![w].at = "failing"]
              \/ /\ Held(w) /\ process[w].job = "ingest" /\ removed'
                 /\ process' = [process EXCEPT ![w].at = "stage"]
              \/ /\ Held(w) /\ process[w].job = "delete_document" /\ removed' = removed
                 /\ process' = [process EXCEPT ![w].at = "publish"]
<1> DEFINE j == process[w].job
           mark == RemovedMark(j)
           row == [job[j] EXCEPT !.removed = mark]
<1>1. j \in Job /\ JobsTyped
      BY DEF Typed, ProcessRow, JobsTyped
<1>2. job[j] \in JobRow /\ (job[j].holder # None => job[j].state = "running")
      BY <1>1 DEF JobsTyped
<1>3. CASE Goto(w, "failing") /\ UNCHANGED job
      BY <1>1, <1>3 DEF Goto, JobsTyped
<1>4. CASE /\ Held(w) /\ job' = [job EXCEPT ![j].removed = mark]
           /\ Goto(w, IF j = "ingest" THEN "stage" ELSE "publish")
  <2>1. mark \in BOOLEAN /\ (mark <=> j = "ingest")
        BY DEF RemovedMark
  <2>2. job' = [job EXCEPT ![j] = row]
        BY <1>1, <1>2, <1>4
  <2> HIDE DEF mark
  <2>3. /\ row \in JobRow /\ row.stage = job[j].stage
        /\ row.removals = job[j].removals /\ row.removed = mark
        /\ row.state = job[j].state /\ row.holder = job[j].holder
        /\ row.expired = job[j].expired /\ row.draft = job[j].draft
        BY <1>2, <2>1 DEF JobRow
  <2> HIDE DEF row, j
  <2>4. JobsTyped' /\ job'[j] = row /\ \A i \in Job : i # j => job'[i] = job[i]
        BY <1>1, <1>2, <2>2, <2>3, RowUpdate
  <2>5. CASE j = "ingest"
        BY <1>4, <2>1, <2>3, <2>4, <2>5 DEF Goto, removed, j
  <2>6. CASE j # "ingest"
    <3>1. j = "delete_document"
          BY <1>1, <2>6 DEF Job
    <3> QED BY <1>4, <2>3, <2>4, <3>1 DEF Goto, removed, j, Job
  <2> QED BY <2>5, <2>6
<1> QED BY <1>3, <1>4 DEF Removed

LEMMA PublishRow ==
    ASSUME Typed, NEW w \in Process, Publish(w)
    PROVE  /\ JobsTyped' /\ \A i \in Job : Keeps(i)
           /\ \/ job' = job /\ process' = [process EXCEPT ![w].at = "failing"]
              \/ job' = job /\ process' = [process EXCEPT ![w].at = "retryable"]
              \/ /\ Held(w) /\ Publishable(process[w].job) /\ Finally(w)
                 /\ job'[process[w].job].state = "completed"
                 /\ job'[process[w].job].holder = None
                 /\ \A i \in Job : i # process[w].job => job'[i] = job[i]
<1> DEFINE j == process[w].job
           row == [job[j] EXCEPT !.state = "completed", !.holder = None]
<1>1. j \in Job /\ JobsTyped
      BY DEF Typed, ProcessRow, JobsTyped
<1>2. job[j] \in JobRow
      BY <1>1 DEF JobsTyped
<1>3. CASE UNCHANGED job /\ (Goto(w, "failing") \/ Goto(w, "retryable"))
      BY <1>1, <1>3 DEF Goto, JobsTyped, Keeps
<1>4. CASE /\ Held(w) /\ Publishable(j) /\ Finally(w)
           /\ job' = [job EXCEPT ![j].state = "completed", ![j].holder = None]
  <2>1. job' = [job EXCEPT ![j] = row]
        BY <1>1, <1>2, <1>4
  <2>2. /\ row \in JobRow /\ row.stage = job[j].stage
        /\ row.removals = job[j].removals /\ row.removed = job[j].removed
        /\ row.state = "completed" /\ row.holder = None /\ row.draft = job[j].draft
        BY <1>2 DEF JobRow
  <2> HIDE DEF row, j
  <2>3. JobsTyped' /\ job'[j] = row /\ \A i \in Job : i # j => job'[i] = job[i]
        BY <1>1, <1>2, <2>1, <2>2, RowUpdate
  <2>4. \A i \in Job : Keeps(i)
        BY <2>2, <2>3 DEF Keeps
  <2> QED BY <1>4, <2>2, <2>3, <2>4 DEF j
<1> QED BY <1>3, <1>4 DEF Publish

LEMMA FailRow ==
    ASSUME Typed, NEW w \in Process, Fail(w)
    PROVE  /\ JobsTyped' /\ \A i \in Job : Keeps(i)
           /\ \A i \in Job : \/ job'[i] = job[i]
                             \/ /\ job[i].state = "running" /\ job'[i].state = "failed"
                                /\ job'[i].holder = None
<1> DEFINE j == process[w].job
           kept == process[w].at = "retryable"
           row == [job[j] EXCEPT !.state = "failed", !.holder = None, !.retryable = kept]
<1>1. j \in Job /\ JobsTyped
      BY DEF Typed, ProcessRow, JobsTyped
<1>2. job[j] \in JobRow
      BY <1>1 DEF JobsTyped
<1>3. CASE UNCHANGED job
      BY <1>1, <1>3 DEF JobsTyped, Keeps
<1>4. CASE Held(w) /\ job' = [job EXCEPT ![j].state = "failed", ![j].holder = None,
                                         ![j].retryable = kept]
  <2>1. job' = [job EXCEPT ![j] = row] /\ kept \in BOOLEAN
        BY <1>1, <1>2, <1>4
  <2> HIDE DEF kept
  <2>2. /\ row \in JobRow /\ row.stage = job[j].stage
        /\ row.removals = job[j].removals /\ row.removed = job[j].removed
        /\ row.state = "failed" /\ row.holder = None /\ row.draft = job[j].draft
        BY <1>2, <2>1 DEF JobRow
  <2>3. job[j].state = "running"
        BY <1>4 DEF Held
  <2> HIDE DEF row, j
  <2>4. JobsTyped' /\ job'[j] = row /\ \A i \in Job : i # j => job'[i] = job[i]
        BY <1>1, <1>2, <2>1, <2>2, RowUpdate
  <2> QED BY <2>2, <2>3, <2>4 DEF Keeps
<1> QED BY <1>3, <1>4 DEF Fail

-----------------------------------------------------------------------------
(* The steps of the worker processes. *)

(* Process w is the only one that moves, and this is where it goes.          *)
Turned(w, a, j, x, s) ==
    /\ process' \in [Process -> ProcessRow]
    /\ \A v \in Process : v # w => process'[v] = process[v]
    /\ process'[w].at = a /\ process'[w].job = j
    /\ process'[w].slot = x /\ process'[w].seen = s

LEMMA TurnAt ==
    ASSUME Typed, NEW w \in Process, NEW a \in At, process' = [process EXCEPT ![w].at = a]
    PROVE  Turned(w, a, process[w].job, process[w].slot, process[w].seen)
<1> DEFINE row == [process[w] EXCEPT !.at = a]
<1>1. process[w] \in ProcessRow /\ process \in [Process -> ProcessRow]
      BY DEF Typed
<1>2. /\ row \in ProcessRow /\ row.at = a /\ row.job = process[w].job
      /\ row.slot = process[w].slot /\ row.seen = process[w].seen
      BY <1>1 DEF ProcessRow
<1>3. process' = [process EXCEPT ![w] = row]
      OBVIOUS
<1> HIDE DEF row
<1> QED BY <1>1, <1>2, <1>3 DEF Turned

LEMMA TurnSlot ==
    ASSUME Typed, NEW w \in Process, NEW a \in At, NEW x \in Slot,
           process' = [process EXCEPT ![w].at = a, ![w].slot = x]
    PROVE  Turned(w, a, process[w].job, x, process[w].seen)
<1> DEFINE row == [process[w] EXCEPT !.at = a, !.slot = x]
<1>1. process[w] \in ProcessRow /\ process \in [Process -> ProcessRow]
      BY DEF Typed
<1>2. /\ row \in ProcessRow /\ row.at = a /\ row.job = process[w].job
      /\ row.slot = x /\ row.seen = process[w].seen
      BY <1>1 DEF ProcessRow
<1>3. process' = [process EXCEPT ![w] = row]
      BY <1>1
<1> HIDE DEF row
<1> QED BY <1>1, <1>2, <1>3 DEF Turned

LEMMA TurnSeen ==
    ASSUME Typed, NEW w \in Process, NEW a \in At, NEW s \in OpState,
           \/ process' = [process EXCEPT ![w].at = a, ![w].seen = s]
           \/ process' = [process EXCEPT ![w].seen = s, ![w].at = a]
    PROVE  Turned(w, a, process[w].job, process[w].slot, s)
<1> DEFINE row == [process[w] EXCEPT !.at = a, !.seen = s]
<1>1. process[w] \in ProcessRow /\ process \in [Process -> ProcessRow]
      BY DEF Typed
<1>2. /\ row \in ProcessRow /\ row.at = a /\ row.job = process[w].job
      /\ row.slot = process[w].slot /\ row.seen = s
      BY <1>1 DEF ProcessRow
<1>3. process' = [process EXCEPT ![w] = row]
      BY <1>1 DEF ProcessRow
<1> HIDE DEF row
<1> QED BY <1>1, <1>2, <1>3 DEF Turned

LEMMA TurnIdle ==
    ASSUME Typed, NEW w \in Process,
           \/ Finally(w) \/ process' = [process EXCEPT ![w] = Idle]
    PROVE  \E a \in {"idle", "dead"} : Turned(w, a, "ingest", "remove", "none")
<1> DEFINE dead == [Idle EXCEPT !.at = "dead"]
<1>1. process \in [Process -> ProcessRow]
      BY DEF Typed
<1>2. /\ dead \in ProcessRow /\ dead.at = "dead" /\ dead.job = "ingest"
      /\ dead.slot = "remove" /\ dead.seen = "none"
      BY DEF ProcessRow, Idle, At, Job, Slot, OpState
<1>3. /\ Idle \in ProcessRow /\ Idle.at = "idle" /\ Idle.job = "ingest"
      /\ Idle.slot = "remove" /\ Idle.seen = "none"
      BY DEF ProcessRow, Idle, At, Job, Slot, OpState
<1>4. \/ process' = [process EXCEPT ![w] = dead]
      \/ process' = [process EXCEPT ![w] = Idle]
      BY DEF Finally
<1> HIDE DEF dead
<1>5. CASE process' = [process EXCEPT ![w] = dead]
      BY <1>1, <1>2, <1>5 DEF Turned
<1>6. CASE process' = [process EXCEPT ![w] = Idle]
      BY <1>1, <1>3, <1>6 DEF Turned
<1> QED BY <1>4, <1>5, <1>6

Same == UNCHANGED <<op, index, late>>

(* Nothing a process rests on changes but the rows of the jobs.              *)
Rests ==
    /\ Same
    /\ process' \in [Process -> ProcessRow]
    /\ \A v \in Process : /\ process'[v].at = process[v].at
                          /\ process'[v].job = process[v].job
                          /\ process'[v].slot = process[v].slot
                          /\ process'[v].seen = process[v].seen

(* A process gives its attempt up, or has finished it.                       *)
Yields(w) ==
    /\ Same
    /\ \E a \in {"idle", "dead", "failing", "retryable"} :
          \/ Turned(w, a, process[w].job, process[w].slot, process[w].seen)
          \/ Turned(w, a, "ingest", "remove", "none")

Begins(w) ==
    /\ Same
    /\ process[w].at = "idle"
    /\ \E j \in Job : Turned(w, Beginning(j), j, "remove", "none")

Stages(w) ==
    /\ Same
    /\ process[w].at = "stage"
    /\ Turned(w, "prepare", process[w].job, "upsert", process[w].seen)
    /\ draft' # None

Reads(w) ==
    /\ Same
    /\ process[w].at \in {"ensure", "fetch", "verify"}
    /\ \E s \in {"failed", "unknown"} :
          Turned(w, "report", process[w].job, process[w].slot, s)

Ensures(w) ==
    LET p == process[w]
    IN  /\ Same
        /\ p.at = "ensure"
        /\ \/ Turned(w, "publish", p.job, p.slot, p.seen)
           \/ Turned(w, "retryable", p.job, p.slot, p.seen)
           \/ /\ p.seen \notin {"succeeded", "in_flight", "unknown"}
              /\ Turned(w, "start", p.job, p.slot, p.seen)
           \/ /\ Verified(p.job, p.slot)
              /\ Turned(w, "report", p.job, p.slot, "succeeded")

Fetches(w) ==
    LET p == process[w]
    IN  /\ Same
        /\ p.at = "fetch"
        /\ \/ Verified(p.job, p.slot) /\ Turned(w, "removed", p.job, p.slot, p.seen)
           \/ Turned(w, "prepare", p.job, "after", p.seen)

Verifies(w) ==
    LET p == process[w]
    IN  /\ Same
        /\ p.at = "verify"
        /\ \/ Verified(p.job, p.slot) /\ Turned(w, "report", p.job, p.slot, "succeeded")
           \/ Turned(w, "report", p.job, p.slot, "unknown")

Marks(w) ==
    LET p == process[w]
    IN  /\ Same
        /\ p.at = "removed"
        /\ \/ /\ p.job = "ingest" /\ removed'
              /\ Turned(w, "stage", p.job, p.slot, p.seen)
           \/ /\ p.job = "delete_document"
              /\ Turned(w, "publish", p.job, p.slot, p.seen)

(* The ledger after its operation on the process's slot.                     *)
Records(w, state) ==
    LET p == process[w]
    IN  op' = [op EXCEPT ![p.job][p.slot] = state]

Prepares(w) ==
    LET p == process[w]
        state == IF op[p.job][p.slot] = "none" THEN "pending" ELSE op[p.job][p.slot]
    IN  /\ UNCHANGED <<index, late>> /\ Held(w)
        /\ p.at = "prepare"
        /\ Records(w, state)
        /\ Turned(w, IF p.slot = "upsert" THEN "ensure"
                     ELSE IF p.slot = "remove" /\ state = "succeeded" THEN "fetch"
                     ELSE "start", p.job, p.slot, state)

Starts(w) ==
    LET p == process[w]
    IN  /\ UNCHANGED <<index, late>> /\ Held(w)
        /\ p.at = "start"
        /\ \/ op[p.job][p.slot] = "succeeded" /\ UNCHANGED op
           \/ MayStart(p.slot, op[p.job][p.slot]) /\ Records(w, "in_flight")
        /\ Turned(w, "calling", p.job, p.slot, p.seen)

Lands(w) ==
    LET p == process[w]
    IN  /\ UNCHANGED <<job, op, late>>
        /\ p.at = "calling"
        /\ index' = Written(p.job, p.slot)
        /\ overtaken' = (overtaken \/ (p.slot # "upsert" /\ ~Held(w)))
        /\ Turned(w, "verify", p.job, p.slot, p.seen)

GivesUp(w) ==
    LET p == process[w]
    IN  /\ UNCHANGED <<op, index>>
        /\ p.at = "calling"
        /\ late' = [late EXCEPT ![p.job][p.slot] = @ + 1]
        /\ faults' = faults + 1 /\ faults < MaxFaults
        /\ \/ Turned(w, "report", p.job, p.slot, "unknown")
           \/ Turned(w, "dead", p.job, p.slot, p.seen)

Reports(w) ==
    LET p == process[w]
    IN  /\ UNCHANGED <<index, late>>
        /\ p.at = "report"
        /\ Reportable(op[p.job][p.slot], p.seen)
        /\ Records(w, p.seen)
        /\ op[p.job][p.slot] \in Unresolved /\ p.seen = "failed" => misreported'
        /\ \/ Turned(w, "retryable", p.job, p.slot, p.seen)
           \/ p.slot = "upsert" /\ Turned(w, "publish", p.job, p.slot, p.seen)
           \/ /\ p.seen = "succeeded" /\ p.slot # "upsert"
              /\ Turned(w, "removed", p.job, p.slot, p.seen)

Cleans(w) ==
    /\ UNCHANGED <<index, late>> /\ Held(w)
    /\ process[w].at = "cleanup"
    /\ cleanup'.stage = "removing_index"
    /\ \A x \in Slot : op["ingest"][x] \notin Unresolved
    /\ op' = [op EXCEPT !["ingest"] = [x \in Slot |->
                 IF op["ingest"][x] = "pending" THEN "failed" ELSE op["ingest"][x]]]
    /\ Turned(w, "prepare", process[w].job, "remove", process[w].seen)

LEMMA GivesUpAt ==
    ASSUME Typed, NEW w \in Process, NEW a \in {"idle", "dead", "failing", "retryable"},
           Same, process' = [process EXCEPT ![w].at = a]
    PROVE  Yields(w)
<1>1. a \in At
      BY DEF At
<1> QED BY <1>1, TurnAt DEF Yields

LEMMA CleanupForm ==
    ASSUME Typed, Rows, NEW w \in Process, Cleanup(w)
    PROVE  Yields(w) \/ Rests \/ Cleans(w)
<1>1. CASE ~Held(w)
      BY <1>1, GivesUpAt DEF Cleanup, Goto, Same
<1>2. CASE Held(w) /\ cleanup.stage # "inventory" /\ \E x \in Slot : op["ingest"][x] \in Unresolved
      BY <1>2, GivesUpAt DEF Cleanup, Goto, Same, cleanup
<1>3. CASE Held(w) /\ cleanup.stage = "inventory"
      BY <1>3 DEF Cleanup, Same, Rests, cleanup, Typed
<1>4. CASE Held(w) /\ cleanup.stage # "inventory" /\ \A x \in Slot : op["ingest"][x] \notin Unresolved
  <2>1. /\ process' = [process EXCEPT ![w].at = "prepare", ![w].slot = "remove"]
        /\ "prepare" \in At /\ "remove" \in Slot
        /\ process[w].at = "cleanup" /\ UNCHANGED <<index, late>>
        /\ op' = [op EXCEPT !["ingest"] = [x \in Slot |->
                 IF op["ingest"][x] = "pending" THEN "failed" ELSE op["ingest"][x]]]
        BY <1>4 DEF Cleanup, GotoSlot, cleanup, At, Slot
  <2>2. Turned(w, "prepare", process[w].job, "remove", process[w].seen)
        BY <2>1, TurnSlot
  <2>3. job' = [job EXCEPT !["delete_document"].stage = "removing_index"]
        BY <1>4 DEF Cleanup, cleanup
  <2>4. job["delete_document"] \in JobRow /\ job \in [Job -> JobRow]
        BY DEF Typed, Job
  <2>5. cleanup'.stage = "removing_index"
        BY <2>3, <2>4 DEF cleanup, JobRow, Job
  <2> QED BY <1>4, <2>1, <2>2, <2>5 DEF Cleans
<1> QED BY <1>1, <1>2, <1>3, <1>4

LEMMA StageForm ==
    ASSUME Typed, NEW w \in Process, StageArtifacts(w)
    PROVE  Yields(w) \/ (Stages(w) /\ Held(w))
<1>1. Same /\ process[w].at = "stage"
      BY DEF StageArtifacts, Same
<1>2. CASE process' = [process EXCEPT ![w].at = "failing"]
      BY <1>1, <1>2, GivesUpAt
<1>3. CASE /\ Held(w) /\ draft' # None
           /\ process' = [process EXCEPT ![w].at = "prepare", ![w].slot = "upsert"]
  <2>1. "prepare" \in At /\ "upsert" \in Slot
        BY DEF At, Slot
  <2> QED BY <1>1, <1>3, <2>1, TurnSlot DEF Stages
<1> QED BY <1>2, <1>3, StageRow

LEMMA PrepareForm ==
    ASSUME Typed, NEW w \in Process, Prepare(w)
    PROVE  Yields(w) \/ Prepares(w)
<1> DEFINE j == process[w].job
           x == process[w].slot
           state == IF op[j][x] = "none" THEN "pending" ELSE op[j][x]
           at == IF x = "upsert" THEN "ensure"
                 ELSE IF x = "remove" /\ state = "succeeded" THEN "fetch" ELSE "start"
<1>1. CASE ~Held(w)
      BY <1>1, GivesUpAt DEF Prepare, Goto, Same
<1>2. CASE Held(w)
  <2>1. j \in Job /\ x \in Slot /\ op[j][x] \in OpState
        BY DEF Typed, ProcessRow
  <2>2. state \in OpState /\ at \in At
        BY <2>1 DEF OpState, At
  <2>3. process' = [process EXCEPT ![w].seen = state, ![w].at = at]
        BY <1>2 DEF Prepare
  <2>4. Turned(w, at, j, x, state)
        BY <2>2, <2>3, TurnSeen
  <2>5. op' = [op EXCEPT ![j][x] = state] /\ UNCHANGED <<index, late>> /\ process[w].at = "prepare"
        BY <1>2 DEF Prepare
  <2> QED BY <1>2, <2>4, <2>5 DEF Prepares, Records
<1> QED BY <1>1, <1>2

LEMMA ReadFailsForm ==
    ASSUME Typed, NEW w \in Process, ReadFails(w)
    PROVE  Reads(w)
<1>1. PICK s \in {"failed", "unknown"} :
         process' = [process EXCEPT ![w].at = "report", ![w].seen = s]
      BY DEF ReadFails
<1>2. "report" \in At /\ s \in OpState
      BY DEF At, OpState
<1>3. Turned(w, "report", process[w].job, process[w].slot, s)
      BY <1>1, <1>2, TurnSeen
<1> QED BY <1>3 DEF ReadFails, Reads, Same

LEMMA EnsureForm ==
    ASSUME Typed, NEW w \in Process, Ensure(w)
    PROVE  Yields(w) \/ Ensures(w)
<1>1. Same /\ process[w].at = "ensure"
      BY DEF Ensure, Same
<1>2. {"publish", "start", "report"} \subseteq At /\ "succeeded" \in OpState
      BY DEF At, OpState
<1>3. CASE Goto(w, "retryable")
      BY <1>1, <1>3, GivesUpAt DEF Goto
<1>4. CASE Goto(w, "publish")
      BY <1>1, <1>2, <1>4, TurnAt DEF Goto, Ensures
<1>5. CASE Goto(w, "start") /\ process[w].seen \notin Unresolved /\ process[w].seen # "succeeded"
      BY <1>1, <1>2, <1>5, TurnAt DEF Goto, Ensures, Unresolved
<1>6. CASE /\ Verified(process[w].job, process[w].slot)
           /\ process' = [process EXCEPT ![w].at = "report", ![w].seen = "succeeded"]
      BY <1>1, <1>2, <1>6, TurnSeen DEF Ensures
<1>7. CASE process[w].seen = "succeeded"
      BY <1>3, <1>4, <1>7 DEF Ensure, Unresolved
<1>8. CASE process[w].seen \in Unresolved
      BY <1>3, <1>6, <1>8 DEF Ensure, Unresolved
<1>9. CASE process[w].seen \notin Unresolved /\ process[w].seen # "succeeded"
      BY <1>5, <1>9 DEF Ensure
<1> QED BY <1>7, <1>8, <1>9

LEMMA FetchForm ==
    ASSUME Typed, NEW w \in Process, Fetch(w)
    PROVE  Fetches(w)
<1>1. {"removed", "prepare"} \subseteq At /\ "after" \in Slot
      BY DEF At, Slot
<1>2. CASE Verified(process[w].job, process[w].slot)
      BY <1>1, <1>2, TurnAt DEF Fetch, Goto, Fetches, Same
<1>3. CASE ~Verified(process[w].job, process[w].slot)
      BY <1>1, <1>3, TurnSlot DEF Fetch, GotoSlot, Fetches, Same
<1> QED BY <1>2, <1>3

LEMMA StartForm ==
    ASSUME Typed, NEW w \in Process, Start(w)
    PROVE  Yields(w) \/ Starts(w)
<1> DEFINE j == process[w].job
           x == process[w].slot
<1>1. UNCHANGED <<index, late>> /\ process[w].at = "start" /\ "calling" \in At
      BY DEF Start, At
<1>2. CASE Goto(w, "failing") /\ UNCHANGED op
      BY <1>1, <1>2, GivesUpAt DEF Goto, Same
<1>3. CASE Goto(w, "retryable") /\ UNCHANGED op
      BY <1>1, <1>3, GivesUpAt DEF Goto, Same
<1>4. CASE Held(w) /\ op[j][x] = "succeeded" /\ Goto(w, "calling") /\ UNCHANGED op
      BY <1>1, <1>4, TurnAt DEF Goto, Starts
<1>5. CASE /\ Held(w) /\ MayStart(x, op[j][x]) /\ Goto(w, "calling")
           /\ op' = [op EXCEPT ![j][x] = "in_flight"]
      BY <1>1, <1>5, TurnAt DEF Goto, Starts, Records
<1> QED BY <1>2, <1>3, <1>4, <1>5 DEF Start

LEMMA AcknowledgedForm ==
    ASSUME Typed, NEW w \in Process, Acknowledged(w)
    PROVE  Lands(w)
<1>1. "verify" \in At
      BY DEF At
<1> QED BY <1>1, TurnAt DEF Acknowledged, Goto, Lands

LEMMA TimeoutForm ==
    ASSUME Typed, NEW w \in Process, Timeout(w)
    PROVE  GivesUp(w)
<1>1. "report" \in At /\ "unknown" \in OpState
      BY DEF At, OpState
<1> QED BY <1>1, TurnSeen DEF Timeout, Fault, GivesUp

LEMMA CrashForm ==
    ASSUME Typed, NEW w \in Process, Crash(w)
    PROVE  Yields(w) \/ GivesUp(w)
<1>1. "dead" \in At
      BY DEF At
<1>2. Turned(w, "dead", process[w].job, process[w].slot, process[w].seen)
      BY <1>1, TurnAt DEF Crash
<1>3. CASE process[w].at = "calling"
      BY <1>2, <1>3 DEF Crash, Fault, GivesUp
<1>4. CASE process[w].at # "calling"
      BY <1>2, <1>4 DEF Crash, Yields, Same
<1> QED BY <1>3, <1>4

LEMMA VerifyForm ==
    ASSUME Typed, NEW w \in Process, Verify(w)
    PROVE  Verifies(w)
<1>1. "report" \in At /\ {"succeeded", "unknown"} \subseteq OpState
      BY DEF At, OpState
<1>2. Same /\ process[w].at = "verify"
      BY DEF Verify, Same
<1>3. CASE Verified(process[w].job, process[w].slot)
      BY <1>1, <1>2, <1>3, TurnSeen DEF Verify, Verifies
<1>4. CASE ~Verified(process[w].job, process[w].slot)
      BY <1>1, <1>2, <1>4, TurnSeen DEF Verify, Verifies
<1> QED BY <1>3, <1>4

LEMMA ReportForm ==
    ASSUME Typed, NEW w \in Process, Report(w)
    PROVE  Yields(w) \/ Reports(w)
<1> DEFINE j == process[w].job
           x == process[w].slot
           seen == process[w].seen
<1>1. UNCHANGED <<index, late>> /\ process[w].at = "report"
      BY DEF Report
<1>2. /\ {"retryable", "publish", "removed"} \subseteq At
      /\ j \in Job /\ x \in Slot /\ op \in [Job -> [Slot -> OpState]]
      BY DEF At, Typed, ProcessRow
<1>3. CASE ~Reportable(op[j][x], seen)
  <2>1. UNCHANGED op /\ (Goto(w, "retryable") \/ Goto(w, "failing"))
        BY <1>3 DEF Report
  <2> QED BY <1>1, <2>1, GivesUpAt DEF Goto, Same
<1>4. CASE Reportable(op[j][x], seen)
  <2>1. op' = [op EXCEPT ![j][x] = seen]
        BY <1>4 DEF Report
  <2>2. op'[j][x] = seen
        BY <1>2, <2>1
  <2>3. op[j][x] \in Unresolved /\ seen = "failed" => misreported'
        BY <2>2 DEF Report
  <2>4. \/ Goto(w, "retryable")
        \/ x = "upsert" /\ Goto(w, "publish")
        \/ seen = "succeeded" /\ x # "upsert" /\ Goto(w, "removed")
        BY <1>4 DEF Report
  <2>5. \/ Turned(w, "retryable", j, x, seen)
        \/ x = "upsert" /\ Turned(w, "publish", j, x, seen)
        \/ seen = "succeeded" /\ x # "upsert" /\ Turned(w, "removed", j, x, seen)
        BY <1>2, <2>4, TurnAt DEF Goto
  <2> QED BY <1>1, <1>4, <2>1, <2>3, <2>5 DEF Reports, Records
<1> QED BY <1>3, <1>4

LEMMA RemovedForm ==
    ASSUME Typed, NEW w \in Process, Removed(w)
    PROVE  Yields(w) \/ (Held(w) /\ Marks(w))
<1>1. Same /\ process[w].at = "removed" /\ {"stage", "publish"} \subseteq At
      BY DEF Removed, Same, At
<1>2. CASE process' = [process EXCEPT ![w].at = "failing"]
      BY <1>1, <1>2, GivesUpAt
<1>3. CASE /\ Held(w) /\ process[w].job = "ingest" /\ removed'
           /\ process' = [process EXCEPT ![w].at = "stage"]
      BY <1>1, <1>3, TurnAt DEF Marks
<1>4. CASE /\ Held(w) /\ process[w].job = "delete_document"
           /\ process' = [process EXCEPT ![w].at = "publish"]
      BY <1>1, <1>4, TurnAt DEF Marks
<1> QED BY <1>2, <1>3, <1>4, RemovedRow

LEMMA FinallyForm ==
    ASSUME Typed, NEW w \in Process, Same,
           Finally(w) \/ process' = [process EXCEPT ![w] = Idle]
    PROVE  Yields(w)
BY TurnIdle DEF Yields

LEMMA PublishForm ==
    ASSUME Typed, NEW w \in Process, Publish(w)
    PROVE  Yields(w)
<1>1. Same
      BY DEF Publish, Same
<1> QED BY <1>1, PublishRow, GivesUpAt, FinallyForm

LEMMA ClaimForm ==
    ASSUME Typed, NEW w \in Process, Claim(w)
    PROVE  Begins(w)
<1>1. PICK j \in Job : Claims(w, j)
      BY ClaimRow
<1> DEFINE row == [Idle EXCEPT !.at = Beginning(j), !.job = j]
<1>2. Beginning(j) \in At
      BY DEF Beginning, At
<1>3. /\ row \in ProcessRow /\ row.at = Beginning(j) /\ row.job = j
      /\ row.slot = "remove" /\ row.seen = "none"
      BY <1>2 DEF ProcessRow, Idle, Slot, OpState
<1>4. process' = [process EXCEPT ![w] = row] /\ process \in [Process -> ProcessRow]
      BY <1>1 DEF Claims, Typed
<1> HIDE DEF row
<1>5. Turned(w, Beginning(j), j, "remove", "none")
      BY <1>3, <1>4 DEF Turned
<1> QED BY <1>1, <1>5 DEF Claims, Claim, Begins, Same

LEMMA HeartbeatForm ==
    ASSUME Typed, NEW w \in Process, HeartbeatFails(w)
    PROVE  Rests
<1> DEFINE row == [process[w] EXCEPT !.beat = "failed"]
<1>1. process[w] \in ProcessRow /\ process \in [Process -> ProcessRow]
      BY DEF Typed
<1>2. /\ row \in ProcessRow /\ row.at = process[w].at /\ row.job = process[w].job
      /\ row.slot = process[w].slot /\ row.seen = process[w].seen
      BY <1>1 DEF ProcessRow
<1>3. process' = [process EXCEPT ![w] = row] /\ Same
      BY DEF HeartbeatFails, Same
<1> HIDE DEF row
<1> QED BY <1>1, <1>2, <1>3 DEF Rests

(* What a step of a process comes to.                                        *)
Moves(w) ==
    \/ Yields(w) \/ Begins(w) \/ Stages(w) \/ Reads(w) \/ Ensures(w) \/ Fetches(w)
    \/ Verifies(w) \/ Marks(w) \/ Prepares(w) \/ Starts(w) \/ Lands(w) \/ GivesUp(w)
    \/ Reports(w) \/ Cleans(w)

LEMMA OthersStay ==
    ASSUME NEW w \in Process, Moves(w)
    PROVE  \A v \in Process : v # w => process'[v] = process[v]
BY DEF Moves, Turned, Yields, Begins, Stages, Reads, Ensures, Fetches, Verifies, Marks,
   Prepares, Starts, Lands, GivesUp, Reports, Cleans

LEMMA StepForm ==
    ASSUME Typed, Rows, [Next]_vars
    PROVE  \/ Rests
           \/ \E w \in Process : Moves(w)
           \/ \E j \in Job, x \in Slot : LandLate(j, x)
<1>1. CASE DeleteDocument \/ (\E j \in Job : RetryJob(j) \/ Expire(j)) \/ UNCHANGED vars
  <2>1. UNCHANGED <<op, index, late, process>>
        BY <1>1 DEF DeleteDocument, RetryJob, Expire, vars
  <2>2. process \in [Process -> ProcessRow]
        BY DEF Typed
  <2> QED BY <2>1, <2>2 DEF Rests, Same
<1>2. CASE \E w \in Process : Claim(w) \/ Working(w) \/ Failing(w) \/ Restart(w)
  <2>1. PICK w \in Process : Claim(w) \/ Working(w) \/ Failing(w) \/ Restart(w)
        BY <1>2
  <2>2. CASE Claim(w)
        BY <2>2, ClaimForm DEF Moves
  <2>3. CASE Restart(w)
        BY <2>3, FinallyForm DEF Restart, Same, Moves
  <2>4. CASE Failing(w)
        BY <2>4, TimeoutForm, ReadFailsForm, HeartbeatForm, CrashForm DEF Failing, Moves
  <2>5. CASE Fail(w)
        BY <2>5, FinallyForm DEF Fail, Same, Moves
  <2>6. CASE Working(w) /\ ~Fail(w)
        BY <2>6, CleanupForm, StageForm, PrepareForm, EnsureForm, FetchForm, StartForm,
           AcknowledgedForm, VerifyForm, ReportForm, RemovedForm, PublishForm
        DEF Working, Moves
  <2> QED BY <2>1, <2>2, <2>3, <2>4, <2>5, <2>6
<1> QED BY <1>1, <1>2 DEF Next

-----------------------------------------------------------------------------
(* What no step takes back. *)

Onward ==
    /\ removed => removed'
    /\ draft # None => draft' = draft
    /\ job'["ingest"].removals = job["ingest"].removals
    /\ cleanup.stage = "removing_index" =>
          cleanup'.stage = "removing_index" /\ cleanup'.removals = cleanup.removals
    /\ cleanup'.state = "none" => cleanup.state = "none"

(* Only a claim takes a lease.                                               *)
HeldBefore ==
    \A v \in Process :
       Held(v)' /\ process'[v].job = process[v].job /\ process[v].at # "idle" => Held(v)

(* Only the worker that has removed the points marks them as removed.        *)
MarkedBy ==
    removed' => \/ removed
                \/ \E v \in Process :
                      /\ Held(v) /\ process[v].at = "removed" /\ process[v].job = "ingest"
                      /\ process'[v].at = "stage"
                      /\ index' = index

(* How the two jobs get to where Rows speaks of them.                        *)
Settles ==
    /\ job'["ingest"].state = "completed" =>
          job["ingest"].state = "completed" \/ upsert = "succeeded"
    /\ cleanup'.state = "none" <=> cleanup'.stage = "none"
    /\ cleanup'.state = "completed" =>
          \/ cleanup.state = "completed"
          \/ /\ Same /\ Publishable("delete_document")
             /\ \E w \in Process :
                   process[w].at = "publish" /\ process[w].job = "delete_document"
    /\ cleanup'.stage = "removing_index" =>
          cleanup.stage = "removing_index" \/ \E w \in Process : Cleans(w)

JobStep == JobsTyped' /\ Onward /\ HeldBefore /\ MarkedBy /\ Settles

LEMMA RowsHeld ==
    ASSUME Typed, cleanup'.state = "none" => cleanup.state = "none",
           \A j \in Job, v \in Process :
              /\ job'[j].state = "running" /\ job'[j].holder = v /\ ~job'[j].expired
              /\ process[v].at # "idle"
              => job[j].state = "running" /\ job[j].holder = v /\ ~job[j].expired
    PROVE  HeldBefore
<1> SUFFICES ASSUME NEW v \in Process, Held(v)', process'[v].job = process[v].job,
                    process[v].at # "idle"
             PROVE  Held(v)
    BY DEF HeldBefore
<1>1. process[v].job \in Job
      BY DEF Typed, ProcessRow
<1>2. /\ job'[process[v].job].state = "running" /\ job'[process[v].job].holder = v
      /\ ~job'[process[v].job].expired
      /\ ~(process[v].job = "ingest" /\ job'["delete_document"].state # "none")
      BY DEF Held, Fenced
<1> QED BY <1>1, <1>2 DEF Held, Fenced, cleanup

\* A step that leaves the jobs' documents and does not end one.
LEMMA JobStepKept ==
    ASSUME Typed, Rows, JobsTyped', \A i \in Job : Keeps(i),
           \A j \in Job, v \in Process :
              /\ job'[j].state = "running" /\ job'[j].holder = v /\ ~job'[j].expired
              /\ process[v].at # "idle"
              => job[j].state = "running" /\ job[j].holder = v /\ ~job[j].expired,
           \A j \in Job : job'[j].state = "none" <=> job[j].state = "none",
           \A j \in Job : job'[j].state = "completed" => job[j].state = "completed"
    PROVE  JobStep
<1>1. Onward
      BY DEF Onward, Keeps, Job, cleanup, draft, removed
<1>2. HeldBefore
      BY <1>1, RowsHeld DEF Onward
<1>3. MarkedBy
      BY DEF MarkedBy, Keeps, Job, removed
<1>4. Settles
      BY DEF Settles, Keeps, Job, cleanup, Rows
<1> QED BY <1>1, <1>2, <1>3, <1>4 DEF JobStep

LEMMA JobStill ==
    ASSUME Typed, Rows, job' = job
    PROVE  JobStep
<1>1. JobsTyped' /\ \A i \in Job : Keeps(i)
      BY DEF Typed, JobsTyped, Keeps
<1> QED BY <1>1, JobStepKept

LEMMA DeleteJobStep ==
    ASSUME Typed, Rows, DeleteDocument
    PROVE  JobStep
<1>1. /\ JobsTyped' /\ job'["ingest"] = job["ingest"] /\ cleanup.state = "none"
      /\ cleanup'.state = "pending" /\ cleanup'.stage = "inventory"
      BY DeleteRow
<1>2. Onward
      BY <1>1 DEF Onward, Rows, draft, removed
<1>3. HeldBefore
  <2>1. \A j \in Job : job'[j].state = "running" => job'[j] = job[j]
        BY <1>1 DEF Job, cleanup
  <2> QED BY <1>1, <2>1, RowsHeld
<1>4. MarkedBy /\ Settles
      BY <1>1 DEF MarkedBy, Settles, removed
<1> QED BY <1>1, <1>2, <1>3, <1>4 DEF JobStep

LEMMA RetryJobStep ==
    ASSUME Typed, Rows, NEW j \in Job, RetryJob(j)
    PROVE  JobStep
<1>1. \A i \in Job : Keeps(i) /\ (i # j => job'[i] = job[i])
      BY RetryRow DEF Keeps
<1> QED BY <1>1, RetryRow, JobStepKept

LEMMA ExpireJobStep ==
    ASSUME Typed, Rows, NEW j \in Job, Expire(j)
    PROVE  JobStep
<1>1. \A i \in Job : Keeps(i) /\ (i # j => job'[i] = job[i])
      BY ExpireRow DEF Keeps
<1> QED BY <1>1, ExpireRow, JobStepKept

LEMMA ClaimJobStep ==
    ASSUME Typed, Rows, NEW w \in Process, Claim(w)
    PROVE  JobStep
<1>1. PICK j \in Job : Claims(w, j)
      BY ClaimRow
<1>2. \A i \in Job, v \in Process :
         /\ job'[i].state = "running" /\ job'[i].holder = v /\ ~job'[i].expired
         /\ process[v].at # "idle"
         => job[i].state = "running" /\ job[i].holder = v /\ ~job[i].expired
      BY <1>1, ConstantsAssumption DEF Claims
<1>3. job[j].state \in {"pending", "running"}
      BY <1>1 DEF Claims, Claimable
<1>4. \A i \in Job : /\ job'[i].state = "none" <=> job[i].state = "none"
                     /\ job'[i].state = "completed" => job[i].state = "completed"
      BY <1>1, <1>3 DEF Claims
<1> QED BY <1>1, <1>2, <1>4, ClaimRow, JobStepKept DEF Claims

LEMMA CleanupJobStep ==
    ASSUME Typed, Rows, Steps, NEW w \in Process, Cleanup(w)
    PROVE  JobStep
<1>1. CASE job' = job
      BY <1>1, JobStill
<1>2. CASE job' # job
  <2>1. /\ JobsTyped' /\ job'["ingest"] = job["ingest"]
        /\ cleanup'.state = cleanup.state /\ cleanup'.holder = cleanup.holder
        /\ cleanup'.expired = cleanup.expired
        /\ cleanup'.stage \in {"draining", "removing_index"}
        /\ Held(w)
        /\ cleanup.stage = "removing_index" =>
              cleanup'.stage = "removing_index" /\ cleanup'.removals = cleanup.removals
        BY <1>2, CleanupRow
  <2>2. cleanup.state = "running"
    <3>1. process[w].job = "delete_document"
          BY DEF Steps, Stepped, Cleanup
    <3> QED BY <2>1, <3>1 DEF Held, cleanup
  <2>3. cleanup'.stage = "removing_index" => cleanup.stage = "removing_index" \/ Cleans(w)
    <3> SUFFICES ASSUME cleanup'.stage = "removing_index", cleanup.stage # "removing_index"
                 PROVE  Cleans(w)
        OBVIOUS
    <3>1. /\ \A x \in Slot : op["ingest"][x] \notin Unresolved
          /\ op' = [op EXCEPT !["ingest"] = [x \in Slot |->
                       IF op["ingest"][x] = "pending" THEN "failed" ELSE op["ingest"][x]]]
          /\ process' = [process EXCEPT ![w].at = "prepare", ![w].slot = "remove"]
          BY <1>2, CleanupRow
    <3>2. "prepare" \in At /\ "remove" \in Slot
          BY DEF At, Slot
    <3>3. Turned(w, "prepare", process[w].job, "remove", process[w].seen)
          BY <3>1, <3>2, TurnSlot
    <3>4. UNCHANGED <<index, late>> /\ process[w].at = "cleanup"
          BY DEF Cleanup
    <3> QED BY <2>1, <3>1, <3>3, <3>4 DEF Cleans
  <2>4. Onward
        BY <2>1 DEF Onward, draft, removed
  <2>5. HeldBefore
    <3>1. \A j \in Job : /\ job'[j].state = job[j].state /\ job'[j].holder = job[j].holder
                         /\ job'[j].expired = job[j].expired
          BY <2>1 DEF Job, cleanup
    <3> QED BY <2>1, <3>1, RowsHeld
  <2>6. MarkedBy /\ Settles
        BY <2>1, <2>2, <2>3 DEF MarkedBy, Settles, removed
  <2> QED BY <2>1, <2>4, <2>5, <2>6 DEF JobStep
<1> QED BY <1>1, <1>2

LEMMA StageJobStep ==
    ASSUME Typed, Rows, NEW w \in Process, StageArtifacts(w)
    PROVE  JobStep
<1>1. /\ JobsTyped' /\ cleanup' = cleanup
      /\ job'["ingest"].removals = job["ingest"].removals
      /\ removed' = removed /\ (draft # None => draft' = draft)
      /\ \A j \in Job : /\ job'[j].state = job[j].state /\ job'[j].holder = job[j].holder
                        /\ job'[j].expired = job[j].expired
      BY StageRow DEF cleanup, Job
<1>2. Onward
      BY <1>1 DEF Onward
<1>3. HeldBefore
      BY <1>1, RowsHeld
<1>4. MarkedBy /\ Settles
      BY <1>1 DEF MarkedBy, Settles, Rows, Job
<1> QED BY <1>1, <1>2, <1>3, <1>4 DEF JobStep

LEMMA RemovedJobStep ==
    ASSUME Typed, Rows, NEW w \in Process, Removed(w)
    PROVE  JobStep
<1>1. /\ JobsTyped'
      /\ \A i \in Job : /\ job'[i].state = job[i].state /\ job'[i].holder = job[i].holder
                        /\ job'[i].expired = job[i].expired /\ job'[i].draft = job[i].draft
                        /\ job'[i].removals = job[i].removals /\ job'[i].stage = job[i].stage
      /\ removed => removed'
      BY RemovedRow DEF removed
<1>2. Onward
      BY <1>1 DEF Onward, draft, cleanup, Job
<1>3. HeldBefore
      BY <1>1, <1>2, RowsHeld DEF Onward
<1>4. Settles
      BY <1>1 DEF Settles, Rows, cleanup, Job
<1>5. MarkedBy
  <2>1. process[w].at = "removed" /\ index' = index
        BY DEF Removed
  <2>2. CASE job' = job \/ removed' = removed
        BY <2>2 DEF MarkedBy, removed
  <2>3. CASE /\ Held(w) /\ process[w].job = "ingest"
             /\ process' = [process EXCEPT ![w].at = "stage"]
    <3>1. process'[w].at = "stage"
          BY <2>3 DEF Typed, ProcessRow
    <3> QED BY <2>1, <2>3, <3>1 DEF MarkedBy
  <2> QED BY <2>2, <2>3, RemovedRow
<1> QED BY <1>1, <1>2, <1>3, <1>4, <1>5 DEF JobStep

LEMMA PublishJobStep ==
    ASSUME Typed, Rows, NEW w \in Process, Publish(w)
    PROVE  JobStep
<1> DEFINE j == process[w].job
<1>1. CASE job' = job
      BY <1>1, JobStill
<1>2. CASE job' # job
  <2>1. /\ JobsTyped' /\ \A i \in Job : Keeps(i)
        /\ Held(w) /\ Publishable(j)
        /\ job'[j].state = "completed" /\ job'[j].holder = None
        /\ \A i \in Job : i # j => job'[i] = job[i]
        BY <1>2, PublishRow
  <2>2. j \in Job /\ job[j].state = "running"
        BY <2>1 DEF Typed, ProcessRow, Held
  <2>3. Same /\ process[w].at = "publish"
        BY DEF Publish, Same
  <2> HIDE DEF j
  <2>4. Onward
    <3>1. \A i \in Job : job'[i].state = "none" => job[i].state = "none"
          BY <2>1
    <3> QED BY <2>1, <3>1 DEF Onward, Keeps, Job, cleanup, draft, removed
  <2>5. HeldBefore
    <3>1. \A i \in Job : job'[i].state = "running" => job'[i] = job[i]
          BY <2>1
    <3> QED BY <2>4, <3>1, RowsHeld DEF Onward
  <2>6. MarkedBy
        BY <2>1 DEF MarkedBy, Keeps, Job, removed
  <2>7. Settles
    <3>1. CASE j = "ingest"
          BY <2>1, <2>2, <3>1 DEF Settles, Keeps, Job, Rows, cleanup, Publishable, upsert
    <3>2. CASE j = "delete_document"
          BY <2>1, <2>2, <2>3, <3>2 DEF Settles, Keeps, Job, Rows, cleanup, j
    <3> QED BY <2>2, <3>1, <3>2 DEF Job
  <2> QED BY <2>1, <2>4, <2>5, <2>6, <2>7 DEF JobStep
<1> QED BY <1>1, <1>2

LEMMA FailJobStep ==
    ASSUME Typed, Rows, NEW w \in Process, Fail(w)
    PROVE  JobStep
BY FailRow, JobStepKept

LEMMA JobSteps ==
    ASSUME Typed, Rows, Steps, [Next]_vars
    PROVE  JobStep
<1>1. CASE UNCHANGED vars \/ \E j \in Job, x \in Slot : LandLate(j, x)
      BY <1>1, JobStill DEF vars, LandLate
<1>2. CASE DeleteDocument \/ \E j \in Job : RetryJob(j) \/ Expire(j)
      BY <1>2, DeleteJobStep, RetryJobStep, ExpireJobStep
<1>3. CASE \E w \in Process : Claim(w) \/ Working(w) \/ Failing(w) \/ Restart(w)
  <2>1. PICK w \in Process : Claim(w) \/ Working(w) \/ Failing(w) \/ Restart(w)
        BY <1>3
  <2>2. CASE Failing(w) \/ Restart(w) \/ Prepare(w) \/ Ensure(w) \/ Fetch(w) \/ Start(w)
             \/ Acknowledged(w) \/ Verify(w) \/ Report(w)
    <3>1. job' = job
          BY <2>2 DEF Failing, Timeout, ReadFails, HeartbeatFails, Crash, Restart, Prepare,
             Ensure, Fetch, Start, Acknowledged, Verify, Report
    <3> QED BY <3>1, JobStill
  <2>3. CASE Claim(w) \/ Cleanup(w) \/ StageArtifacts(w) \/ Removed(w) \/ Publish(w) \/ Fail(w)
        BY <2>3, ClaimJobStep, CleanupJobStep, StageJobStep, RemovedJobStep, PublishJobStep,
           FailJobStep
  <2> QED BY <2>1, <2>2, <2>3 DEF Working
<1> QED BY <1>1, <1>2, <1>3 DEF Next

-----------------------------------------------------------------------------
(* The types again. *)

LEMMA FaultsStep ==
    ASSUME Typed, [Next]_vars
    PROVE  faults' \in Nat /\ faults <= faults' /\ faults' <= MaxFaults
<1>1. faults' = faults \/ (faults' = faults + 1 /\ faults < MaxFaults)
  <2>1. CASE UNCHANGED vars \/ DeleteDocument \/ \E j \in Job : \/ RetryJob(j) \/ Expire(j)
                                                             \/ \E x \in Slot : LandLate(j, x)
        BY <2>1 DEF vars, DeleteDocument, RetryJob, Expire, LandLate
  <2>2. CASE \E w \in Process : Claim(w) \/ Working(w) \/ Restart(w)
        BY <2>2 DEF Claim, Restart, Working, Cleanup, StageArtifacts, Prepare, Ensure, Fetch,
           Start, Acknowledged, Verify, Report, Removed, Publish, Fail
  <2>3. CASE \E w \in Process : Failing(w)
        BY <2>3 DEF Failing, Timeout, ReadFails, HeartbeatFails, Crash, Fault
  <2> QED BY <2>1, <2>2, <2>3 DEF Next
<1> QED BY <1>1, ConstantsAssumption DEF Typed

LEMMA HistoryStep ==
    ASSUME Typed, [Next]_vars
    PROVE  /\ overtaken' \in BOOLEAN /\ misreported' \in BOOLEAN
           /\ (overtaken => overtaken') /\ (misreported => misreported')
<1>1. CASE UNCHANGED history
      BY <1>1 DEF history, Typed
<1>2. CASE \E j \in Job, x \in Slot : LandLate(j, x)
      BY <1>2 DEF LandLate, Typed
<1>3. CASE \E w \in Process : Acknowledged(w)
      BY <1>3 DEF Acknowledged, Typed
<1>4. CASE \E w \in Process : Report(w)
      BY <1>4 DEF Report, Typed
<1>5. CASE UNCHANGED vars \/ DeleteDocument \/ \E j \in Job : RetryJob(j) \/ Expire(j)
      BY <1>1, <1>5 DEF vars, history, DeleteDocument, RetryJob, Expire
<1>6. CASE \E w \in Process : \/ Claim(w) \/ Restart(w) \/ Failing(w)
                              \/ Working(w) /\ ~Acknowledged(w) /\ ~Report(w)
      BY <1>1, <1>6 DEF history, Claim, Restart, Failing, Timeout, ReadFails, HeartbeatFails,
         Crash, Working, Cleanup, StageArtifacts, Prepare, Ensure, Fetch, Start, Verify,
         Removed, Publish, Fail
<1> QED BY <1>2, <1>3, <1>4, <1>5, <1>6 DEF Next, Working

LEMMA RecordsTyped ==
    ASSUME Typed, NEW w \in Process, NEW s \in OpState, Records(w, s)
    PROVE  /\ op' \in [Job -> [Slot -> OpState]]
           /\ op'[process[w].job][process[w].slot] = s
           /\ \A j \in Job, x \in Slot :
                 j # process[w].job \/ x # process[w].slot => op'[j][x] = op[j][x]
<1>1. process[w].job \in Job /\ process[w].slot \in Slot /\ op \in [Job -> [Slot -> OpState]]
      BY DEF Typed, ProcessRow
<1> QED BY <1>1 DEF Records

LEMMA LedgerTyped ==
    ASSUME Typed, Rows, [Next]_vars
    PROVE  op' \in [Job -> [Slot -> OpState]] /\ process' \in [Process -> ProcessRow]
<1>1. CASE Rests
      BY <1>1 DEF Rests, Same, Typed
<1>2. CASE \E j \in Job, x \in Slot : LandLate(j, x)
      BY <1>2 DEF LandLate, Typed
<1>3. CASE \E w \in Process : Moves(w)
  <2>1. PICK w \in Process : Moves(w)
        BY <1>3
  <2>2. process' \in [Process -> ProcessRow]
        BY <2>1 DEF Moves, Turned, Yields, Begins, Stages, Reads, Ensures, Fetches, Verifies,
           Marks, Prepares, Starts, Lands, GivesUp, Reports, Cleans
  <2>3. process[w].seen \in OpState /\ process[w].job \in Job /\ process[w].slot \in Slot
        BY DEF Typed, ProcessRow
  <2>4. op' \in [Job -> [Slot -> OpState]]
    <3>1. CASE UNCHANGED op
          BY <3>1 DEF Typed
    <3>2. CASE Prepares(w)
      <4>1. op[process[w].job][process[w].slot] \in OpState
            BY <2>3 DEF Typed
      <4> QED BY <3>2, <4>1, RecordsTyped DEF Prepares, OpState
    <3>3. CASE Starts(w)
          BY <3>1, <3>3, RecordsTyped DEF Starts, OpState
    <3>4. CASE Reports(w)
          BY <2>3, <3>4, RecordsTyped DEF Reports
    <3>5. CASE Cleans(w)
      <4> DEFINE left == [x \in Slot |-> IF op["ingest"][x] = "pending" THEN "failed"
                                         ELSE op["ingest"][x]]
      <4>1. left \in [Slot -> OpState]
            BY DEF Typed, Job, OpState
      <4> HIDE DEF left
      <4>2. op' = [op EXCEPT !["ingest"] = left]
            BY <3>5 DEF Cleans, left
      <4> QED BY <4>1, <4>2 DEF Typed
    <3> QED BY <2>1, <3>1, <3>2, <3>3, <3>4, <3>5 DEF Moves, Same, Yields, Begins, Stages,
            Reads, Ensures, Fetches, Verifies, Marks, Lands, GivesUp
  <2> QED BY <2>2, <2>4
<1> QED BY <1>1, <1>2, <1>3, StepForm

\* Only what is inside the index or is written to it gets there.
LEMMA IndexTyped ==
    ASSUME Typed, Rows, Steps, [Next]_vars
    PROVE  index' \in SUBSET Point
<1>1. /\ index \in SUBSET Point
      /\ draft \in Point \cup {None}
      BY DEF Typed, Job, JobRow, draft
<1>2. ASSUME NEW j \in Job, NEW x \in Slot, index' = Written(j, x),
             x = "upsert" => j = "ingest" /\ draft # None
      PROVE  index' \in SUBSET Point
      BY <1>1, <1>2 DEF Written, Points, draft
<1>3. CASE UNCHANGED index
      BY <1>1, <1>3
<1>4. CASE \E j \in Job, x \in Slot : LandLate(j, x)
  <2>1. PICK j \in Job, x \in Slot : LandLate(j, x)
        BY <1>4
  <2>2. late[j][x] > 0 /\ index' = Written(j, x)
        BY <2>1 DEF LandLate
  <2>3. x = "upsert" => j = "ingest" /\ draft # None
        BY <2>2 DEF Rows, writes, Job
  <2> QED BY <1>2, <2>2, <2>3
<1>5. CASE \E w \in Process : Lands(w)
  <2>1. PICK w \in Process : Lands(w)
        BY <1>5
  <2>2. process[w].job \in Job /\ process[w].slot \in Slot
        BY DEF Typed, ProcessRow
  <2>3. process[w].slot = "upsert" => process[w].job = "ingest" /\ draft # None
        BY DEF Steps, Stepped
  <2> QED BY <1>2, <2>1, <2>2, <2>3 DEF Lands
<1>6. CASE Rests \/ \E w \in Process : Moves(w) /\ ~Lands(w)
      BY <1>3, <1>6 DEF Rests, Moves, Same, Yields, Begins, Stages, Reads, Ensures, Fetches,
         Verifies, Marks, Prepares, Starts, GivesUp, Reports, Cleans
<1> QED BY <1>4, <1>5, <1>6, StepForm

LEMMA LateTyped ==
    ASSUME Typed, Rows, [Next]_vars
    PROVE  /\ late' \in [Job -> [Slot -> Nat]]
           /\ \A j \in Job, x \in Slot : late'[j][x] <= faults'
<1>1. /\ late \in [Job -> [Slot -> Nat]] /\ faults \in Nat
      /\ \A j \in Job, x \in Slot : late[j][x] <= faults
      BY DEF Typed
<1>2. faults' \in Nat /\ faults <= faults'
      BY FaultsStep
<1>3. CASE UNCHANGED late
      BY <1>1, <1>2, <1>3
<1>4. CASE \E j \in Job, x \in Slot : LandLate(j, x)
  <2>1. PICK j \in Job, x \in Slot : late[j][x] > 0 /\ late' = [late EXCEPT ![j][x] = @ - 1]
        BY <1>4 DEF LandLate
  <2>2. late[j][x] - 1 \in Nat
        BY <1>1, <2>1
  <2> QED BY <1>1, <1>2, <2>1, <2>2
<1>5. CASE \E w \in Process : GivesUp(w)
  <2>1. PICK w \in Process : GivesUp(w)
        BY <1>5
  <2> DEFINE j == process[w].job
             x == process[w].slot
  <2>2. j \in Job /\ x \in Slot
        BY DEF Typed, ProcessRow
  <2>3. late' = [late EXCEPT ![j][x] = @ + 1] /\ faults' = faults + 1
        BY <2>1 DEF GivesUp
  <2> HIDE DEF j, x
  <2> QED BY <1>1, <1>2, <2>2, <2>3
<1>6. CASE Rests \/ \E w \in Process : Moves(w) /\ ~GivesUp(w)
      BY <1>3, <1>6 DEF Rests, Moves, Same, Yields, Begins, Stages, Reads, Ensures, Fetches,
         Verifies, Marks, Prepares, Starts, Lands, Reports, Cleans
<1> QED BY <1>4, <1>5, <1>6, StepForm

LEMMA TypedStep ==
    ASSUME Typed, Rows, Steps, [Next]_vars
    PROVE  Typed'
<1>1. JobsTyped'
      BY JobSteps DEF JobStep
<1> QED BY <1>1, FaultsStep, HistoryStep, LedgerTyped, IndexTyped, LateTyped
        DEF Typed, JobsTyped

-----------------------------------------------------------------------------
(* Where the processes are. *)

\* An operation that was prepared stays in the ledger.
LEMMA PreparedKept ==
    ASSUME Typed, Rows, Steps, [Next]_vars, NEW j \in Job, NEW x \in Slot, op[j][x] # "none"
    PROVE  op'[j][x] # "none"
<1>1. CASE UNCHANGED op
      BY <1>1
<1>2. ASSUME NEW w \in Process, NEW s \in OpState, Records(w, s), s # "none"
      PROVE  op'[j][x] # "none"
      BY <1>2, RecordsTyped
<1>3. CASE \E w \in Process : Prepares(w)
  <2>1. PICK w \in Process : Prepares(w)
        BY <1>3
  <2>2. op[process[w].job][process[w].slot] \in OpState
        BY DEF Typed, ProcessRow
  <2> QED BY <1>2, <2>1, <2>2 DEF Prepares, OpState
<1>4. CASE \E w \in Process : Starts(w)
      BY <1>1, <1>2, <1>4 DEF Starts, OpState
<1>5. CASE \E w \in Process : Reports(w)
  <2>1. PICK w \in Process : Reports(w)
        BY <1>5
  <2>2. process[w].seen \in OpState /\ process[w].seen # "none"
        BY <2>1 DEF Reports, Steps, Stepped, OpState
  <2> QED BY <1>2, <2>1, <2>2 DEF Reports
<1>6. CASE \E w \in Process : Cleans(w)
      BY <1>6 DEF Cleans, Typed
<1>7. CASE Rests \/ \E i \in Job, y \in Slot : LandLate(i, y)
      BY <1>1, <1>7 DEF Rests, Same, LandLate
<1>8. CASE \E w \in Process : /\ Moves(w)
                              /\ ~Prepares(w) /\ ~Starts(w) /\ ~Reports(w) /\ ~Cleans(w)
      BY <1>1, <1>8 DEF Moves, Same, Yields, Begins, Stages, Reads, Ensures, Fetches,
         Verifies, Marks, Lands, GivesUp
<1> QED BY <1>3, <1>4, <1>5, <1>6, <1>7, <1>8, StepForm

\* Nobody marks the points of a lease as removed but its holder.
LEMMA UnmarkedKept ==
    ASSUME Typed, Rows, Steps, [Next]_vars, NEW w \in Process, Held(w)',
           process'[w].job = process[w].job, process[w].job = "ingest",
           process[w].at \in Calls, process[w].slot # "upsert", process'[w].at # "stage"
    PROVE  ~removed'
<1>1. Held(w)
  <2>1. process[w].at # "idle"
        BY DEF Calls, Tickets
  <2> QED BY <2>1, JobSteps DEF JobStep, HeldBefore
<1>2. ~removed
      BY <1>1 DEF Steps, Stepped
<1>3. ASSUME NEW v \in Process, Held(v), process[v].job = "ingest"
      PROVE  v = w
      BY <1>1, <1>3, HolderOnly
<1> QED BY <1>2, <1>3, JobSteps DEF JobStep, MarkedBy

LEMMA SteppedKept ==
    ASSUME Typed, Rows, Steps, [Next]_vars, NEW w \in Process,
           process'[w].at = process[w].at, process'[w].job = process[w].job,
           process'[w].slot = process[w].slot, process'[w].seen = process[w].seen
    PROVE  Stepped(w)'
<1>1. Stepped(w) /\ process[w].job \in Job /\ process[w].slot \in Slot
      BY DEF Steps, Typed, ProcessRow
<1>2. Onward
      BY JobSteps DEF JobStep
<1>3. process[w].at \in Tickets => op'[process[w].job][process[w].slot] # "none"
      BY <1>1, PreparedKept DEF Stepped
<1>4. /\ Held(w)' /\ process[w].job = "ingest" /\ process[w].slot # "upsert"
      /\ process[w].at \in Calls
      => ~removed'
  <2>1. process[w].at \in Calls => process'[w].at # "stage"
        BY DEF Calls, Tickets
  <2> QED BY <2>1, UnmarkedKept
<1> QED BY <1>1, <1>2, <1>3, <1>4 DEF Stepped, Onward

\* A move from one call of a job to the next, or to its publication.
LEMMA SteppedOn ==
    ASSUME Typed, Rows, Steps, [Next]_vars, NEW w \in Process,
           process[w].at \in Calls, process'[w].at \in Calls \cup {"publish"},
           process'[w].job = process[w].job,
           process'[w].slot = "upsert" <=> process[w].slot = "upsert",
           process'[w].at \in Tickets => op'[process'[w].job][process'[w].slot] # "none",
           process'[w].at = "ensure" => process'[w].slot = "upsert" /\ process'[w].seen # "none",
           process'[w].at \in {"fetch", "removed"} => process'[w].slot # "upsert",
           process'[w].at = "report" => process'[w].seen \in {"failed", "unknown", "succeeded"}
    PROVE  Stepped(w)'
<1>1. Stepped(w) /\ Onward
      BY JobSteps DEF JobStep, Steps
<1>2. process'[w].at \notin {"stage", "cleanup"}
      BY DEF Calls, Tickets
<1>3. /\ Held(w)' /\ process[w].job = "ingest" /\ process[w].slot # "upsert"
      => ~removed'
      BY <1>2, UnmarkedKept
<1> QED BY <1>1, <1>2, <1>3 DEF Stepped, Onward

LEMMA SteppedOwn ==
    ASSUME Typed, Rows, Steps, [Next]_vars, NEW w \in Process, Moves(w)
    PROVE  Stepped(w)'
<1> DEFINE p == process[w]
           q == process'[w]
<1>1. /\ p.job \in Job /\ p.slot \in Slot /\ p.at \in At /\ p.seen \in OpState
      /\ Stepped(w) /\ Onward
      BY JobSteps DEF JobStep, Steps, Typed, ProcessRow
<1>2. op[p.job][p.slot] # "none" => op'[p.job][p.slot] # "none"
      BY <1>1, PreparedKept
<1>3. CASE Yields(w)
      BY <1>1, <1>3 DEF Yields, Turned, Stepped, Onward, Tickets, Calls
<1>4. CASE Begins(w)
  <2>1. PICK j \in Job : Turned(w, Beginning(j), j, "remove", "none")
        BY <1>4 DEF Begins
  <2>2. removed' => removed
    <3>1. process[w].at = "idle" /\ \A v \in Process : v # w => process'[v] = process[v]
          BY <1>4, <2>1 DEF Begins, Turned
    <3> QED BY <3>1, JobSteps DEF JobStep, MarkedBy
  <2>3. /\ Beginning(j) \in {"stage", "cleanup", "prepare"}
        /\ Beginning(j) = "stage" => j = "ingest" /\ removed
        /\ Beginning(j) = "cleanup" => j = "delete_document"
        /\ Beginning(j) = "prepare" =>
              /\ j = "delete_document" => cleanup.stage = "removing_index"
              /\ j = "ingest" => ~removed
        BY DEF Beginning, Job, removed, cleanup
  <2> QED BY <1>1, <2>1, <2>2, <2>3 DEF Turned, Stepped, Onward, Tickets, Calls
<1>5. CASE Stages(w)
      BY <1>1, <1>5 DEF Stages, Turned, Stepped, Onward, Tickets, Calls
<1>6. CASE Marks(w)
      BY <1>1, <1>6 DEF Marks, Turned, Stepped, Onward, Tickets, Calls
<1>7. CASE Cleans(w)
      BY <1>1, <1>7 DEF Cleans, Turned, Stepped, Tickets, Calls
<1>8. CASE Reads(w)
  <2>1. /\ p.at \in Tickets \cap Calls /\ q.at = "report" /\ "report" \in Calls
        /\ q.job = p.job /\ q.slot = p.slot /\ q.seen \in {"failed", "unknown"}
        BY <1>8 DEF Reads, Turned, Tickets, Calls
  <2> QED BY <1>1, <1>2, <2>1, SteppedOn DEF Stepped
<1>9. CASE Ensures(w)
  <2>1. /\ p.at \in Tickets \cap Calls /\ q.at \in {"publish", "retryable", "start", "report"}
        /\ q.job = p.job /\ q.slot = p.slot
        /\ q.at = "report" => q.seen = "succeeded"
        BY <1>9 DEF Ensures, Turned, Tickets, Calls
  <2>2. CASE q.at = "retryable"
        BY <1>1, <2>1, <2>2 DEF Stepped, Onward, Tickets, Calls
  <2>3. CASE q.at # "retryable"
    <3>1. q.at \in Calls \cup {"publish"}
          BY <2>1, <2>3 DEF Calls, Tickets
    <3> QED BY <1>1, <1>2, <2>1, <3>1, SteppedOn DEF Stepped
  <2> QED BY <2>2, <2>3
<1>10. CASE Fetches(w)
  <2>1. /\ p.at \in Calls /\ p.at = "fetch" /\ q.at \in {"removed", "prepare"} /\ q.at \in Calls
        /\ q.at \notin Tickets
        /\ q.job = p.job /\ q.slot \in {p.slot, "after"} /\ p.slot # "upsert"
        BY <1>1, <1>10 DEF Fetches, Turned, Tickets, Calls, Stepped
  <2> QED BY <1>1, <2>1, SteppedOn
<1>11. CASE Verifies(w)
  <2>1. /\ p.at \in Tickets \cap Calls /\ q.at = "report" /\ "report" \in Calls
        /\ q.job = p.job /\ q.slot = p.slot /\ q.seen \in {"succeeded", "unknown"}
        BY <1>11 DEF Verifies, Turned, Tickets, Calls
  <2> QED BY <1>1, <1>2, <2>1, SteppedOn DEF Stepped
<1>12. CASE Prepares(w)
  <2>1. /\ p.at \in Calls /\ q.at \in Calls /\ q.at \in {"ensure", "fetch", "start"}
        /\ q.job = p.job /\ q.slot = p.slot
        BY <1>12 DEF Prepares, Turned, Tickets, Calls
  <2>2. PICK s \in OpState : s # "none" /\ Records(w, s) /\ q.seen = s
    <3>1. op[p.job][p.slot] \in OpState
          BY <1>1 DEF Typed
    <3> QED BY <1>12, <3>1 DEF Prepares, Turned, OpState
  <2>3. op'[p.job][p.slot] # "none"
        BY <2>2, RecordsTyped
  <2>4. q.at = "fetch" => p.slot # "upsert"
        BY <1>12 DEF Prepares, Turned
  <2>5. q.at = "ensure" => p.slot = "upsert"
        BY <1>12 DEF Prepares, Turned
  <2>6. q.at \notin {"removed", "report"}
        BY <2>1
  <2> HIDE DEF p, q
  <2> QED BY <2>1, <2>2, <2>3, <2>4, <2>5, <2>6, SteppedOn DEF p, q
<1>13. CASE Starts(w)
  <2>1. /\ p.at \in Tickets \cap Calls /\ q.at = "calling" /\ "calling" \in Calls
        /\ q.job = p.job /\ q.slot = p.slot
        BY <1>13 DEF Starts, Turned, Tickets, Calls
  <2> QED BY <1>1, <1>2, <2>1, SteppedOn DEF Stepped
<1>14. CASE Lands(w)
  <2>1. /\ p.at \in Tickets \cap Calls /\ q.at = "verify" /\ "verify" \in Calls
        /\ q.job = p.job /\ q.slot = p.slot
        BY <1>14 DEF Lands, Turned, Tickets, Calls
  <2> QED BY <1>1, <1>2, <2>1, SteppedOn DEF Stepped
<1>15. CASE GivesUp(w)
  <2>1. /\ p.at \in Tickets \cap Calls /\ q.at \in {"report", "dead"}
        /\ q.job = p.job /\ q.slot = p.slot
        /\ q.at = "report" => q.seen = "unknown"
        BY <1>15 DEF GivesUp, Turned, Tickets, Calls
  <2>2. CASE q.at = "dead"
        BY <1>1, <2>1, <2>2 DEF Stepped, Onward, Tickets, Calls
  <2>3. CASE q.at = "report"
    <3>1. q.at \in Calls
          BY <2>3 DEF Calls, Tickets
    <3> QED BY <1>1, <1>2, <2>1, <2>3, <3>1, SteppedOn DEF Stepped
  <2> QED BY <2>1, <2>2, <2>3
<1>16. CASE Reports(w)
  <2>1. /\ p.at \in Tickets \cap Calls /\ q.at \in {"retryable", "publish", "removed"}
        /\ q.job = p.job /\ q.slot = p.slot
        /\ q.at = "removed" => q.slot # "upsert"
        BY <1>16 DEF Reports, Turned, Tickets, Calls
  <2>2. CASE q.at = "retryable"
        BY <1>1, <2>1, <2>2 DEF Stepped, Onward, Tickets, Calls
  <2>3. CASE q.at # "retryable"
    <3>1. q.at \in Calls \cup {"publish"} /\ q.at \notin Tickets
          BY <2>1, <2>3 DEF Calls, Tickets
    <3> QED BY <1>1, <2>1, <3>1, SteppedOn
  <2> QED BY <2>2, <2>3
<1> QED BY <1>3, <1>4, <1>5, <1>6, <1>7, <1>8, <1>9, <1>10, <1>11, <1>12, <1>13, <1>14,
        <1>15, <1>16 DEF Moves

LEMMA StepsStep ==
    ASSUME Typed, Rows, Steps, [Next]_vars
    PROVE  Steps'
<1>1. CASE Rests
      BY <1>1, SteppedKept DEF Rests, Steps
<1>2. CASE \E j \in Job, x \in Slot : LandLate(j, x)
      BY <1>2, SteppedKept DEF LandLate, Steps
<1>3. CASE \E w \in Process : Moves(w)
  <2>1. PICK w \in Process : Moves(w)
        BY <1>3
  <2>2. \A v \in Process : v # w => process'[v] = process[v]
        BY <2>1, OthersStay
  <2> QED BY <2>1, <2>2, SteppedKept, SteppedOwn DEF Steps
<1> QED BY <1>1, <1>2, <1>3, StepForm

-----------------------------------------------------------------------------
(* What a step is to the write of the replacement. *)

(* Nobody comes to send it or to have seen it.                               *)
NoneJoins ==
    \A v \in Process : /\ Sending(v)' => Sending(v)
                       /\ Past(v)' => Past(v)
                       /\ Prepared(v)' => Prepared(v)

Quiet ==
    /\ upsert' = upsert /\ writes' = writes /\ index' \subseteq index
    /\ \A v \in Process :
          /\ Sending(v)' => Sending(v)
          /\ Past(v)' => Past(v) \/ (draft \in index /\ process[v].slot = "upsert")
          /\ Prepared(v)' => Prepared(v) \/ upsert \in {"pending", "failed"}

WritePrepared ==
    /\ upsert = "none" /\ upsert' = "pending" /\ UNCHANGED <<index, writes>>
    /\ removed /\ draft # None /\ cleanup.state = "none"
    /\ \A v \in Process : (Sending(v)' => Sending(v)) /\ (Past(v)' => Past(v))

WriteSent(w) ==
    /\ Held(w) /\ process[w].slot = "upsert" /\ process[w].at = "start"
    /\ \/ upsert = "succeeded" /\ upsert' = upsert
       \/ upsert \in {"pending", "failed"} /\ upsert' = "in_flight"
    /\ UNCHANGED <<index, writes>>
    /\ \A v \in Process : /\ Sending(v)' => Sending(v) \/ v = w
                          /\ Past(v)' => Past(v)
                          /\ Prepared(v)' => Prepared(v) /\ v # w

WriteLands(w) ==
    /\ Sending(w) /\ ~Sending(w)'
    /\ UNCHANGED <<upsert, writes>> /\ index' = index \cup {draft}
    /\ \A v \in Process : /\ Sending(v)' => Sending(v)
                          /\ Prepared(v)' => Prepared(v)

WriteLost(w) ==
    /\ Sending(w) /\ ~Sending(w)'
    /\ UNCHANGED <<upsert, index>> /\ writes' = writes + 1
    /\ NoneJoins

WriteLandsLate ==
    /\ writes > 0 /\ writes' = writes - 1
    /\ UNCHANGED upsert /\ index' = index \cup {draft}
    /\ NoneJoins

WriteReported(w) ==
    /\ process[w].slot = "upsert" /\ process[w].at = "report"
    /\ upsert' = process[w].seen /\ Reportable(upsert, process[w].seen)
    /\ upsert \in Unresolved /\ process[w].seen = "failed" => misreported'
    /\ UNCHANGED <<index, writes>>
    /\ NoneJoins

WriteDropped ==
    /\ upsert \notin Unresolved
    /\ upsert' = IF upsert = "pending" THEN "failed" ELSE upsert
    /\ cleanup.state # "none"
    /\ UNCHANGED <<index, writes>>
    /\ NoneJoins

WriteStep ==
    \/ Quiet \/ WritePrepared \/ WriteLandsLate \/ WriteDropped
    \/ \E w \in Process : WriteSent(w) \/ WriteLands(w) \/ WriteLost(w) \/ WriteReported(w)

LEMMA StayQuiet ==
    ASSUME HeldBefore, NEW v \in Process,
           process'[v].at = process[v].at, process'[v].job = process[v].job,
           process'[v].slot = process[v].slot, process'[v].seen = process[v].seen
    PROVE  /\ Sending(v)' <=> Sending(v)
           /\ Past(v)' <=> Past(v)
           /\ Prepared(v)' => Prepared(v)
<1>1. (Sending(v)' <=> Sending(v)) /\ (Past(v)' <=> Past(v))
      BY DEF Sending, Past, Told
<1>2. Prepared(v)' => Prepared(v)
  <2> SUFFICES ASSUME Prepared(v)' PROVE Prepared(v)
      OBVIOUS
  <2>1. Held(v)' /\ process[v].at # "idle"
        BY DEF Prepared
  <2> QED BY <2>1 DEF Prepared, HeldBefore
<1> QED BY <1>1, <1>2

\* Moves that leave the ledger and the index.
LEMMA QuietMoves ==
    ASSUME Typed, Rows, Steps, HeldBefore, NEW w \in Process,
           \/ Yields(w) \/ Begins(w) \/ Stages(w) \/ Reads(w) \/ Ensures(w) \/ Fetches(w)
           \/ Verifies(w) \/ Marks(w)
    PROVE  Quiet
<1>1. Same
      BY DEF Yields, Begins, Stages, Reads, Ensures, Fetches, Verifies, Marks
<1>2. \A v \in Process : v # w => process'[v] = process[v]
      BY DEF Yields, Begins, Stages, Reads, Ensures, Fetches, Verifies, Marks, Turned
<1>3. upsert' = upsert /\ writes' = writes /\ index' = index
      BY <1>1 DEF Same, upsert, writes
<1>4. Sending(w)' => Sending(w)
      BY DEF Yields, Begins, Beginning, Stages, Reads, Ensures, Fetches, Verifies, Marks,
         Turned, Sending
<1>5. Past(w)' => Past(w) \/ (draft \in index /\ process[w].slot = "upsert")
  <2>1. CASE Ensures(w)
        BY <2>1 DEF Ensures, Turned, Past, Told, Verified, Points, Steps, Stepped, draft
  <2>2. CASE ~Ensures(w)
        BY <2>2 DEF Yields, Begins, Beginning, Stages, Reads, Fetches, Verifies, Marks,
           Turned, Past, Told
  <2> QED BY <2>1, <2>2
<1>6. Prepared(w)' => Prepared(w)
  <2>1. CASE Ensures(w)
    <3> SUFFICES ASSUME Prepared(w)' PROVE Prepared(w)
        OBVIOUS
    <3>1. Held(w)' /\ process'[w].at \in {"start", "ensure"} /\ process'[w].slot = "upsert"
          BY DEF Prepared
    <3>2. /\ process[w].at = "ensure" /\ process[w].slot = "upsert"
          /\ process'[w].job = process[w].job
          /\ process[w].seen \notin {"none", "succeeded", "in_flight", "unknown"}
          BY <2>1, <3>1 DEF Ensures, Turned, Steps, Stepped
    <3>3. process[w].seen \in {"pending", "failed"}
          BY <3>2 DEF Typed, ProcessRow, OpState
    <3>4. Held(w)
          BY <3>1, <3>2 DEF HeldBefore
    <3> QED BY <3>2, <3>3, <3>4 DEF Prepared
  <2>2. CASE ~Ensures(w)
        BY <2>2 DEF Yields, Begins, Beginning, Stages, Reads, Fetches, Verifies, Marks,
           Turned, Prepared
  <2> QED BY <2>1, <2>2
<1> QED BY <1>2, <1>3, <1>4, <1>5, <1>6, StayQuiet DEF Quiet

\* A step on another slot of the ledger.
LEMMA OtherSlot ==
    ASSUME Typed, NEW w \in Process, process[w].slot # "upsert",
           \/ UNCHANGED op
           \/ \E s \in OpState : Records(w, s)
    PROVE  upsert' = upsert
BY RecordsTyped DEF upsert, Job, Slot

LEMMA UpsertJob ==
    ASSUME Typed, Steps, NEW w \in Process, process[w].slot = "upsert"
    PROVE  process[w].job = "ingest" /\ removed /\ draft # None
BY DEF Steps, Stepped

LEMMA PreparesShape ==
    ASSUME Typed, Rows, Steps, HeldBefore, NEW w \in Process, Prepares(w)
    PROVE  WriteStep
<1> DEFINE p == process[w]
           q == process'[w]
<1>1. /\ \A v \in Process : v # w => process'[v] = process[v]
      /\ writes' = writes /\ index' = index /\ Held(w)
      /\ q.at \in {"ensure", "fetch", "start"} /\ q.slot = p.slot
      /\ q.at = "ensure" <=> p.slot = "upsert"
      BY DEF Prepares, Turned, writes
<1>2. PICK s \in OpState :
         /\ s = IF op[p.job][p.slot] = "none" THEN "pending" ELSE op[p.job][p.slot]
         /\ Records(w, s) /\ q.seen = s
  <2>1. op[p.job][p.slot] \in OpState
        BY DEF Typed, ProcessRow
  <2> QED BY <2>1 DEF Prepares, Turned, OpState
<1>3. ~Sending(w)' /\ ~Past(w)'
      BY <1>1 DEF Sending, Past, Told
<1>4. CASE p.slot # "upsert"
  <2>1. upsert' = upsert
        BY <1>2, <1>4, OtherSlot
  <2>2. ~Prepared(w)'
        BY <1>1, <1>4 DEF Prepared
  <2> QED BY <1>1, <1>3, <2>1, <2>2, StayQuiet DEF Quiet, WriteStep
<1>5. CASE p.slot = "upsert"
  <2>1. p.job = "ingest" /\ removed /\ draft # None
        BY <1>5, UpsertJob
  <2>2. /\ upsert' = s /\ s = IF upsert = "none" THEN "pending" ELSE upsert
        BY <1>2, <1>5, <2>1, RecordsTyped DEF upsert
  <2>3. cleanup.state = "none"
        BY <1>1, <2>1 DEF Held, Fenced, cleanup
  <2>4. CASE upsert = "none"
        BY <1>1, <1>3, <2>1, <2>2, <2>3, <2>4, StayQuiet DEF WritePrepared, WriteStep
  <2>5. CASE upsert # "none"
    <3>1. Prepared(w)' => upsert \in {"pending", "failed"}
          BY <1>1, <1>2, <1>5, <2>2, <2>5 DEF Prepared
    <3> QED BY <1>1, <1>3, <2>2, <2>5, <3>1, StayQuiet DEF Quiet, WriteStep
  <2> QED BY <2>4, <2>5
<1> QED BY <1>4, <1>5

LEMMA StartsShape ==
    ASSUME Typed, Rows, Steps, HeldBefore, NEW w \in Process, Starts(w)
    PROVE  WriteStep
<1> DEFINE p == process[w]
           q == process'[w]
<1>1. /\ \A v \in Process : v # w => process'[v] = process[v]
      /\ writes' = writes /\ index' = index /\ Held(w) /\ p.at = "start"
      /\ q.at = "calling" /\ q.slot = p.slot
      BY DEF Starts, Turned, writes
<1>2. ~Past(w)' /\ ~Prepared(w)'
      BY <1>1 DEF Prepared, Past, Told
<1>3. CASE p.slot # "upsert"
  <2>1. upsert' = upsert
        BY <1>3, OtherSlot DEF Starts, OpState
  <2>2. ~Sending(w)'
        BY <1>1, <1>3 DEF Sending
  <2> QED BY <1>1, <1>2, <2>1, <2>2, StayQuiet DEF Quiet, WriteStep
<1>4. CASE p.slot = "upsert"
  <2>1. p.job = "ingest"
        BY <1>4, UpsertJob
  <2>2. \/ upsert = "succeeded" /\ upsert' = upsert
        \/ upsert \in {"pending", "failed"} /\ upsert' = "in_flight"
    <3>1. CASE op[p.job][p.slot] = "succeeded" /\ UNCHANGED op
          BY <1>4, <2>1, <3>1 DEF upsert
    <3>2. CASE MayStart(p.slot, op[p.job][p.slot]) /\ Records(w, "in_flight")
          BY <1>4, <2>1, <3>2, RecordsTyped DEF upsert, MayStart, OpState
    <3> QED BY <3>1, <3>2 DEF Starts
  <2>3. WriteSent(w)
        BY <1>1, <1>2, <1>4, <2>2, StayQuiet DEF WriteSent
  <2> QED BY <2>3 DEF WriteStep
<1> QED BY <1>3, <1>4

LEMMA LandsShape ==
    ASSUME Typed, Rows, Steps, HeldBefore, NEW w \in Process, Lands(w)
    PROVE  WriteStep
<1> DEFINE p == process[w]
           q == process'[w]
<1>1. /\ \A v \in Process : v # w => process'[v] = process[v]
      /\ writes' = writes /\ upsert' = upsert /\ p.at = "calling"
      /\ index' = Written(p.job, p.slot)
      /\ q.at = "verify" /\ q.slot = p.slot
      BY DEF Lands, Turned, writes, upsert
<1>2. ~Sending(w)' /\ ~Prepared(w)'
      BY <1>1 DEF Prepared, Sending
<1>3. CASE p.slot # "upsert"
  <2>1. index' \subseteq index
        BY <1>1, <1>3 DEF Written
  <2>2. ~Past(w)'
        BY <1>1, <1>3 DEF Past, Told
  <2> QED BY <1>1, <1>2, <2>1, <2>2, StayQuiet DEF Quiet, WriteStep
<1>4. CASE p.slot = "upsert"
  <2>1. p.job = "ingest"
        BY <1>4, UpsertJob
  <2>2. index' = index \cup {draft} /\ Sending(w)
        BY <1>1, <1>4, <2>1 DEF Written, Points, draft, Sending
  <2>3. WriteLands(w)
        BY <1>1, <1>2, <2>2, StayQuiet DEF WriteLands
  <2> QED BY <2>3 DEF WriteStep
<1> QED BY <1>3, <1>4

LEMMA GivesUpShape ==
    ASSUME Typed, Rows, Steps, HeldBefore, NEW w \in Process, GivesUp(w)
    PROVE  WriteStep
<1> DEFINE p == process[w]
           q == process'[w]
<1>1. /\ \A v \in Process : v # w => process'[v] = process[v]
      /\ upsert' = upsert /\ index' = index /\ p.at = "calling"
      /\ late' = [late EXCEPT ![p.job][p.slot] = @ + 1]
      /\ (q.at = "report" /\ q.seen = "unknown") \/ q.at = "dead"
      BY DEF GivesUp, Turned, upsert
<1>2. ~Sending(w)' /\ ~Prepared(w)' /\ ~Past(w)'
      BY <1>1 DEF Prepared, Sending, Past, Told
<1>3. p.job \in Job /\ p.slot \in Slot /\ late \in [Job -> [Slot -> Nat]]
      BY DEF Typed, ProcessRow
<1>4. CASE p.slot # "upsert"
  <2>1. writes' = writes
        BY <1>1, <1>3, <1>4 DEF writes, Job, Slot
  <2> QED BY <1>1, <1>2, <2>1, StayQuiet DEF Quiet, WriteStep
<1>5. CASE p.slot = "upsert"
  <2>1. p.job = "ingest"
        BY <1>5, UpsertJob
  <2>2. writes' = writes + 1 /\ Sending(w)
        BY <1>1, <1>3, <1>5, <2>1 DEF writes, Job, Slot, Sending
  <2>3. WriteLost(w)
        BY <1>1, <1>2, <2>2, StayQuiet DEF WriteLost, NoneJoins
  <2> QED BY <2>3 DEF WriteStep
<1> QED BY <1>4, <1>5

LEMMA ReportsShape ==
    ASSUME Typed, Rows, Steps, HeldBefore, NEW w \in Process, Reports(w)
    PROVE  WriteStep
<1> DEFINE p == process[w]
           q == process'[w]
<1>1. /\ \A v \in Process : v # w => process'[v] = process[v]
      /\ writes' = writes /\ index' = index /\ p.at = "report"
      /\ q.at \in {"retryable", "publish", "removed"}
      BY DEF Reports, Turned, writes
<1>2. ~Sending(w)' /\ ~Prepared(w)' /\ ~Past(w)'
      BY <1>1 DEF Prepared, Sending, Past, Told
<1>3. Records(w, p.seen) /\ p.seen \in OpState
      BY DEF Reports, Typed, ProcessRow
<1>4. CASE p.slot # "upsert"
  <2>1. upsert' = upsert
        BY <1>3, <1>4, OtherSlot
  <2> QED BY <1>1, <1>2, <2>1, StayQuiet DEF Quiet, WriteStep
<1>5. CASE p.slot = "upsert"
  <2>1. p.job = "ingest"
        BY <1>5, UpsertJob
  <2>2. upsert' = p.seen
        BY <1>3, <1>5, <2>1, RecordsTyped DEF upsert
  <2>3. /\ Reportable(upsert, p.seen)
        /\ upsert \in Unresolved /\ p.seen = "failed" => misreported'
        BY <1>5, <2>1 DEF Reports, upsert
  <2>4. WriteReported(w)
        BY <1>1, <1>2, <1>5, <2>2, <2>3, StayQuiet DEF WriteReported, NoneJoins
  <2> QED BY <2>4 DEF WriteStep
<1> QED BY <1>4, <1>5

LEMMA CleansShape ==
    ASSUME Typed, Rows, Steps, HeldBefore, NEW w \in Process, Cleans(w)
    PROVE  WriteStep
<1>1. /\ \A v \in Process : v # w => process'[v] = process[v]
      /\ writes' = writes /\ index' = index /\ Held(w)
      /\ process[w].at = "cleanup" /\ process'[w].at = "prepare"
      BY DEF Cleans, Turned, writes
<1>2. ~Sending(w)' /\ ~Prepared(w)' /\ ~Past(w)'
      BY <1>1 DEF Prepared, Sending, Past, Told
<1>3. /\ upsert \notin Unresolved
      /\ upsert' = IF upsert = "pending" THEN "failed" ELSE upsert
      BY DEF Cleans, upsert, Slot, Typed, Job
<1>4. cleanup.state # "none"
      BY <1>1 DEF Steps, Stepped, Held, cleanup
<1>5. WriteDropped
      BY <1>1, <1>2, <1>3, <1>4, StayQuiet DEF WriteDropped, NoneJoins
<1> QED BY <1>5 DEF WriteStep

LEMMA LandLateShape ==
    ASSUME Typed, Rows, Steps, HeldBefore, NEW j \in Job, NEW x \in Slot, LandLate(j, x)
    PROVE  WriteStep
<1>1. /\ process' = process /\ upsert' = upsert
      /\ late[j][x] > 0 /\ late' = [late EXCEPT ![j][x] = @ - 1]
      /\ index' = Written(j, x) /\ late \in [Job -> [Slot -> Nat]]
      BY DEF LandLate, upsert, Typed
<1>2. CASE x # "upsert"
  <2>1. index' \subseteq index /\ writes' = writes
        BY <1>1, <1>2 DEF Written, writes, Job, Slot
  <2> QED BY <1>1, <2>1, StayQuiet DEF Quiet, WriteStep
<1>3. CASE x = "upsert"
  <2>1. j = "ingest"
        BY <1>1, <1>3 DEF Rows, Job
  <2>2. index' = index \cup {draft} /\ writes > 0 /\ writes' = writes - 1
        BY <1>1, <1>3, <2>1 DEF Written, Points, draft, writes, Job, Slot
  <2>3. WriteLandsLate
        BY <1>1, <2>2, StayQuiet DEF WriteLandsLate, NoneJoins
  <2> QED BY <2>3 DEF WriteStep
<1> QED BY <1>2, <1>3

LEMMA WriteSteps ==
    ASSUME Typed, Rows, Steps, [Next]_vars
    PROVE  WriteStep
<1>1. HeldBefore
      BY JobSteps DEF JobStep
<1>2. CASE Rests
  <2>1. upsert' = upsert /\ writes' = writes /\ index' = index
        BY <1>2 DEF Rests, Same, upsert, writes
  <2> QED BY <1>1, <1>2, <2>1, StayQuiet DEF Rests, Quiet, WriteStep
<1>3. CASE \E j \in Job, x \in Slot : LandLate(j, x)
      BY <1>1, <1>3, LandLateShape
<1>4. CASE \E w \in Process : Moves(w)
      BY <1>1, <1>4, QuietMoves, PreparesShape, StartsShape, LandsShape, GivesUpShape,
         ReportsShape, CleansShape DEF Moves, WriteStep
<1> QED BY <1>2, <1>3, <1>4, StepForm

-----------------------------------------------------------------------------
(* The rows. *)

LEMMA PendingOnce ==
    ASSUME Typed, Rows, Steps, NEW w \in Process
    PROVE  /\ Sending(w) \/ Past(w) => upsert # "none" /\ removed /\ draft # None
           /\ process[w].slot = "upsert" /\ process[w].at \in Tickets => upsert # "none"
<1>1. Stepped(w)
      BY DEF Steps
<1>2. process[w].slot = "upsert" /\ process[w].at \in Tickets => upsert # "none"
      BY <1>1 DEF Stepped, upsert
<1>3. Sending(w) \/ Past(w) => process[w].slot = "upsert" /\ process[w].at \in Tickets
      BY DEF Sending, Past, Told, Tickets
<1> QED BY <1>1, <1>2, <1>3 DEF Stepped

\* The deletion upserts nothing, and works in the index only once it is clean.
LEMMA DeletionStep ==
    ASSUME Typed, Rows, Steps, [Next]_vars
    PROVE  /\ op'["delete_document"]["upsert"] = "none"
           /\ late'["delete_document"]["upsert"] = 0
           /\ \A x \in Slot :
                 op'["delete_document"][x] # "none" => cleanup'.stage = "removing_index"
<1> DEFINE d == "delete_document"
<1>1. /\ op[d]["upsert"] = "none" /\ late[d]["upsert"] = 0
      /\ \A x \in Slot : op[d][x] # "none" => cleanup.stage = "removing_index"
      /\ cleanup.stage = "removing_index" => cleanup'.stage = "removing_index"
      BY JobSteps DEF JobStep, Onward, Rows
<1>2. /\ op \in [Job -> [Slot -> OpState]] /\ late \in [Job -> [Slot -> Nat]]
      /\ d \in Job /\ "upsert" \in Slot
      BY DEF Typed, Job, Slot
<1>3. ASSUME NEW w \in Process, NEW s \in OpState, Records(w, s), process[w].at \in Calls,
             UNCHANGED late
      PROVE  /\ op'[d]["upsert"] = "none" /\ late'[d]["upsert"] = 0
             /\ \A x \in Slot : op'[d][x] # "none" => cleanup'.stage = "removing_index"
  <2>1. /\ process[w].slot = "upsert" => process[w].job # d
        /\ process[w].job = d => cleanup.stage = "removing_index"
        BY <1>3 DEF Steps, Stepped
  <2> QED BY <1>1, <1>2, <1>3, <2>1, RecordsTyped
<1>4. CASE UNCHANGED <<op, late>>
      BY <1>1, <1>4
<1>5. CASE \E w \in Process : Prepares(w)
  <2>1. PICK w \in Process : Prepares(w)
        BY <1>5
  <2>2. op[process[w].job][process[w].slot] \in OpState /\ process[w].at \in Calls
        BY <2>1 DEF Typed, ProcessRow, Prepares, Calls
  <2> QED BY <1>3, <2>1, <2>2 DEF Prepares, OpState
<1>6. CASE \E w \in Process : Starts(w)
      BY <1>3, <1>4, <1>6 DEF Starts, OpState, Calls, Tickets
<1>7. CASE \E w \in Process : Reports(w)
  <2>1. PICK w \in Process : Reports(w)
        BY <1>7
  <2>2. process[w].seen \in OpState
        BY DEF Typed, ProcessRow
  <2> QED BY <1>3, <2>1, <2>2 DEF Reports, Calls, Tickets
<1>8. CASE \E w \in Process : Cleans(w)
  <2>1. op'[d] = op[d] /\ late' = late
        BY <1>2, <1>8 DEF Cleans
  <2> QED BY <1>1, <2>1
<1>9. CASE \E w \in Process : GivesUp(w)
  <2>1. PICK w \in Process : GivesUp(w)
        BY <1>9
  <2>2. process[w].job = d => process[w].slot # "upsert"
        BY DEF Steps, Stepped
  <2>3. process[w].job \in Job /\ process[w].slot \in Slot
        BY DEF Typed, ProcessRow
  <2>4. /\ late' = [late EXCEPT ![process[w].job][process[w].slot] = @ + 1]
        /\ op' = op
        BY <2>1 DEF GivesUp
  <2>5. late'[d]["upsert"] = late[d]["upsert"]
        BY <1>2, <2>2, <2>3, <2>4
  <2> QED BY <1>1, <2>4, <2>5
<1>10. CASE \E j \in Job, x \in Slot : LandLate(j, x)
  <2>1. PICK j \in Job, x \in Slot : late[j][x] > 0 /\ late' = [late EXCEPT ![j][x] = @ - 1]
                                     /\ op' = op
        BY <1>10 DEF LandLate
  <2>2. j # d \/ x # "upsert"
        BY <1>1, <2>1
  <2>3. late'[d]["upsert"] = late[d]["upsert"]
        BY <1>2, <2>1, <2>2
  <2> QED BY <1>1, <2>1, <2>3
<1>11. CASE Rests
       BY <1>4, <1>11 DEF Rests, Same
<1>12. CASE \E w \in Process : /\ Moves(w) /\ ~Prepares(w) /\ ~Starts(w) /\ ~Reports(w)
                               /\ ~Cleans(w) /\ ~GivesUp(w)
       BY <1>4, <1>12 DEF Moves, Same, Yields, Begins, Stages, Reads, Ensures, Fetches,
          Verifies, Marks, Lands
<1> QED BY <1>5, <1>6, <1>7, <1>8, <1>9, <1>10, <1>11, <1>12, StepForm

\* The write follows its preparation, and ends before its document's cleanup.
LEMMA WriteRows ==
    ASSUME Typed, Rows, Steps, [Next]_vars
    PROVE  /\ upsert' # "none" \/ writes' > 0 => removed' /\ draft' # None
           /\ cleanup'.stage = "removing_index" => upsert' \in {"none", "failed", "succeeded"}
<1>1. Onward /\ Settles /\ WriteStep
      BY JobSteps, WriteSteps DEF JobStep
<1>2. /\ upsert # "none" \/ writes > 0 => removed /\ draft # None
      /\ cleanup.stage = "removing_index" => upsert \in {"none", "failed", "succeeded"}
      /\ cleanup.state = "none" <=> cleanup.stage = "none"
      /\ upsert \in OpState /\ writes \in Nat
      BY DEF Rows, Typed, upsert, writes, Job, Slot
<1>3. removed /\ draft # None => removed' /\ draft' # None
      BY <1>1 DEF Onward
<1>4. ASSUME NEW w \in Process, Held(w), process[w].job = "ingest"
      PROVE  cleanup.stage = "none"
      BY <1>2, <1>4 DEF Held, Fenced, cleanup
<1>5. upsert' # "none" \/ writes' > 0 => removed /\ draft # None
  <2>1. CASE Quiet \/ WriteLandsLate \/ WriteDropped
        BY <1>2, <2>1 DEF Quiet, WriteLandsLate, WriteDropped
  <2>2. CASE WritePrepared
        BY <2>2 DEF WritePrepared
  <2>3. CASE \E w \in Process : WriteSent(w) \/ WriteLands(w) \/ WriteLost(w) \/ WriteReported(w)
    <3>1. PICK w \in Process : WriteSent(w) \/ WriteLands(w) \/ WriteLost(w) \/ WriteReported(w)
          BY <2>3
    <3>2. process[w].slot = "upsert"
          BY <3>1 DEF WriteSent, WriteLands, WriteLost, WriteReported, Sending
    <3> QED BY <3>2, UpsertJob
  <2> QED BY <1>1, <2>1, <2>2, <2>3 DEF WriteStep
<1>6. ASSUME cleanup.stage = "removing_index"
      PROVE  upsert' \in {"none", "failed", "succeeded"}
  <2>1. CASE Quiet \/ WriteLandsLate \/ WriteDropped
        BY <1>2, <1>6, <2>1 DEF Quiet, WriteLandsLate, WriteDropped
  <2>2. CASE WritePrepared
        BY <1>2, <1>6, <2>2 DEF WritePrepared
  <2>3. CASE \E w \in Process : WriteLands(w) \/ WriteLost(w)
        BY <1>2, <1>6, <2>3 DEF WriteLands, WriteLost
  <2>4. CASE \E w \in Process : WriteSent(w)
        BY <1>4, <1>6, <2>4, UpsertJob DEF WriteSent
  <2>5. CASE \E w \in Process : WriteReported(w)
    <3>1. PICK w \in Process : WriteReported(w)
          BY <2>5
    <3>2. /\ upsert \in {"failed", "succeeded"}
          /\ process[w].seen \in {"failed", "unknown", "succeeded"}
          BY <1>2, <1>6, <3>1, PendingOnce DEF WriteReported, Tickets, Steps, Stepped
    <3> QED BY <3>1, <3>2 DEF WriteReported, Reportable
  <2> QED BY <1>1, <2>1, <2>2, <2>3, <2>4, <2>5 DEF WriteStep
<1>7. ASSUME NEW w \in Process, Cleans(w)
      PROVE  upsert' \in {"none", "failed", "succeeded"}
      BY <1>2, <1>7 DEF Cleans, upsert, Slot, Typed, Job, OpState, Unresolved
<1> QED BY <1>1, <1>3, <1>5, <1>6, <1>7 DEF Settles

LEMMA RowsStep ==
    ASSUME Typed, Rows, Steps, [Next]_vars
    PROVE  Rows'
<1>1. Onward /\ Settles
      BY JobSteps DEF JobStep
<1>2. /\ job'["ingest"].removals = {First}
      /\ job'["ingest"].state = "completed" => draft' # None
      BY <1>1 DEF Rows, Onward, Settles
<1>3. cleanup'.state = "completed" => cleanup'.stage = "removing_index"
      BY <1>1 DEF Rows, Onward, Settles, Steps, Stepped
<1> QED BY <1>1, <1>2, <1>3, DeletionStep, WriteRows DEF Rows, Settles

-----------------------------------------------------------------------------
(* What the processes have seen of the index. *)

LEMMA ToldStep ==
    ASSUME Typed, Rows, Steps, [Next]_vars, NEW w \in Process, Told(w)'
    PROVE  /\ process[w].slot = "upsert"
           /\ Told(w) \/ (draft \in index /\ index' = index)
<1>1. /\ process'[w].at = "report" /\ process'[w].slot = "upsert"
      /\ process'[w].seen = "succeeded"
      BY DEF Told
<1>2. CASE process'[w] = process[w] \/ Rests
      BY <1>1, <1>2 DEF Told, Rests
<1>3. CASE Moves(w)
  <2>1. CASE Ensures(w) \/ Verifies(w)
    <3>1. process[w].slot = "upsert" /\ Verified(process[w].job, "upsert") /\ index' = index
          BY <1>1, <2>1 DEF Ensures, Verifies, Turned, Same
    <3>2. draft \in index
          BY <3>1, UpsertJob DEF Verified, Points, draft
    <3> QED BY <3>1, <3>2
  <2>2. CASE ~Ensures(w) /\ ~Verifies(w)
        BY <1>1, <1>3, <2>2 DEF Moves, Turned, Yields, Begins, Beginning, Stages, Reads,
           Fetches, Marks, Prepares, Starts, Lands, GivesUp, Reports, Cleans
  <2> QED BY <2>1, <2>2
<1>4. CASE \E v \in Process : Moves(v) /\ v # w
      BY <1>2, <1>4, OthersStay
<1>5. CASE \E j \in Job, x \in Slot : LandLate(j, x)
      BY <1>2, <1>5 DEF LandLate
<1> QED BY <1>2, <1>3, <1>4, <1>5, StepForm

LEMMA ClearedStep ==
    ASSUME Typed, Rows, Steps, [Next]_vars, NEW w \in Process, Cleared(w)'
    PROVE  /\ process'[w].job = process[w].job
           /\ \/ Cleared(w) /\ (process'[w].at = "report" => process[w].at = "report")
              \/ /\ process[w].slot # "upsert" /\ process[w].at \in {"fetch", "verify"}
                 /\ Points(process[w].job, process[w].slot) \cap index = {}
                 /\ index' = index
<1>1. /\ process'[w].slot # "upsert"
      /\ \/ process'[w].at = "removed"
         \/ process'[w].at = "report" /\ process'[w].seen = "succeeded"
      BY DEF Cleared
<1>2. CASE process'[w] = process[w] \/ Rests
      BY <1>1, <1>2 DEF Cleared, Rests
<1>3. CASE Moves(w)
  <2>1. CASE Fetches(w) \/ Verifies(w)
        BY <1>1, <2>1 DEF Fetches, Verifies, Turned, Same, Verified
  <2>2. CASE Reports(w)
        BY <1>1, <2>2 DEF Reports, Turned, Cleared
  <2>3. CASE Ensures(w)
        BY <1>1, <2>3 DEF Ensures, Turned, Steps, Stepped
  <2>4. CASE ~Fetches(w) /\ ~Verifies(w) /\ ~Reports(w) /\ ~Ensures(w)
        BY <1>1, <1>3, <2>4 DEF Moves, Turned, Yields, Begins, Beginning, Stages, Reads,
           Marks, Prepares, Starts, Lands, GivesUp, Cleans
  <2> QED BY <2>1, <2>2, <2>3, <2>4
<1>4. CASE \E v \in Process : Moves(v) /\ v # w
      BY <1>2, <1>4, OthersStay
<1>5. CASE \E j \in Job, x \in Slot : LandLate(j, x)
      BY <1>2, <1>5 DEF LandLate
<1> QED BY <1>2, <1>3, <1>4, <1>5, StepForm

\* What leaves the index without the history telling is removed by the lease.
LEMMA LeavesIndex ==
    ASSUME Typed, Rows, Steps, [Next]_vars
    PROVE  \/ index \subseteq index' \/ overtaken'
           \/ \E w \in Process : /\ process[w].at = "calling" /\ process[w].slot # "upsert"
                                 /\ Held(w)
<1>1. CASE \E j \in Job, x \in Slot : LandLate(j, x)
      BY <1>1 DEF LandLate, Written
<1>2. CASE \E w \in Process : Lands(w)
      BY <1>2 DEF Lands, Written
<1>3. CASE Rests
      BY <1>3 DEF Rests, Same
<1>4. CASE \E w \in Process : Moves(w) /\ ~Lands(w)
      BY <1>4 DEF Moves, Same, Yields, Begins, Stages, Reads, Ensures, Fetches,
         Verifies, Marks, Prepares, Starts, GivesUp, Reports, Cleans
<1> QED BY <1>1, <1>2, <1>3, <1>4, StepForm

LEMMA PresentStep ==
    ASSUME Typed, Rows, Steps, Present, [Next]_vars
    PROVE  Present'
<1> SUFFICES ASSUME upsert' = "succeeded" \/ \E w \in Process : Told(w)',
                    cleanup'.state = "none", ~overtaken'
             PROVE  draft' \in index'
    BY DEF Present
<1>1. Onward /\ WriteStep /\ (overtaken => overtaken')
      BY JobSteps, WriteSteps, HistoryStep DEF JobStep
<1>2. cleanup.state = "none" /\ ~overtaken
      BY <1>1 DEF Onward
<1>3. upsert' = "succeeded" => upsert = "succeeded" \/ \E w \in Process : Told(w)
      BY <1>1 DEF WriteStep, Quiet, WritePrepared, WriteLandsLate, WriteDropped, WriteSent,
         WriteLands, WriteLost, WriteReported, Told
<1>4. /\ \/ upsert = "succeeded"
         \/ \E w \in Process : Told(w)
         \/ draft \in index /\ index' = index
      /\ removed /\ draft # None
  <2>1. CASE upsert' = "succeeded"
        BY <1>3, <2>1, PendingOnce DEF Rows, Past
  <2>2. CASE \E w \in Process : Told(w)'
        BY <2>2, ToldStep, UpsertJob
  <2> QED BY <2>1, <2>2
<1>5. draft' = draft
      BY <1>1, <1>4 DEF Onward
<1>6. CASE draft \in index /\ index' = index
      BY <1>5, <1>6
<1>7. CASE upsert = "succeeded" \/ \E w \in Process : Told(w)
  <2>1. draft \in index
        BY <1>2, <1>7 DEF Present
  <2>2. ASSUME NEW w \in Process, process[w].at = "calling", process[w].slot # "upsert", Held(w)
        PROVE  FALSE
    <3>1. process[w].job \in Job /\ Stepped(w)
          BY DEF Typed, ProcessRow, Steps
    <3>2. process[w].job = "ingest"
          BY <1>2, <2>2, <3>1 DEF Held, cleanup, Job
    <3>3. ~removed
          BY <2>2, <3>1, <3>2 DEF Stepped, Calls, Tickets
    <3> QED BY <1>4, <3>3
  <2> QED BY <1>5, <2>1, <2>2, LeavesIndex
<1> QED BY <1>4, <1>6, <1>7

\* The index gains the replacement only, and that when the rest is gone.
LEMMA IndexGains ==
    ASSUME Typed, Rows, Steps, [Next]_vars
    PROVE  \/ index' \subseteq index
           \/ /\ index' = index \cup {draft} /\ removed
              /\ writes > 0 \/ \E w \in Process : Sending(w)
<1>1. WriteStep
      BY WriteSteps
<1>2. CASE Quiet \/ WritePrepared \/ WriteDropped
      BY <1>2 DEF Quiet, WritePrepared, WriteDropped
<1>3. CASE \E w \in Process : WriteSent(w) \/ WriteLost(w) \/ WriteReported(w)
      BY <1>3 DEF WriteSent, WriteLost, WriteReported
<1>4. CASE \E w \in Process : WriteLands(w)
      BY <1>4, PendingOnce DEF WriteLands
<1>5. CASE WriteLandsLate
      BY <1>5 DEF WriteLandsLate, Rows
<1> QED BY <1>1, <1>2, <1>3, <1>4, <1>5 DEF WriteStep

LEMMA FirstGoneStep ==
    ASSUME Typed, Rows, Steps, FirstGone, [Next]_vars
    PROVE  FirstGone'
<1> SUFFICES ASSUME NEW w \in Process, Cleared(w)', process'[w].job = "ingest", ~removed'
             PROVE  First \notin index'
    BY DEF FirstGone
<1>1. ~removed
      BY JobSteps DEF JobStep, Onward
<1>2. index' \subseteq index
      BY <1>1, IndexGains
<1>3. process[w].job = "ingest"
      BY ClearedStep
<1>4. CASE Cleared(w)
      BY <1>1, <1>2, <1>3, <1>4 DEF FirstGone
<1>5. CASE process[w].slot # "upsert" /\ Points("ingest", process[w].slot) \cap index = {}
      BY <1>2, <1>5 DEF Points, Rows
<1> QED BY <1>3, <1>4, <1>5, ClearedStep

-----------------------------------------------------------------------------
(* One write at a time. *)

LEMMA UnsentKept ==
    ASSUME Typed, Rows, Steps, FirstGone, Unsent, [Next]_vars,
           writes' = writes, index' \subseteq index,
           \A v \in Process : /\ Sending(v)' => Sending(v)
                              /\ Past(v)' => Past(v) \/ (draft \in index /\ process[v].slot = "upsert")
    PROVE  Unsent'
<1>1. /\ writes = 0 /\ index \subseteq {First}
      /\ \A v \in Process : ~Sending(v) /\ ~Past(v)
      /\ removed => index = {}
      BY DEF Unsent
<1>2. \A v \in Process : ~Past(v)'
      BY <1>1, UpsertJob
<1>3. ASSUME removed', ~removed PROVE index' = {}
  <2>1. PICK v \in Process : Held(v) /\ process[v].at = "removed" /\ process[v].job = "ingest"
        BY <1>3, JobSteps DEF JobStep, MarkedBy
  <2>2. Cleared(v)
        BY <2>1 DEF Cleared, Steps, Stepped
  <2>3. First \notin index
        BY <1>3, <2>1, <2>2 DEF FirstGone
  <2> QED BY <1>1, <2>3
<1> QED BY <1>1, <1>2, <1>3 DEF Unsent

LEMMA AwaitedKept ==
    ASSUME Typed, Rows, Steps, Awaited, [Next]_vars,
           upsert' \in Unresolved, index' \subseteq index,
           \A v \in Process : Past(v)' => Past(v) \/ (draft \in index /\ process[v].slot = "upsert")
    PROVE  Awaited'
<1>1. draft' = draft
  <2>1. draft # None
        BY DEF Awaited, Unresolved, Rows
  <2> QED BY <2>1, JobSteps DEF JobStep, Onward
<1> QED BY <1>1 DEF Awaited

LEMMA OnceQuiet ==
    ASSUME Typed, Rows, Steps, FirstGone, Once, [Next]_vars, Quiet
    PROVE  Once'
<1>1. /\ upsert' = upsert /\ writes' = writes /\ index' \subseteq index
      /\ \A v \in Process :
            /\ Sending(v)' => Sending(v)
            /\ Past(v)' => Past(v) \/ (draft \in index /\ process[v].slot = "upsert")
            /\ Prepared(v)' => Prepared(v) \/ upsert \in {"pending", "failed"}
      BY DEF Quiet
<1>2. Unsent => Unsent'
      BY <1>1, UnsentKept
<1>3. Awaited => Awaited'
      BY <1>1, AwaitedKept DEF Awaited
<1>4. (upsert' \in {"none", "pending", "failed"} => Unsent')
      BY <1>1, <1>2 DEF Once
<1>5. \A w \in Process : Prepared(w)' => Unsent' /\ upsert' \in {"pending", "failed", "unknown"}
      BY <1>1, <1>2 DEF Once
<1>6. \A w \in Process : Sending(w)' =>
         Awaited' /\ writes' = 0 /\ \A v \in Process : Sending(v)' => v = w
      BY <1>1, <1>3 DEF Once
<1>7. writes' > 0 => Awaited' /\ writes' = 1 /\ \A w \in Process : ~Sending(w)'
      BY <1>1, <1>3 DEF Once
<1> QED BY <1>4, <1>5, <1>6, <1>7 DEF Once

LEMMA OncePrepared ==
    ASSUME Typed, Rows, Steps, FirstGone, Once, [Next]_vars, WritePrepared
    PROVE  Once'
<1>1. Unsent
      BY DEF Once, WritePrepared
<1>2. Unsent'
      BY <1>1, UnsentKept DEF WritePrepared
<1>3. upsert' = "pending" /\ writes' = 0 /\ \A v \in Process : ~Sending(v)'
      BY <1>2 DEF WritePrepared, Unsent
<1> QED BY <1>2, <1>3 DEF Once

\* Only one process holds the lease of the ingestion.
LEMMA PreparedAlone ==
    ASSUME Typed, Steps, NEW v \in Process, NEW w \in Process, Prepared(v),
           Held(w), process[w].slot = "upsert"
    PROVE  v = w
BY UpsertJob, HolderOnly DEF Prepared

LEMMA OnceSent ==
    ASSUME Typed, Rows, Steps, FirstGone, Once, [Next]_vars, NEW w \in Process, WriteSent(w)
    PROVE  Once'
<1>1. Prepared(w)
      BY DEF WriteSent, Prepared
<1>2. /\ Unsent /\ upsert' = "in_flight"
      BY <1>1 DEF Once, WriteSent
<1>3. removed
      BY UpsertJob DEF WriteSent
<1>4. /\ index' = {} /\ writes' = 0
      /\ \A v \in Process : (Sending(v)' => v = w) /\ ~Past(v)'
      BY <1>2, <1>3 DEF Unsent, WriteSent
<1>5. \A v \in Process : ~Prepared(v)'
      BY PreparedAlone DEF WriteSent
<1>6. Awaited'
      BY <1>2, <1>4 DEF Awaited, Unresolved
<1> QED BY <1>2, <1>4, <1>5, <1>6 DEF Once

LEMMA OnceLands ==
    ASSUME Typed, Once, NEW w \in Process, WriteLands(w)
    PROVE  Once'
<1>1. /\ Awaited /\ writes = 0 /\ \A v \in Process : Sending(v) => v = w
      BY DEF Once, WriteLands
<1>2. /\ upsert' \in Unresolved /\ writes' = 0 /\ \A v \in Process : ~Sending(v)'
      BY <1>1 DEF WriteLands, Awaited
<1>3. \A v \in Process : ~Prepared(v)'
      BY DEF WriteLands, Once, Unsent
<1> QED BY <1>2, <1>3 DEF Once, Unresolved

LEMMA OnceLost ==
    ASSUME Typed, Rows, Steps, Once, [Next]_vars, NEW w \in Process, WriteLost(w)
    PROVE  Once'
<1>1. /\ Awaited /\ writes = 0 /\ \A v \in Process : Sending(v) => v = w
      BY DEF Once, WriteLost
<1>2. /\ upsert' \in Unresolved /\ writes' = 1 /\ \A v \in Process : ~Sending(v)'
      BY <1>1 DEF WriteLost, Awaited, NoneJoins
<1>3. \A v \in Process : ~Prepared(v)'
      BY DEF WriteLost, NoneJoins, Once, Unsent
<1>4. Awaited'
      BY <1>1, <1>2, AwaitedKept DEF WriteLost, NoneJoins
<1> QED BY <1>2, <1>3, <1>4 DEF Once, Unresolved

LEMMA OnceLandsLate ==
    ASSUME Typed, Once, WriteLandsLate
    PROVE  Once'
<1>1. Awaited /\ writes = 1 /\ \A v \in Process : ~Sending(v)
      BY DEF Once, WriteLandsLate
<1>2. /\ upsert' \in Unresolved /\ writes' = 0 /\ \A v \in Process : ~Sending(v)'
      BY <1>1 DEF WriteLandsLate, Awaited, NoneJoins
<1>3. \A v \in Process : ~Prepared(v)'
      BY DEF WriteLandsLate, NoneJoins, Once, Unsent
<1> QED BY <1>2, <1>3 DEF Once, Unresolved

LEMMA OnceReported ==
    ASSUME Typed, Rows, Steps, FirstGone, Once, ~misreported', [Next]_vars,
           NEW w \in Process, WriteReported(w)
    PROVE  Once'
<1>1. /\ process[w].seen \in {"failed", "unknown", "succeeded"}
      /\ upsert' = process[w].seen /\ Reportable(upsert, process[w].seen)
      /\ upsert \in Unresolved => process[w].seen # "failed"
      /\ UNCHANGED <<index, writes>> /\ NoneJoins
      BY DEF WriteReported, Steps, Stepped
<1>2. upsert \in OpState
      BY DEF Typed, upsert, Job, Slot
<1>3. Unsent => Unsent'
      BY <1>1, UnsentKept DEF NoneJoins
<1>4. Awaited /\ process[w].seen = "unknown" => Awaited'
      BY <1>1, AwaitedKept DEF NoneJoins, Unresolved
<1>5. CASE process[w].seen = "succeeded"
  <2>1. Past(w)
        BY <1>5 DEF WriteReported, Past, Told
  <2>2. ~Unsent /\ ~Awaited
        BY <2>1 DEF Unsent, Awaited
  <2> QED BY <1>1, <1>5, <2>2 DEF Once, NoneJoins
<1>6. CASE process[w].seen # "succeeded" /\ upsert \in {"none", "pending", "failed"}
  <2>1. Unsent'
        BY <1>3, <1>6 DEF Once
  <2>2. upsert' \in {"failed", "unknown"} /\ writes' = 0 /\ \A v \in Process : ~Sending(v)'
        BY <1>1, <1>6, <2>1 DEF Unsent
  <2> QED BY <2>1, <2>2 DEF Once
<1>7. CASE process[w].seen = "unknown" /\ upsert \in Unresolved
      BY <1>1, <1>3, <1>4, <1>7 DEF Once, NoneJoins
<1>8. upsert = "succeeded" => process[w].seen = "succeeded"
      BY <1>1 DEF Reportable
<1> QED BY <1>1, <1>2, <1>5, <1>6, <1>7, <1>8 DEF OpState, Unresolved

LEMMA OnceDropped ==
    ASSUME Typed, Rows, Steps, FirstGone, Once, [Next]_vars, WriteDropped
    PROVE  Once'
<1>1. /\ writes = 0 /\ \A v \in Process : ~Sending(v)
  <2>1. writes \in Nat
        BY DEF Typed, writes, Job, Slot
  <2> QED BY <2>1 DEF WriteDropped, Once, Awaited
<1>2. /\ writes' = 0 /\ \A v \in Process : ~Sending(v)'
      BY <1>1 DEF WriteDropped, NoneJoins
<1>3. \A v \in Process : ~Prepared(v)'
  <2>1. ASSUME NEW v \in Process, Prepared(v)
        PROVE  FALSE
    <3>1. Held(v) /\ process[v].job = "ingest"
          BY <2>1, UpsertJob DEF Prepared
    <3> QED BY <3>1 DEF Held, Fenced, WriteDropped, cleanup
  <2> QED BY <2>1 DEF WriteDropped, NoneJoins
<1>4. Unsent => Unsent'
      BY UnsentKept DEF WriteDropped, NoneJoins
<1>5. upsert' \in {"none", "pending", "failed"} => Unsent'
      BY <1>4 DEF WriteDropped, Once
<1> QED BY <1>2, <1>3, <1>5 DEF Once

LEMMA OnceStep ==
    ASSUME Typed, Rows, Steps, FirstGone, Once, ~misreported', [Next]_vars
    PROVE  Once'
<1>1. WriteStep
      BY WriteSteps
<1> QED BY <1>1, OnceQuiet, OncePrepared, OnceSent, OnceLands, OnceLost, OnceLandsLate,
        OnceReported, OnceDropped DEF WriteStep

-----------------------------------------------------------------------------
(* The deletion. *)

\* A cleanup that works in the index has no write to fear.
LEMMA GoneKept ==
    ASSUME Typed, Rows, Steps, Once, [Next]_vars, cleanup.stage = "removing_index"
    PROVE  /\ writes = 0 /\ writes' = 0
           /\ Gone => Gone'
<1>1. ~Awaited
      BY DEF Rows, Awaited, Unresolved
<1>2. writes = 0 /\ \A w \in Process : ~Sending(w)
  <2>1. writes \in Nat
        BY DEF Typed, writes, Job, Slot
  <2> QED BY <1>1, <2>1 DEF Once
<1>3. index' \subseteq index
      BY <1>2, IndexGains
<1>4. writes' = 0
      BY <1>2, WriteSteps DEF WriteStep, Quiet, WritePrepared, WriteLandsLate, WriteDropped,
         WriteSent, WriteLands, WriteLost, WriteReported
<1>5. cleanup'.removals = cleanup.removals
      BY JobSteps DEF JobStep, Onward
<1> QED BY <1>2, <1>3, <1>4, <1>5 DEF Gone

LEMMA DeletionSucceeds ==
    ASSUME Typed, Rows, Steps, [Next]_vars, NEW x \in Slot,
           op'["delete_document"][x] = "succeeded"
    PROVE  \/ op["delete_document"][x] = "succeeded"
           \/ \E w \in Process : /\ Cleared(w) /\ process[w].at = "report"
                                 /\ process[w].job = "delete_document"
<1> DEFINE d == "delete_document"
<1>1. op \in [Job -> [Slot -> OpState]] /\ d \in Job
      BY DEF Typed, Job
<1>2. CASE UNCHANGED op
      BY <1>2
<1>3. ASSUME NEW w \in Process, NEW s \in OpState, Records(w, s),
             s = "succeeded" => op[process[w].job][process[w].slot] = "succeeded"
      PROVE  op[d][x] = "succeeded"
      BY <1>1, <1>3, RecordsTyped
<1>4. CASE \E w \in Process : Prepares(w)
  <2>1. PICK w \in Process : Prepares(w)
        BY <1>4
  <2>2. op[process[w].job][process[w].slot] \in OpState
        BY DEF Typed, ProcessRow
  <2> QED BY <1>3, <2>1, <2>2 DEF Prepares, OpState
<1>5. CASE \E w \in Process : Starts(w)
      BY <1>2, <1>3, <1>5 DEF Starts, OpState
<1>6. CASE \E w \in Process : Reports(w)
  <2>1. PICK w \in Process : Reports(w)
        BY <1>6
  <2>2. /\ process[w].seen \in OpState /\ Records(w, process[w].seen)
        /\ process[w].at = "report"
        BY <2>1 DEF Reports, Typed, ProcessRow
  <2>3. CASE process[w].job = d /\ process[w].slot = x /\ process[w].seen = "succeeded"
        BY <2>2, <2>3, UpsertJob DEF Cleared
  <2>4. CASE process[w].job # d \/ process[w].slot # x
        BY <1>1, <2>2, <2>4, RecordsTyped
  <2>5. CASE process[w].job = d /\ process[w].slot = x /\ process[w].seen # "succeeded"
        BY <1>1, <2>2, <2>5, RecordsTyped
  <2> QED BY <2>3, <2>4, <2>5
<1>7. CASE \E w \in Process : Cleans(w)
      BY <1>1, <1>7 DEF Cleans
<1>8. CASE Rests \/ \E j \in Job, y \in Slot : LandLate(j, y)
      BY <1>2, <1>8 DEF Rests, Same, LandLate
<1>9. CASE \E w \in Process : /\ Moves(w) /\ ~Prepares(w) /\ ~Starts(w) /\ ~Reports(w)
                              /\ ~Cleans(w)
      BY <1>2, <1>9 DEF Moves, Same, Yields, Begins, Stages, Reads, Ensures, Fetches,
         Verifies, Marks, Lands, GivesUp
<1> QED BY <1>4, <1>5, <1>6, <1>7, <1>8, <1>9, StepForm

LEMMA DocumentGoneStep ==
    ASSUME Typed, Rows, Steps, Once, DocumentGone, [Next]_vars
    PROVE  DocumentGone'
<1>1. ASSUME NEW w \in Process, Cleared(w)', process'[w].at = "report",
             process'[w].job = "delete_document"
      PROVE  Gone'
  <2>1. process[w].job = "delete_document" /\ process[w].at \in Calls
        BY <1>1, ClearedStep DEF Calls, Tickets
  <2>2. cleanup.stage = "removing_index"
        BY <2>1 DEF Steps, Stepped
  <2>3. CASE Cleared(w) /\ process[w].at = "report"
        BY <2>1, <2>2, <2>3, GoneKept DEF DocumentGone
  <2>4. CASE process[w].slot # "upsert" /\ Points("delete_document", process[w].slot) \cap index = {}
        BY <2>2, <2>4, GoneKept DEF Points, Gone, cleanup
  <2> QED BY <1>1, <2>1, <2>3, <2>4, ClearedStep
<1>2. ASSUME NEW x \in Slot, op'["delete_document"][x] = "succeeded"
      PROVE  Gone'
  <2>1. CASE op["delete_document"][x] = "succeeded"
        BY <2>1, GoneKept DEF DocumentGone, Rows
  <2>2. CASE \E w \in Process : /\ Cleared(w) /\ process[w].at = "report"
                                /\ process[w].job = "delete_document"
        BY <2>2, GoneKept DEF DocumentGone, Steps, Stepped, Calls, Tickets
  <2> QED BY <1>2, <2>1, <2>2, DeletionSucceeds
<1>3. ASSUME cleanup'.state = "completed"
      PROVE  Gone' /\ writes' = 0
  <2>1. CASE cleanup.state = "completed"
        BY <2>1, GoneKept DEF DocumentGone, Rows
  <2>2. CASE \E w \in Process : /\ process[w].at = "publish"
                                /\ process[w].job = "delete_document"
                                /\ Publishable("delete_document")
    <3>1. cleanup.stage = "removing_index"
          BY <2>2 DEF Steps, Stepped
    <3>2. Gone
          BY <2>2 DEF Publishable, DocumentGone, Slot
    <3> QED BY <3>1, <3>2, GoneKept
  <2> QED BY <1>3, <2>1, <2>2, JobSteps DEF JobStep, Settles
<1> QED BY <1>1, <1>2, <1>3 DEF DocumentGone

-----------------------------------------------------------------------------
(* The invariant and what it shows. *)

LEMMA WorkerInit == Init => WorkerInv
<1> SUFFICES ASSUME Init PROVE WorkerInv
    OBVIOUS
<1> DEFINE first == [NoJob EXCEPT !.state = "pending", !.stage = "privacy_ready",
                                  !.removals = {First}]
<1>1. /\ first \in JobRow /\ first.state = "pending" /\ first.holder = None
      /\ first.removed = FALSE /\ first.draft = None /\ first.removals = {First}
      BY ConstantsAssumption DEF JobRow, NoJob
<1>2. /\ NoJob \in JobRow /\ NoJob.state = "none" /\ NoJob.stage = "none"
      /\ NoJob.holder = None
      BY DEF JobRow, NoJob
<1>3. /\ job = [j \in Job |-> IF j = "ingest" THEN first ELSE NoJob]
      /\ op = [j \in Job |-> [x \in Slot |-> "none"]]
      /\ late = [j \in Job |-> [x \in Slot |-> 0]]
      /\ process = [w \in Process |-> Idle]
      /\ index \in {{}, {First}} /\ faults = 0 /\ overtaken = FALSE /\ misreported = FALSE
      BY DEF Init
<1> HIDE DEF first
<1>4. job["ingest"] = first /\ cleanup = NoJob
      BY <1>3 DEF Job, cleanup
<1>5. /\ upsert = "none" /\ writes = 0
      /\ \A x \in Slot : op["delete_document"][x] = "none" /\ late["delete_document"][x] = 0
      BY <1>3 DEF upsert, writes, Job, Slot
<1>6. \A w \in Process : /\ process[w].at = "idle" /\ process[w].slot = "remove"
                         /\ process[w].job = "ingest"
      BY <1>3 DEF Idle
<1>7. Typed
  <2>1. Idle \in ProcessRow
        BY DEF Idle, ProcessRow, At, Job, Slot, OpState
  <2>2. job \in [Job -> JobRow] /\ \A j \in Job : job[j].holder = None
        BY <1>1, <1>2, <1>3
  <2>3. op \in [Job -> [Slot -> OpState]] /\ late \in [Job -> [Slot -> Nat]]
        BY <1>3 DEF OpState
  <2>4. \A j \in Job, x \in Slot : late[j][x] <= faults
        BY <1>3
  <2>5. process \in [Process -> ProcessRow]
        BY <1>3, <2>1
  <2>6. index \in SUBSET Point /\ faults \in Nat /\ faults <= MaxFaults
        BY <1>3, ConstantsAssumption
  <2>7. overtaken \in BOOLEAN /\ misreported \in BOOLEAN
        BY <1>3
  <2>8. \A j \in Job : job[j].holder # None => job[j].state = "running"
        BY <2>2
  <2> QED BY <2>2, <2>3, <2>4, <2>5, <2>6, <2>7, <2>8 DEF Typed
<1>8. Rows
      BY <1>1, <1>2, <1>4, <1>5 DEF Rows, draft, Slot
<1>9. Steps
      BY <1>6 DEF Steps, Stepped, Tickets, Calls
<1>10. Present /\ FirstGone
       BY <1>5, <1>6 DEF Present, Told, FirstGone, Cleared
<1>11. Once
  <2>1. ~removed
        BY <1>1, <1>4 DEF removed
  <2> QED BY <1>3, <1>5, <1>6, <2>1 DEF Once, Unsent, Sending, Past, Told, Prepared
<1>12. DocumentGone
       BY <1>2, <1>4, <1>5, <1>6 DEF DocumentGone, Cleared
<1> QED BY <1>7, <1>8, <1>9, <1>10, <1>11, <1>12 DEF WorkerInv

LEMMA WorkerNext == WorkerInv /\ [Next]_vars => WorkerInv'
<1> SUFFICES ASSUME WorkerInv, [Next]_vars PROVE WorkerInv'
    OBVIOUS
<1>1. Typed /\ Rows /\ Steps /\ Present /\ FirstGone /\ (~misreported => Once /\ DocumentGone)
      BY DEF WorkerInv
<1>2. Typed' /\ Rows' /\ Steps' /\ Present' /\ FirstGone'
      BY <1>1, TypedStep, RowsStep, StepsStep, PresentStep, FirstGoneStep
<1>3. ~misreported' => Once' /\ DocumentGone'
      BY <1>1, HistoryStep, OnceStep, DocumentGoneStep
<1> QED BY <1>2, <1>3 DEF WorkerInv

(* What a worker may rely on between two calls, and what the one write of   *)
(* the replacement has come to, hold throughout (Ledger of jobs.py).        *)
THEOREM WorkerInvariant == Spec => []WorkerInv
BY WorkerInit, WorkerNext, PTL DEF Spec

(* An acknowledged replacement is in the index until its document is        *)
(* deleted, for any number of workers, restarts and failures, unless a      *)
(* removal landed for a caller without the lease (jobs.py:681).             *)
THEOREM ReplacementStays == Spec => []ReplacementKept
<1>1. WorkerInv => ReplacementKept
      BY DEF WorkerInv, Present, ReplacementKept, upsert, draft, cleanup
<1> QED BY <1>1, WorkerInvariant, PTL

(* A deletion that is complete left nothing of its document in the index    *)
(* and no write of it can land any more, unless a write that was sent was   *)
(* reported failed (prepare_cleanup and publish, jobs.py:539).              *)
THEOREM DeletionIsFinal == Spec => []RemovedUnlessMisreported
<1>1. WorkerInv => RemovedUnlessMisreported
      BY DEF WorkerInv, DocumentGone, Gone, RemovedUnlessMisreported, writes, cleanup
<1> QED BY <1>1, WorkerInvariant, PTL

(* The rows, the ledger and the processes keep their types, and a job that  *)
(* has a holder is running.                                                 *)
THEOREM WorkerTypes == Spec => []WorkerTypeOK
<1>1. WorkerInv => WorkerTypeOK
  <2> SUFFICES ASSUME WorkerInv PROVE WorkerTypeOK
      OBVIOUS
  <2>1. Typed
        BY DEF WorkerInv
  <2>2. late \in [Job -> [Slot -> 0 .. MaxFaults]]
    <3>1. /\ late \in [Job -> [Slot -> Nat]] /\ faults \in Nat /\ faults <= MaxFaults
          /\ \A j \in Job, x \in Slot : late[j][x] <= faults
          BY <2>1 DEF Typed
    <3>2. \A j \in Job, x \in Slot : late[j][x] \in 0 .. MaxFaults
          BY <3>1, ConstantsAssumption
    <3> QED BY <3>1, <3>2
  <2>3. {overtaken, misreported} \subseteq BOOLEAN
        BY <2>1 DEF Typed
  <2>4. faults \in 0 .. MaxFaults
        BY <2>1, ConstantsAssumption DEF Typed
  <2> QED BY <2>1, <2>2, <2>3, <2>4 DEF Typed, WorkerTypeOK, ProcessRow
<1> QED BY <1>1, WorkerInvariant, PTL
=============================================================================
