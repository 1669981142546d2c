-------------------------------- MODULE Chat --------------------------------
(***************************************************************************)
(* Questions and answers: the chat handler of main.py with begin_chat,     *)
(* release_answer and fail_chat of evidence/service.py, and what           *)
(* invalidations and cleanups do to answers in the meantime.               *)
(*                                                                         *)
(* A key is a request identifier in a conversation of its owner.  A client *)
(* may send the same key any number of times, at the same time, with the   *)
(* same or another question.  Between begin_chat and release_answer the    *)
(* handler talks to the models for as long as it takes; it may die there,  *)
(* or be cancelled after its release committed.  Evidence changes stand    *)
(* for every call of _invalidate, by commands and publications.            *)
(***************************************************************************)
EXTENDS Access, Sequences

CONSTANTS
    Keys,          \* request identifiers
    OwnerOf,       \* OwnerOf[k]: the owner of the conversation of k
    Questions,     \* texts a client may send under one identifier
    MaxAttempts,   \* BOUND: attempts begun for one key
    None           \* no attempt, no call, no answer, no reply

ASSUME ChatAssumption ==
    /\ OwnerOf \in [Keys -> Users]
    /\ MaxAttempts \in Nat
    /\ None \notin Questions

VARIABLES
    call,       \* call[r]: the key and question of request r, the attempt it holds, its reply
    attempt,    \* attempt[k]: the row of attempts, None if there is none
    issued,     \* issued[k]: attempts begun for k so far; gives attempts their identity
    turns,      \* turns[k]: the user messages written for k, each with the answer below it
    cleanup,    \* none, accepted (the write barrier is up) or sanitized
    overtaken   \* history: requests whose evidence was invalidated since their snapshot

chatVars == <<call, attempt, issued, turns, cleanup, overtaken>>
vars == <<accessVars, chatVars>>

Attempt == [id: Nat \ {0}, state: {"running", "completed", "failed"}, overdue: BOOLEAN,
            retryable: BOOLEAN, question: Questions, turn: Nat \ {0},
            generation: Nat, access_revision: Nat]

Answer == [by: Nat, question: Questions, generation: Nat, valid: BOOLEAN]

\* The states of the user message and of the assistant message below it, and the answer
\* the latter shows.
Turn == [user: {"pending", "available", "failed"},
         assistant: {"none", "available", "unavailable"}, answer: Answer \cup {None}]

Call == [key: Keys, question: Questions, attempt: Nat, reply: Questions \cup {None}]

ASSUME NoneAssumption == None \notin Attempt \cup Answer \cup Call

write_barrier == cleanup # "none"

Pending == [user |-> "pending", assistant |-> "none", answer |-> None]

ChatInit ==
    /\ call = [r \in Requests |-> None]
    /\ attempt = [k \in Keys |-> None]
    /\ issued = [k \in Keys |-> 0]
    /\ turns = [k \in Keys |-> <<>>]
    /\ cleanup = "none"
    /\ overtaken = {}

-----------------------------------------------------------------------------
\* _answer: the answer of turn i of k can still be read.
Readable(k, i) ==
    /\ turns[k][i].answer # None
    /\ turns[k][i].answer.valid
    /\ turns[k][i].answer.generation = corpus_generation

MayBeginBehindBarrier(r, k) ==                \* mutant: a transaction without write=True
    /\ request[r].phase = "ready"
    /\ Accepted(r) /\ Fresh(r)
    /\ Caller(r) = OwnerOf[k]

(***************************************************************************)
(* begin_chat, when it does not refuse: it returns the saved answer, or    *)
(* reserves the key for a new attempt.  A first attempt writes a new user  *)
(* message, a repeated one keeps the message of the one before.            *)
(***************************************************************************)
MayBegin(r, k) ==
    /\ request[r].phase = "ready"
    /\ Accepted(r)
    /\ Fresh(r)
    /\ ~write_barrier
    /\ Caller(r) = OwnerOf[k]

AnyInput(k, q) == TRUE                         \* mutant: the digest is not compared

\* The key is bound to the question it was first sent with.
SameInput(k, q) == attempt[k].question = q

Replay(r, k, q) ==
    /\ MayBegin(r, k)
    /\ attempt[k] # None
    /\ SameInput(k, q)
    /\ attempt[k].state = "completed"
    /\ Readable(k, attempt[k].turn)
    /\ request' = [request EXCEPT ![r].phase = "replied"]
    /\ call' = [call EXCEPT ![r] = [key |-> k, question |-> q, attempt |-> 0,
                                    reply |-> turns[k][attempt[k].turn].answer.question]]
    /\ UNCHANGED <<session, members, access_epochs, corpus_generation, outdated,
                   attempt, issued, turns, cleanup, overtaken>>

MayRepeatEarly(k, q) ==                        \* mutant: the deadline is not awaited
    /\ SameInput(k, q)
    /\ attempt[k].state # "completed"
    /\ attempt[k].retryable

MayRepeat(k, q) ==
    /\ SameInput(k, q)
    /\ attempt[k].state # "completed"
    /\ attempt[k].state = "running" => attempt[k].overdue
    /\ attempt[k].retryable

BeginChat(r, k, q) ==
    /\ MayBegin(r, k)
    /\ attempt[k] # None => MayRepeat(k, q)
    /\ issued[k] < MaxAttempts
    /\ LET i == IF attempt[k] = None THEN Len(turns[k]) + 1 ELSE attempt[k].turn
       IN  /\ turns' = [turns EXCEPT ![k] =
                  IF attempt[k] = None THEN Append(@, Pending) ELSE [@ EXCEPT ![i] = Pending]]
           /\ attempt' = [attempt EXCEPT ![k] =
                  [id |-> issued[k] + 1, state |-> "running", overdue |-> FALSE,
                   retryable |-> TRUE, question |-> q, turn |-> i,
                   generation |-> corpus_generation,
                   access_revision |-> request[r].access_revision]]
    /\ issued' = [issued EXCEPT ![k] = @ + 1]
    /\ request' = [request EXCEPT ![r].phase = "answering"]
    /\ call' = [call EXCEPT ![r] = [key |-> k, question |-> q, attempt |-> issued[k] + 1,
                                    reply |-> None]]
    /\ UNCHANGED <<session, members, access_epochs, corpus_generation, outdated,
                   cleanup, overtaken>>

-----------------------------------------------------------------------------
HoldsAnyAttempt(r) ==                          \* mutant: a retry does not fence the old attempt
    LET k == call[r].key
    IN  attempt[k] # None /\ attempt[k].state = "running" /\ ~attempt[k].overdue

HoldsInAnyState(r) ==                          \* mutant: a completed attempt can still fail
    LET k == call[r].key
    IN  attempt[k] # None /\ attempt[k].id = call[r].attempt /\ ~attempt[k].overdue

\* _attempt: the row is still this request's attempt, running, with its deadline ahead.
Holds(r) ==
    LET k == call[r].key
    IN  /\ attempt[k] # None
        /\ attempt[k].id = call[r].attempt
        /\ attempt[k].state = "running"
        /\ ~attempt[k].overdue

\* The handler may be cancelled after the commit; it then reports a failure as well.
Release(r) ==
    LET k == call[r].key
        i == attempt[k].turn
    IN  /\ request[r].phase = "answering"
        /\ Accepted(r)
        /\ Fresh(r)
        /\ ~write_barrier
        /\ Holds(r)
        /\ attempt[k].generation = corpus_generation
        /\ attempt[k].access_revision = request[r].access_revision
        /\ turns' = [turns EXCEPT ![k][i] =
               [user |-> "available", assistant |-> "available",
                answer |-> [by |-> call[r].attempt, question |-> call[r].question,
                            generation |-> request[r].generation, valid |-> TRUE]]]
        /\ attempt' = [attempt EXCEPT ![k].state = "completed"]
        /\ call' = [call EXCEPT ![r].reply = call[r].question]
        /\ \E phase \in {"replied", "failing"} :
               request' = [request EXCEPT ![r].phase = phase]
        /\ UNCHANGED <<session, members, access_epochs, corpus_generation, outdated,
                       issued, cleanup, overtaken>>

\* fail_chat, which neither the barrier nor a changed snapshot refuses.
FailChat(r, retryable) ==
    LET k == call[r].key
    IN  /\ request[r].phase \in {"answering", "failing"}
        /\ Accepted(r)
        /\ Holds(r)
        /\ attempt' = [attempt EXCEPT ![k].state = "failed", ![k].retryable = retryable]
        /\ turns' = [turns EXCEPT ![k][attempt[k].turn].user = "failed"]
        /\ request' = [request EXCEPT ![r] = Idle]
        /\ call' = [call EXCEPT ![r] = None]
        /\ overtaken' = overtaken \ {r}
        /\ UNCHANGED <<session, members, access_epochs, corpus_generation, outdated,
                       issued, cleanup>>

Deadline(k) ==
    /\ attempt[k] # None
    /\ attempt[k].state = "running"
    /\ ~attempt[k].overdue
    /\ attempt' = [attempt EXCEPT ![k].overdue = TRUE]
    /\ UNCHANGED <<accessVars, call, issued, turns, cleanup, overtaken>>

-----------------------------------------------------------------------------
Invalidated(turn) == IF turn.answer # None THEN [turn EXCEPT !.answer.valid = FALSE] ELSE turn

SameGeneration == corpus_generation            \* mutant: answers are only marked

NextGeneration == corpus_generation + 1

\* _invalidate
Invalidate ==
    /\ corpus_generation < MaxGeneration
    /\ corpus_generation' = NextGeneration
    /\ turns' = [k \in Keys |-> [i \in DOMAIN turns[k] |-> Invalidated(turns[k][i])]]
    /\ overtaken' = {r \in Requests : request[r].phase \notin {"idle", "authorizing"}}

\* A publication, an association, a decision or a lifecycle command.  The commands are
\* refused behind the barrier, and the publications of other jobs are fenced by it
\* (BarrierExclusive of Jobs).
EvidenceChanges ==
    /\ ~write_barrier
    /\ Invalidate
    /\ UNCHANGED <<session, members, access_epochs, request, outdated, call, attempt,
                   issued, cleanup>>

\* A deletion or an erasure is accepted.
AcceptCleanup ==
    /\ cleanup = "none"
    /\ cleanup' = "accepted"
    /\ Invalidate
    /\ UNCHANGED <<session, members, access_epochs, request, outdated, call, attempt, issued>>

ErasedOnly(turn) == [turn EXCEPT !.answer = None]  \* mutant: its message stays available

Erased(turn) ==
    IF turn.answer # None THEN [turn EXCEPT !.assistant = "unavailable", !.answer = None] ELSE turn

\* prepare_cleanup, sanitizing: every answer and every attempt of the project goes.
Sanitize ==
    /\ cleanup = "accepted"
    /\ cleanup' = "sanitized"
    /\ attempt' = [k \in Keys |-> None]
    /\ turns' = [k \in Keys |-> [i \in DOMAIN turns[k] |-> Erased(turns[k][i])]]
    /\ UNCHANGED <<accessVars, call, issued, overtaken>>

\* publish of the cleanup; an erasure invalidates once more, a deletion does not.
FinishCleanup ==
    /\ cleanup = "sanitized"
    /\ cleanup' = "none"
    /\ Invalidate \/ UNCHANGED <<corpus_generation, turns, overtaken>>
    /\ UNCHANGED <<session, members, access_epochs, request, outdated, call, attempt, issued>>

\* What a request leaves behind is in the rows; its context and its call end with it.
RequestOrGrant ==
    /\ AccessNext
    /\ call' = [r \in Requests |-> IF request'[r].phase = "idle" THEN None ELSE call[r]]
    /\ overtaken' = {r \in overtaken : request'[r].phase # "idle"}
    /\ UNCHANGED <<attempt, issued, turns, cleanup>>

Init == AccessInit /\ ChatInit

Next ==
    \/ RequestOrGrant
    \/ \E r \in Requests, k \in Keys, q \in Questions : Replay(r, k, q) \/ BeginChat(r, k, q)
    \/ \E r \in Requests : Release(r)
    \/ \E r \in Requests, retryable \in BOOLEAN : FailChat(r, retryable)
    \/ \E k \in Keys : Deadline(k)
    \/ EvidenceChanges \/ AcceptCleanup \/ Sanitize \/ FinishCleanup

Spec == Init /\ [][Next]_vars

-----------------------------------------------------------------------------
(* Properties *)

\* Every variable keeps its type, an attempt points at a message that exists, and an
\* assistant message is available exactly while the answer it refers to is stored.
TypeOK ==
    /\ AccessTypeOK
    /\ call \in [Requests -> Call \cup {None}]
    /\ \A r \in Requests : request[r].phase \in {"answering", "failing", "replied"} => call[r] # None
    /\ attempt \in [Keys -> Attempt \cup {None}]
    /\ issued \in [Keys -> Nat]
    /\ turns \in [Keys -> Seq(Turn)]
    /\ \A k \in Keys : attempt[k] # None => attempt[k].turn \in DOMAIN turns[k]
    /\ \A k \in Keys : \A i \in DOMAIN turns[k] :
           turns[k][i].assistant = "available" <=> turns[k][i].answer # None
    /\ cleanup \in {"none", "accepted", "sanitized"}
    /\ overtaken \subseteq Requests

\* Of all the handlers that answer one key at one time, late and repeated ones
\* included, at most one can still release (_attempt).
OneHolder ==
    \A r, p \in Requests :
        (/\ r # p
         /\ request[r].phase = "answering" /\ request[p].phase = "answering"
         /\ Holds(r) /\ Holds(p)) => call[r].key # call[p].key

\* The message of a key says what its attempt says: a failure reported late, or after
\* a release, never marks an answered question as failed.
MessageMatchesAttempt ==
    \A k \in Keys : attempt[k] # None =>
        LET turn == turns[k][attempt[k].turn]
        IN  /\ attempt[k].state = "running"   => turn = Pending
            /\ attempt[k].state = "failed"    => turn = [Pending EXCEPT !.user = "failed"]
            /\ attempt[k].state = "completed" => turn.user = "available" /\ turn.answer # None

\* An answer is released only over the evidence and under the grant its handler
\* started with: not if anything was invalidated in between, nor if its caller was
\* removed, even if added again (release_answer, transaction).
OutdatedNeverReleases ==
    [][\A r \in outdated \cup overtaken :
           request[r].phase = "answering" => request'[r].phase \in {"answering", "idle"}]_vars

\* From the sanitizing pass until the barrier is down the project has no attempt and no
\* answer, whatever handlers that started before it still do (release_answer, begin_chat).
NothingAfterSanitizing ==
    cleanup = "sanitized" =>
        \A k \in Keys : /\ attempt[k] = None
                        /\ \A i \in DOMAIN turns[k] : turns[k][i].answer = None

\* A client gets an answer to the question it sent, not to another one it once sent
\* under the same identifier (the input digest of begin_chat).
AnsweredAsAsked ==
    \A r \in Requests : request[r].phase = "replied" => call[r].reply = call[r].question

\* The state of the abstract promise: the reservation of a key is its running attempt.
Running(k) == attempt[k] # None /\ attempt[k].state = "running"
Completed(k) == attempt[k] # None /\ attempt[k].state = "completed"

Promise ==
    INSTANCE Reservation WITH
        open    <- ~write_barrier,
        latest  <- issued,
        holder  <- [k \in Keys |-> IF Running(k) THEN attempt[k].id ELSE 0],
        expired <- [k \in Keys |-> Running(k) /\ attempt[k].overdue],
        answer  <- [k \in Keys |-> IF Completed(k) THEN turns[k][attempt[k].turn].answer.by ELSE 0]

\* The chat service keeps the promise of Reservation for every key: attempts, retries,
\* late releases and cleanups add up to reserve, answer, give up, time out and forget.
KeepsPromise == Promise!Spec

\* shared-interfaces.md: "Never permit two completed turns for one key."
OneCompletedTurn ==
    \A k \in Keys : \A i, j \in DOMAIN turns[k] :
        turns[k][i].user = "available" /\ turns[k][j].user = "available" => i = j
=============================================================================
