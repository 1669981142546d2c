------------------------------- MODULE Access -------------------------------
(***************************************************************************)
(* Who may do what in one project: sessions, memberships and the request   *)
(* contexts of evidence/service.py.  An HTTP handler first obtains a       *)
(* context (authorize) and hands it to later transactions, which accept it *)
(* only if the session and the grant it was made from still stand.         *)
(*                                                                         *)
(* authorize reads the membership and then the project without locking     *)
(* either, so it is two actions; it locks the session row (FOR SHARE)      *)
(* until it ends.  Every other transaction locks the project row and is    *)
(* one action.                                                             *)
(***************************************************************************)
EXTENDS Naturals

CONSTANTS
    Users,          \* registered accounts
    Founder,        \* the account that created the project
    Sessions,       \* logins in the life of the system
    AccountOf,      \* AccountOf[s]: the account session s is opened for
    Requests,       \* HTTP requests handled at the same time
    Granted,        \* BOUND: the roles administrators give
    MaxRevision,    \* BOUND: access revisions given to one account
    MaxGeneration   \* BOUND: corpus generations of the project

ASSUME AccessAssumption ==
    /\ Founder \in Users
    /\ AccountOf \in [Sessions -> Users]
    /\ Granted \subseteq {"member", "admin"}
    /\ MaxRevision \in Nat
    /\ MaxGeneration \in Nat

VARIABLES
    session,            \* session[s]: unused, live, or ended (revoked or expired)
    members,            \* members[u]: role and access revision of account u
    access_epochs,      \* access_epochs[u]: the revision u's last removal left behind
    corpus_generation,  \* stands for the project's snapshot
    request,            \* request[r]: the request in slot r and its context
    outdated            \* history: requests whose account's grant changed since authorize read it

accessVars == <<session, members, access_epochs, corpus_generation, request, outdated>>

Role == {"none", "member", "admin"}
Phase == {"idle", "authorizing", "ready", "answering", "failing", "replied"}

\* A free slot.  A context holds what RequestContext holds; the generation is its snapshot.
Idle == [phase |-> "idle"]

Context == [phase: Phase \ {"idle"}, session: Sessions, role: Role \ {"none"},
            access_revision: Nat, generation: Nat]

IsAdmin(u) == members[u].role = "admin"

\* create_project makes its caller the first administrator, with revision 1.
AccessInit ==
    /\ session = [s \in Sessions |-> "unused"]
    /\ members = [u \in Users |-> IF u = Founder THEN [role |-> "admin", revision |-> 1]
                                               ELSE [role |-> "none", revision |-> 0]]
    /\ access_epochs = [u \in Users |-> 0]
    /\ corpus_generation = 0
    /\ request = [r \in Requests |-> Idle]
    /\ outdated = {}

Caller(r) == AccountOf[request[r].session]

(***************************************************************************)
(* transaction: the session is live, the grant is the one the context was  *)
(* made from and, where the caller asks for it, nothing was invalidated    *)
(* since the snapshot was taken (fresh).                                   *)
(***************************************************************************)
Accepted(r) ==
    /\ session[request[r].session] = "live"
    /\ members[Caller(r)].role # "none"
    /\ members[Caller(r)].revision = request[r].access_revision
    /\ members[Caller(r)].role = request[r].role

Fresh(r) == request[r].generation = corpus_generation

-----------------------------------------------------------------------------
Login(s) ==
    /\ session[s] = "unused"
    /\ session' = [session EXCEPT ![s] = "live"]
    /\ UNCHANGED <<members, access_epochs, corpus_generation, request, outdated>>

\* The update waits for a transaction that holds the session row.
Logout(s) ==
    /\ session[s] = "live"
    /\ \A r \in Requests : request[r].phase = "authorizing" => request[r].session # s
    /\ session' = [session EXCEPT ![s] = "ended"]
    /\ UNCHANGED <<members, access_epochs, corpus_generation, request, outdated>>

\* Twelve hours later; time waits for no lock.
Expire(s) ==
    /\ session[s] = "live"
    /\ session' = [session EXCEPT ![s] = "ended"]
    /\ UNCHANGED <<members, access_epochs, corpus_generation, request, outdated>>

-----------------------------------------------------------------------------
\* authorize, up to the membership row.
Authorize(r, s) ==
    /\ request[r].phase = "idle"
    /\ session[s] = "live"
    /\ members[AccountOf[s]].role # "none"
    /\ request' = [request EXCEPT ![r] =
           [phase |-> "authorizing", session |-> s, role |-> members[AccountOf[s]].role,
            access_revision |-> members[AccountOf[s]].revision, generation |-> 0]]
    /\ outdated' = outdated \ {r}
    /\ UNCHANGED <<session, members, access_epochs, corpus_generation>>

\* authorize, from the project row on.
LoadSnapshot(r) ==
    /\ request[r].phase = "authorizing"
    /\ request' = [request EXCEPT ![r].phase = "ready", ![r].generation = corpus_generation]
    /\ UNCHANGED <<session, members, access_epochs, corpus_generation, outdated>>

\* The response is sent, the call is refused, the client is gone, or the process died.
End(r) ==
    /\ request[r].phase # "idle"
    /\ request' = [request EXCEPT ![r] = Idle]
    /\ UNCHANGED <<session, members, access_epochs, corpus_generation, outdated>>

-----------------------------------------------------------------------------
\* Requests of u that hold a context when u's grant changes.
HeldBy(u) == {q \in Requests : request[q].phase # "idle" /\ Caller(q) = u}

Larger(a, b) == IF a > b THEN a ELSE b

AnyAdmin(u) == \E v \in Users : IsAdmin(v)           \* mutant: counts u as well

\* The role of the last administrator cannot be taken away.
AnotherAdmin(u) == \E v \in Users \ {u} : IsAdmin(v)

NextRevisionOfRow(u) == members[u].revision + 1  \* mutant: forgets the epoch
NextRevisionOfEpoch(u) == access_epochs[u] + 1   \* mutant: forgets the row

\* Larger than the revision of any earlier grant of u.
NextRevision(u) == Larger(members[u].revision, access_epochs[u]) + 1

SetMember(r, u, role) ==
    /\ request[r].phase = "ready"
    /\ Accepted(r)
    /\ IsAdmin(Caller(r))
    /\ IsAdmin(u) /\ role # "admin" => AnotherAdmin(u)
    /\ NextRevision(u) <= MaxRevision
    /\ members' = [members EXCEPT ![u] = [role |-> role, revision |-> NextRevision(u)]]
    /\ outdated' = outdated \cup HeldBy(u)
    /\ request' = [request EXCEPT ![r] = Idle]
    /\ UNCHANGED <<session, access_epochs, corpus_generation>>

\* The row goes; what stays of it is the epoch.
RemoveMember(r, u) ==
    /\ request[r].phase = "ready"
    /\ Accepted(r)
    /\ IsAdmin(Caller(r))
    /\ members[u].role # "none"
    /\ IsAdmin(u) => AnotherAdmin(u)
    /\ access_epochs' = [access_epochs EXCEPT ![u] = members[u].revision + 1]
    /\ members' = [members EXCEPT ![u] = [role |-> "none", revision |-> 0]]
    /\ outdated' = outdated \cup HeldBy(u)
    /\ request' = [request EXCEPT ![r] = Idle]
    /\ UNCHANGED <<session, corpus_generation>>

\* What Access itself does; the project's content changes in the modules that extend it.
AccessNext ==
    \/ \E s \in Sessions : Login(s) \/ Logout(s) \/ Expire(s)
    \/ \E r \in Requests, s \in Sessions : Authorize(r, s)
    \/ \E r \in Requests : LoadSnapshot(r) \/ End(r)
    \/ \E r \in Requests, u \in Users, role \in Granted : SetMember(r, u, role)
    \/ \E r \in Requests, u \in Users : RemoveMember(r, u)

AccessSpec == AccessInit /\ [][AccessNext]_accessVars

-----------------------------------------------------------------------------
\* Every variable has its type, and a member's revision is beyond the epoch its last
\* removal left, so that removal and epoch can only grow (set_member, remove_member).
AccessTypeOK ==
    /\ request \in [Requests -> Context \cup {Idle}]
    /\ session \in [Sessions -> {"unused", "live", "ended"}]
    /\ members \in [Users -> [role: Role, revision: Nat]]
    /\ access_epochs \in [Users -> Nat]
    /\ corpus_generation \in Nat
    /\ outdated \subseteq Requests
    /\ \A u \in Users : IF members[u].role = "none" THEN members[u].revision = 0
                                                  ELSE members[u].revision > access_epochs[u]

\* There is always an administrator: two that demote or remove each other at the
\* same time cannot both succeed.
AdminRemains == \E u \in Users : IsAdmin(u)

\* No transaction accepts a context made from a grant that was changed or taken away
\* since, not even after the same role was granted again: revisions are never reused.
GrantCurrent == \A r \in outdated : request[r].phase # "idle" => ~Accepted(r)

=============================================================================
