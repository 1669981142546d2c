----------------------------- MODULE ChatProofs -----------------------------
(***************************************************************************)
(* For any accounts, sessions, request slots, identifiers, questions and   *)
(* bounds: Access keeps its types, there is always an administrator, and a *)
(* context made from an earlier grant is never accepted; and Chat, which   *)
(* extends Access, keeps its types, its promise (Reservation) and its      *)
(* safety properties.                                                      *)
(***************************************************************************)
EXTENDS Chat, SequenceTheorems, TLAPS

-----------------------------------------------------------------------------
(* Access: accounts, grants and sessions. *)

\* A slot that is not idle holds a context.
LEMMA InUse ==
    ASSUME AccessTypeOK, NEW r \in Requests, request[r].phase # "idle"
    PROVE  request[r] \in Context
  BY DEF AccessTypeOK, Idle

\* A context names an account.
LEMMA CallerIsUser ==
    ASSUME AccessTypeOK, NEW r \in Requests, request[r].phase # "idle"
    PROVE  Caller(r) \in Users
  BY InUse, AccessAssumption DEF Caller, Context

\* The next revision of an account is beyond its row and its epoch.
LEMMA NextRevisionLarger ==
    ASSUME AccessTypeOK, NEW u \in Users
    PROVE  /\ NextRevision(u) \in Nat
           /\ NextRevision(u) > members[u].revision
           /\ NextRevision(u) > access_epochs[u]
  <1>1. members[u].revision \in Nat /\ access_epochs[u] \in Nat
    BY DEF AccessTypeOK
  <1> QED BY <1>1 DEF NextRevision, Larger

-----------------------------------------------------------------------------
\* A founded project has its types.
LEMMA AccessTypeInit == AccessInit => AccessTypeOK
  BY AccessAssumption DEF AccessInit, AccessTypeOK, Role, Idle

\* Requests come and go without touching grants.
LEMMA AccessTypeRequest ==
    ASSUME AccessTypeOK, NEW r \in Requests, NEW s \in Sessions,
           Authorize(r, s) \/ LoadSnapshot(r) \/ End(r)
    PROVE  AccessTypeOK'
  <1>1. CASE Authorize(r, s)
    <2>1. members[AccountOf[s]] \in [role : Role, revision : Nat]
      BY AccessAssumption DEF AccessTypeOK
    <2>2. [phase |-> "authorizing", session |-> s, role |-> members[AccountOf[s]].role,
           access_revision |-> members[AccountOf[s]].revision, generation |-> 0] \in Context
      BY <1>1, <2>1 DEF Authorize, Context, Phase, Role
    <2> QED BY <1>1, <2>2 DEF Authorize, AccessTypeOK
  <1>2. CASE LoadSnapshot(r)
    <2>1. request[r] \in Context
      BY <1>2, InUse DEF LoadSnapshot
    <2>2. [request[r] EXCEPT !.phase = "ready", !.generation = corpus_generation] \in Context
      BY <2>1 DEF Context, Phase, AccessTypeOK
    <2>3. request' = [request EXCEPT ![r] =
             [request[r] EXCEPT !.phase = "ready", !.generation = corpus_generation]]
      BY <1>2 DEF LoadSnapshot, AccessTypeOK
    <2> QED BY <1>2, <2>2, <2>3 DEF LoadSnapshot, AccessTypeOK
  <1>3. CASE End(r)
    BY <1>3 DEF End, AccessTypeOK
  <1> QED BY <1>1, <1>2, <1>3

\* A new grant has a revision beyond the epoch.
LEMMA AccessTypeSet ==
    ASSUME AccessTypeOK, NEW r \in Requests, NEW u \in Users, NEW role \in Granted,
           SetMember(r, u, role)
    PROVE  AccessTypeOK'
  <1>1. role \in {"member", "admin"}
    BY AccessAssumption
  <1>2. [role |-> role, revision |-> NextRevision(u)] \in [role : Role, revision : Nat]
    BY <1>1, NextRevisionLarger DEF Role
  <1>3. members' \in [Users -> [role : Role, revision : Nat]]
    BY <1>2 DEF SetMember, AccessTypeOK
  <1>4. \A v \in Users : IF members'[v].role = "none" THEN members'[v].revision = 0
                                        ELSE members'[v].revision > access_epochs'[v]
    BY <1>1, NextRevisionLarger DEF SetMember, AccessTypeOK
  <1>5. request' \in [Requests -> Context \cup {Idle}] /\ outdated' \subseteq Requests
    BY DEF SetMember, AccessTypeOK, HeldBy
  <1> QED BY <1>3, <1>4, <1>5 DEF SetMember, AccessTypeOK

\* A removal leaves the epoch behind.
LEMMA AccessTypeRemove ==
    ASSUME AccessTypeOK, NEW r \in Requests, NEW u \in Users, RemoveMember(r, u)
    PROVE  AccessTypeOK'
  <1>1. members' \in [Users -> [role : Role, revision : Nat]]
    BY DEF RemoveMember, AccessTypeOK, Role
  <1>2. access_epochs' \in [Users -> Nat]
    BY DEF RemoveMember, AccessTypeOK
  <1>3. \A v \in Users : IF members'[v].role = "none" THEN members'[v].revision = 0
                                        ELSE members'[v].revision > access_epochs'[v]
    BY DEF RemoveMember, AccessTypeOK
  <1>4. request' \in [Requests -> Context \cup {Idle}] /\ outdated' \subseteq Requests
    BY DEF RemoveMember, AccessTypeOK, HeldBy
  <1> QED BY <1>1, <1>2, <1>3, <1>4 DEF RemoveMember, AccessTypeOK

\* Every step keeps the types.
LEMMA AccessTypeNext ==
    ASSUME AccessTypeOK, AccessNext
    PROVE  AccessTypeOK'
  <1>1. CASE \E s \in Sessions : Login(s) \/ Logout(s) \/ Expire(s)
    BY <1>1 DEF Login, Logout, Expire, AccessTypeOK
  <1>2. CASE \E r \in Requests, s \in Sessions : Authorize(r, s)
    BY <1>2, AccessTypeRequest
  <1>3. CASE \E r \in Requests : LoadSnapshot(r)
    <2>1. PICK r \in Requests : LoadSnapshot(r)
      BY <1>3
    <2>2. request[r].session \in Sessions
      BY <2>1, InUse DEF LoadSnapshot, Context
    <2> QED BY <2>1, <2>2, AccessTypeRequest
  <1>4. CASE \E r \in Requests : End(r)
    BY <1>4 DEF End, AccessTypeOK
  <1>5. CASE \E r \in Requests, u \in Users, role \in Granted : SetMember(r, u, role)
    BY <1>5, AccessTypeSet
  <1>6. CASE \E r \in Requests, u \in Users : RemoveMember(r, u)
    BY <1>6, AccessTypeRemove
  <1> QED BY <1>1, <1>2, <1>3, <1>4, <1>5, <1>6, AccessNext DEF AccessNext

\* Access keeps its types, and revisions run ahead of the epochs removals leave behind.
THEOREM AccessTypeCorrect == AccessSpec => []AccessTypeOK
  <1>1. AccessTypeOK /\ [AccessNext]_accessVars => AccessTypeOK'
    <2> SUFFICES ASSUME AccessTypeOK, [AccessNext]_accessVars PROVE AccessTypeOK'
      OBVIOUS
    <2>1. CASE AccessNext
      BY <2>1, AccessTypeNext
    <2>2. CASE UNCHANGED accessVars
      BY <2>2 DEF accessVars, AccessTypeOK
    <2> QED BY <2>1, <2>2
  <1> QED BY <1>1, AccessTypeInit, PTL DEF AccessSpec

-----------------------------------------------------------------------------
\* A grant is taken from an administrator only while another account is one too.
LEMMA AdminStep ==
    ASSUME AccessTypeOK, AdminRemains, AccessNext
    PROVE  AdminRemains'
  <1>1. CASE \E r \in Requests, u \in Users, role \in Granted : SetMember(r, u, role)
    <2>1. PICK r \in Requests, u \in Users, role \in Granted : SetMember(r, u, role)
      BY <1>1
    <2>2. PICK v \in Users : IsAdmin(v) /\ (v = u => role = "admin")
      BY <2>1 DEF SetMember, AnotherAdmin, AdminRemains
    <2>3. IsAdmin(v)'
      BY <2>1, <2>2 DEF SetMember, IsAdmin, AccessTypeOK
    <2> QED BY <2>3 DEF AdminRemains
  <1>2. CASE \E r \in Requests, u \in Users : RemoveMember(r, u)
    <2>1. PICK r \in Requests, u \in Users : RemoveMember(r, u)
      BY <1>2
    <2>2. PICK v \in Users \ {u} : IsAdmin(v)
      BY <2>1 DEF RemoveMember, AnotherAdmin, AdminRemains
    <2>3. IsAdmin(v)'
      BY <2>1, <2>2 DEF RemoveMember, IsAdmin, AccessTypeOK
    <2> QED BY <2>2, <2>3 DEF AdminRemains
  <1>3. CASE UNCHANGED members
    BY <1>3 DEF AdminRemains, IsAdmin
  <1> QED BY <1>1, <1>2, <1>3, AccessNext
          DEF AccessNext, Login, Logout, Expire, Authorize, LoadSnapshot, End

\* There is always an administrator, however changes of different administrators interleave.
THEOREM AdministratorRemains == AccessSpec => []AdminRemains
  <1>1. AccessInit => AdminRemains
    BY AccessAssumption DEF AccessInit, AdminRemains, IsAdmin
  <1>2. AccessTypeOK /\ AdminRemains /\ [AccessNext]_accessVars => AdminRemains'
    <2> SUFFICES ASSUME AccessTypeOK, AdminRemains, [AccessNext]_accessVars
                 PROVE  AdminRemains'
      OBVIOUS
    <2>1. CASE AccessNext
      BY <2>1, AdminStep
    <2>2. CASE UNCHANGED accessVars
      BY <2>2 DEF accessVars, AdminRemains, IsAdmin
    <2> QED BY <2>1, <2>2
  <1> QED BY <1>1, <1>2, AccessTypeCorrect, PTL DEF AccessSpec

-----------------------------------------------------------------------------
\* What makes GrantCurrent inductive: no context has a revision beyond what its account
\* was ever given, and an outdated one is strictly behind the account's present grant.
Behind(r) ==
    request[r].phase # "idle" =>
        /\ \/ request[r].access_revision <= members[Caller(r)].revision
           \/ request[r].access_revision <= access_epochs[Caller(r)]
        /\ r \in outdated /\ members[Caller(r)].role # "none" =>
               request[r].access_revision < members[Caller(r)].revision

AllBehind == \A r \in Requests : Behind(r)

\* A step that changes neither grants nor this request keeps it behind.
LEMMA BehindKept ==
    ASSUME NEW r \in Requests, Behind(r), request'[r] = request[r] \/ request'[r] = Idle,
           UNCHANGED <<members, access_epochs>>, r \in outdated' => r \in outdated
    PROVE  Behind(r)'
  BY DEF Behind, Caller, Idle

\* A new grant is beyond every context its account holds.
LEMMA BehindSet ==
    ASSUME AccessTypeOK, AllBehind, NEW q \in Requests, NEW u \in Users, NEW role \in Granted,
           SetMember(q, u, role), NEW r \in Requests
    PROVE  Behind(r)'
  <1> SUFFICES ASSUME request'[r].phase # "idle"
               PROVE  Behind(r)'
    BY DEF Behind
  <1>1. request'[r] = request[r]
    BY DEF SetMember, AccessTypeOK, Idle
  <1>2. Caller(r)' = Caller(r) /\ Caller(r) \in Users /\ request[r] \in Context
    BY <1>1, InUse, CallerIsUser DEF Caller
  <1>3. Behind(r)
    BY DEF AllBehind
  <1>4. request[r].access_revision \in Nat
    BY <1>2 DEF Context
  <1>5. CASE Caller(r) = u
    <2>1. members'[u].revision = NextRevision(u)
      BY DEF SetMember, AccessTypeOK
    <2>2. request[r].access_revision < NextRevision(u)
      <3>1. members[u].revision \in Nat /\ access_epochs[u] \in Nat
        BY DEF AccessTypeOK
      <3> QED BY <1>1, <1>3, <1>4, <1>5, <3>1, NextRevisionLarger DEF Behind
    <2>3. NextRevision(u) \in Nat
      BY NextRevisionLarger
    <2> QED BY <1>1, <1>2, <1>4, <1>5, <2>1, <2>2, <2>3 DEF Behind
  <1>6. CASE Caller(r) # u
    <2>1. members'[Caller(r)] = members[Caller(r)] /\ access_epochs' = access_epochs
      BY <1>2, <1>6 DEF SetMember, AccessTypeOK
    <2>2. r \in outdated' => r \in outdated
      BY <1>6 DEF SetMember, HeldBy
    <2> QED BY <1>1, <1>2, <1>3, <2>1, <2>2 DEF Behind
  <1> QED BY <1>5, <1>6

\* A removal moves the epoch beyond every context its account holds.
LEMMA BehindRemove ==
    ASSUME AccessTypeOK, AllBehind, NEW q \in Requests, NEW u \in Users,
           RemoveMember(q, u), NEW r \in Requests
    PROVE  Behind(r)'
  <1> SUFFICES ASSUME request'[r].phase # "idle"
               PROVE  Behind(r)'
    BY DEF Behind
  <1>1. request'[r] = request[r]
    BY DEF RemoveMember, AccessTypeOK, Idle
  <1>2. Caller(r)' = Caller(r) /\ Caller(r) \in Users /\ request[r] \in Context
    BY <1>1, InUse, CallerIsUser DEF Caller
  <1>3. Behind(r)
    BY DEF AllBehind
  <1>4. request[r].access_revision \in Nat
    BY <1>2 DEF Context
  <1>5. CASE Caller(r) = u
    <2>1. members'[u].role = "none" /\ access_epochs'[u] = members[u].revision + 1
      BY DEF RemoveMember, AccessTypeOK
    <2>2. /\ members[u].revision \in Nat /\ access_epochs[u] \in Nat
          /\ members[u].revision > access_epochs[u]
      BY DEF AccessTypeOK, RemoveMember
    <2>3. request[r].access_revision <= access_epochs'[u]
      BY <1>1, <1>3, <1>4, <1>5, <2>1, <2>2 DEF Behind
    <2> QED BY <1>1, <1>2, <1>5, <2>1, <2>3 DEF Behind
  <1>6. CASE Caller(r) # u
    <2>1. members'[Caller(r)] = members[Caller(r)] /\ access_epochs'[Caller(r)] = access_epochs[Caller(r)]
      BY <1>2, <1>6 DEF RemoveMember, AccessTypeOK
    <2>2. r \in outdated' => r \in outdated
      BY <1>6 DEF RemoveMember, HeldBy
    <2> QED BY <1>1, <1>2, <1>3, <2>1, <2>2 DEF Behind
  <1> QED BY <1>5, <1>6

\* A new context is not outdated and has the present revision.
LEMMA BehindAuthorize ==
    ASSUME AccessTypeOK, AllBehind, NEW q \in Requests, NEW s \in Sessions,
           Authorize(q, s), NEW r \in Requests
    PROVE  Behind(r)'
  <1>1. CASE r = q
    <2>1. request'[r].session = s /\ request'[r].access_revision = members[AccountOf[s]].revision
      BY <1>1 DEF Authorize, AccessTypeOK
    <2>2. members[AccountOf[s]].revision \in Nat /\ r \notin outdated'
      BY <1>1, AccessAssumption DEF AccessTypeOK, Authorize
    <2> QED BY <2>1, <2>2 DEF Behind, Caller, Authorize
  <1>2. CASE r # q
    <2>1. request'[r] = request[r] /\ (r \in outdated' => r \in outdated)
      BY <1>2 DEF Authorize, AccessTypeOK
    <2> QED BY <2>1, BehindKept DEF Authorize, AllBehind
  <1> QED BY <1>1, <1>2

\* Reading the snapshot changes nothing the grant is recognised by.
LEMMA BehindLoad ==
    ASSUME AccessTypeOK, AllBehind, NEW q \in Requests, LoadSnapshot(q), NEW r \in Requests
    PROVE  Behind(r)'
  <1>1. CASE r = q
    <2>1. request[r] \in Context
      BY <1>1, InUse DEF LoadSnapshot
    <2>2. /\ request'[r].session = request[r].session
          /\ request'[r].access_revision = request[r].access_revision
      BY <1>1, <2>1 DEF LoadSnapshot, AccessTypeOK, Context
    <2> QED BY <1>1, <2>2 DEF Behind, Caller, LoadSnapshot, AllBehind
  <1>2. CASE r # q
    <2>1. request'[r] = request[r]
      BY <1>2 DEF LoadSnapshot, AccessTypeOK
    <2> QED BY <2>1, BehindKept DEF LoadSnapshot, AllBehind
  <1> QED BY <1>1, <1>2

\* Every step of Access keeps every request behind.
LEMMA BehindNext ==
    ASSUME AccessTypeOK, AllBehind, AccessNext
    PROVE  AllBehind'
  <1> SUFFICES ASSUME NEW r \in Requests PROVE Behind(r)'
    BY DEF AllBehind
  <1>1. CASE \E s \in Sessions : Login(s) \/ Logout(s) \/ Expire(s)
    BY <1>1, BehindKept DEF Login, Logout, Expire, AllBehind
  <1>2. CASE \E q \in Requests, s \in Sessions : Authorize(q, s)
    BY <1>2, BehindAuthorize
  <1>3. CASE \E q \in Requests : LoadSnapshot(q)
    BY <1>3, BehindLoad
  <1>4. CASE \E q \in Requests : End(q)
    <2>1. request'[r] = request[r] \/ request'[r] = Idle
      BY <1>4 DEF End, AccessTypeOK
    <2> QED BY <1>4, <2>1, BehindKept DEF End, AllBehind
  <1>5. CASE \E q \in Requests, u \in Users, role \in Granted : SetMember(q, u, role)
    BY <1>5, BehindSet
  <1>6. CASE \E q \in Requests, u \in Users : RemoveMember(q, u)
    BY <1>6, BehindRemove
  <1> QED BY <1>1, <1>2, <1>3, <1>4, <1>5, <1>6, AccessNext DEF AccessNext

\* What is behind is not accepted.
LEMMA BehindSuffices ==
    ASSUME AccessTypeOK, AllBehind
    PROVE  GrantCurrent
  <1> SUFFICES ASSUME NEW r \in outdated, request[r].phase # "idle", Accepted(r)
               PROVE  FALSE
    BY DEF GrantCurrent
  <1>1. r \in Requests /\ Caller(r) \in Users
    BY CallerIsUser DEF AccessTypeOK
  <1>2. members[Caller(r)].revision \in Nat
    BY <1>1 DEF AccessTypeOK
  <1> QED BY <1>1, <1>2 DEF AllBehind, Behind, Accepted

\* No transaction accepts a context of a grant that was changed or taken away since.
THEOREM GrantsStayCurrent == AccessSpec => []GrantCurrent
  <1>1. AccessInit => AllBehind
    BY DEF AccessInit, AllBehind, Behind, Idle
  <1>2. AccessTypeOK /\ AllBehind /\ [AccessNext]_accessVars => AllBehind'
    <2> SUFFICES ASSUME AccessTypeOK, AllBehind, [AccessNext]_accessVars PROVE AllBehind'
      OBVIOUS
    <2>1. CASE AccessNext
      BY <2>1, BehindNext
    <2>2. CASE UNCHANGED accessVars
      BY <2>2 DEF accessVars, AllBehind, Behind, Caller
    <2> QED BY <2>1, <2>2
  <1> QED BY <1>1, <1>2, BehindSuffices, AccessTypeCorrect, PTL DEF AccessSpec

-----------------------------------------------------------------------------
(* Chat: what a request does between two transactions. *)

\* An attempt that exists is well formed and points at a message.
LEMMA Row ==
    ASSUME TypeOK, NEW k \in Keys, attempt[k] # None
    PROVE  attempt[k] \in Attempt /\ attempt[k].turn \in DOMAIN turns[k]
  BY DEF TypeOK

\* Messages are numbered from 1.
LEMMA Messages ==
    ASSUME TypeOK, NEW k \in Keys
    PROVE  /\ turns[k] \in Seq(Turn)
           /\ DOMAIN turns[k] = 1 .. Len(turns[k])
           /\ Len(turns[k]) \in Nat
           /\ \A i \in DOMAIN turns[k] : turns[k][i] \in Turn
  <1>1. turns[k] \in Seq(Turn)
    BY DEF TypeOK
  <1> QED BY <1>1, LenProperties, ElementOfSeq

\* A handler that answers knows its key and its question.
LEMMA Asked ==
    ASSUME TypeOK, NEW r \in Requests, request[r].phase \in {"answering", "failing", "replied"}
    PROVE  call[r] \in Call /\ call[r].key \in Keys /\ call[r].question \in Questions
  BY DEF TypeOK, Call

\* Moving a request on keeps its context.
LEMMA PhaseMoves ==
    ASSUME AccessTypeOK, NEW r \in Requests, request[r].phase # "idle",
           NEW p \in Phase \ {"idle"}, request' = [request EXCEPT ![r].phase = p]
    PROVE  /\ request' \in [Requests -> Context \cup {Idle}]
           /\ request'[r].phase = p
           /\ request'[r].session = request[r].session
           /\ request'[r].role = request[r].role
           /\ request'[r].access_revision = request[r].access_revision
           /\ request'[r].generation = request[r].generation
           /\ \A q \in Requests : q # r => request'[q] = request[q]
  <1>1. request[r] \in Context
    BY InUse
  <1>2. [request[r] EXCEPT !.phase = p] \in Context
    BY <1>1 DEF Context
  <1>3. request' = [request EXCEPT ![r] = [request[r] EXCEPT !.phase = p]]
    BY DEF AccessTypeOK
  <1> QED BY <1>1, <1>2, <1>3 DEF AccessTypeOK, Context

\* An assistant message is available exactly while its answer is stored.
Shown(turn) == turn.assistant = "available" <=> turn.answer # None

\* Writing one message keeps the others.
LEMMA MessageWritten ==
    ASSUME TypeOK, NEW k \in Keys, NEW i \in DOMAIN turns[k], NEW turn \in Turn, Shown(turn),
           turns' = [turns EXCEPT ![k][i] = turn]
    PROVE  /\ turns' \in [Keys -> Seq(Turn)]
           /\ turns'[k][i] = turn
           /\ \A j \in Keys : DOMAIN turns'[j] = DOMAIN turns[j]
           /\ \A j \in Keys : j # k => turns'[j] = turns[j]
           /\ \A j \in Keys : \A m \in DOMAIN turns'[j] : Shown(turns'[j][m])
  <1>1. turns \in [Keys -> Seq(Turn)]
    BY DEF TypeOK
  <1>2. /\ [turns[k] EXCEPT ![i] = turn] \in Seq(Turn)
        /\ DOMAIN [turns[k] EXCEPT ![i] = turn] = DOMAIN turns[k]
        /\ \A j \in DOMAIN turns[k] :
               [turns[k] EXCEPT ![i] = turn][j] = IF j = i THEN turn ELSE turns[k][j]
    BY Messages, ExceptSeq
  <1>3. turns' = [turns EXCEPT ![k] = [turns[k] EXCEPT ![i] = turn]]
    BY <1>1
  <1>4. turns' \in [Keys -> Seq(Turn)]
    BY <1>1, <1>2, <1>3
  <1>5. turns'[k] = [turns[k] EXCEPT ![i] = turn] /\ \A j \in Keys : j # k => turns'[j] = turns[j]
    BY <1>1, <1>3
  <1>6. \A j \in Keys : \A m \in DOMAIN turns[j] : Shown(turns[j][m])
    BY DEF TypeOK, Shown
  <1> QED BY <1>2, <1>4, <1>5, <1>6

-----------------------------------------------------------------------------
\* The system starts with its types.
LEMMA TypeInit == Init => TypeOK
  <1> SUFFICES ASSUME Init PROVE TypeOK
    OBVIOUS
  <1>1. AccessTypeOK
    BY AccessTypeInit DEF Init
  <1>2. \A r \in Requests : request[r].phase = "idle"
    BY DEF Init, AccessInit, Idle
  <1>3. turns \in [Keys -> Seq(Turn)] /\ \A k \in Keys : DOMAIN turns[k] = {}
    BY EmptySeq DEF Init, ChatInit
  <1> QED BY <1>1, <1>2, <1>3 DEF Init, ChatInit, TypeOK

\* Access steps take no request into the middle of a chat.
LEMMA AccessPhases ==
    ASSUME AccessTypeOK, AccessNext, NEW r \in Requests
    PROVE  \/ request'[r] = request[r]
           \/ request'[r].phase \in {"idle", "authorizing", "ready"}
  <1>1. CASE \E s \in Sessions : Login(s) \/ Logout(s) \/ Expire(s)
    BY <1>1 DEF Login, Logout, Expire
  <1>2. CASE \E q \in Requests, s \in Sessions : Authorize(q, s)
    BY <1>2 DEF Authorize, AccessTypeOK
  <1>3. CASE \E q \in Requests : LoadSnapshot(q)
    <2>1. PICK q \in Requests : LoadSnapshot(q)
      BY <1>3
    <2>2. CASE q = r
      <3>1. request[r] \in Context
        BY <2>1, <2>2, InUse DEF LoadSnapshot
      <3>2. request'[r] = [request[r] EXCEPT !.phase = "ready", !.generation = corpus_generation]
        BY <2>1, <2>2 DEF LoadSnapshot, AccessTypeOK
      <3> QED BY <3>1, <3>2 DEF Context
    <2>3. CASE q # r
      BY <2>1, <2>3 DEF LoadSnapshot, AccessTypeOK
    <2> QED BY <2>2, <2>3
  <1>4. CASE \E q \in Requests : End(q)
    BY <1>4 DEF End, AccessTypeOK, Idle
  <1>5. CASE \E q \in Requests, u \in Users, role \in Granted : SetMember(q, u, role)
    BY <1>5 DEF SetMember, AccessTypeOK, Idle
  <1>6. CASE \E q \in Requests, u \in Users : RemoveMember(q, u)
    BY <1>6 DEF RemoveMember, AccessTypeOK, Idle
  <1> QED BY <1>1, <1>2, <1>3, <1>4, <1>5, <1>6, AccessNext DEF AccessNext

\* Types of everything but requests, grants and sessions.
LEMMA TypeAccess ==
    ASSUME TypeOK, RequestOrGrant
    PROVE  TypeOK'
  <1>1. AccessTypeOK'
    BY AccessTypeNext DEF TypeOK, RequestOrGrant
  <1>2. call' \in [Requests -> Call \cup {None}]
    BY DEF TypeOK, RequestOrGrant
  <1>3. ASSUME NEW r \in Requests, request'[r].phase \in {"answering", "failing", "replied"}
        PROVE  call'[r] # None
    <2>1. request'[r] = request[r]
      BY <1>3, AccessPhases DEF TypeOK, RequestOrGrant
    <2>2. call'[r] = call[r]
      BY <1>3 DEF RequestOrGrant
    <2> QED BY <1>3, <2>1, <2>2 DEF TypeOK
  <1>4. overtaken' \subseteq Requests
    BY DEF TypeOK, RequestOrGrant
  <1> QED BY <1>1, <1>2, <1>3, <1>4 DEF TypeOK, RequestOrGrant

\* A saved answer is returned.
LEMMA TypeReplay ==
    ASSUME TypeOK, NEW r \in Requests, NEW k \in Keys, NEW q \in Questions, Replay(r, k, q)
    PROVE  TypeOK'
  <1>1. AccessTypeOK /\ request[r].phase # "idle"
    BY DEF TypeOK, Replay, MayBegin
  <1>2. /\ request' \in [Requests -> Context \cup {Idle}]
        /\ \A p \in Requests : p # r => request'[p] = request[p]
    BY <1>1, PhaseMoves DEF Replay, Phase
  <1>3. AccessTypeOK'
    BY <1>1, <1>2 DEF AccessTypeOK, Replay
  <1>4. turns[k][attempt[k].turn].answer \in Answer
    <2>1. attempt[k].turn \in DOMAIN turns[k] /\ turns[k][attempt[k].turn].answer # None
      BY Row DEF Replay, Readable
    <2> QED BY <2>1, Messages DEF Turn
  <1>5. [key |-> k, question |-> q, attempt |-> 0,
         reply |-> turns[k][attempt[k].turn].answer.question] \in Call
    BY <1>4 DEF Call, Answer
  <1>6. /\ call' \in [Requests -> Call \cup {None}] /\ call'[r] # None
        /\ \A p \in Requests : p # r => call'[p] = call[p]
    BY <1>5, NoneAssumption DEF TypeOK, Replay
  <1> QED BY <1>2, <1>3, <1>6 DEF TypeOK, Replay

\* The attempt begin_chat stores: a new identity, running, for this question.
LEMMA NewAttempt ==
    ASSUME TypeOK, NEW r \in Requests, NEW k \in Keys, NEW q \in Questions, BeginChat(r, k, q)
    PROVE  /\ attempt'[k] \in Attempt
           /\ attempt'[k] # None
           /\ attempt'[k].id = issued[k] + 1
           /\ attempt'[k].state = "running"
           /\ attempt'[k].overdue = FALSE
           /\ attempt'[k].question = q
           /\ attempt'[k].turn = IF attempt[k] = None THEN Len(turns[k]) + 1 ELSE attempt[k].turn
           /\ attempt' = [attempt EXCEPT ![k] = attempt'[k]]
           /\ issued' = [issued EXCEPT ![k] = issued[k] + 1]
           /\ issued[k] \in Nat
  <1> DEFINE i == IF attempt[k] = None THEN Len(turns[k]) + 1 ELSE attempt[k].turn
             row == [id |-> issued[k] + 1, state |-> "running", overdue |-> FALSE,
                     retryable |-> TRUE, question |-> q, turn |-> i,
                     generation |-> corpus_generation,
                     access_revision |-> request[r].access_revision]
  <1>1. issued[k] \in Nat /\ corpus_generation \in Nat /\ request[r].access_revision \in Nat
    BY InUse DEF TypeOK, AccessTypeOK, Context, BeginChat, MayBegin
  <1>2. i \in Nat \ {0}
    BY Row, Messages DEF Attempt
  <1>3. row \in Attempt
    BY <1>1, <1>2 DEF Attempt
  <1>4. attempt' = [attempt EXCEPT ![k] = row]
    BY DEF BeginChat
  <1>5. attempt'[k] = row
    BY <1>4 DEF TypeOK
  <1>6. issued' = [issued EXCEPT ![k] = issued[k] + 1]
    BY DEF BeginChat, TypeOK
  <1>7. /\ row.id = issued[k] + 1
        /\ row.state = "running"
        /\ row.overdue = FALSE
        /\ row.question = q
        /\ row.turn = IF attempt[k] = None THEN Len(turns[k]) + 1 ELSE attempt[k].turn
    OBVIOUS
  <1> HIDE DEF row
  <1> QED BY <1>1, <1>3, <1>4, <1>5, <1>6, <1>7, NoneAssumption

\* A key is reserved; its message is new or the one of the attempt before.
LEMMA TypeBeginChat ==
    ASSUME TypeOK, NEW r \in Requests, NEW k \in Keys, NEW q \in Questions, BeginChat(r, k, q)
    PROVE  TypeOK'
  <1> DEFINE i == IF attempt[k] = None THEN Len(turns[k]) + 1 ELSE attempt[k].turn
             asked == [key |-> k, question |-> q, attempt |-> issued[k] + 1, reply |-> None]
  <1>1. AccessTypeOK /\ request[r].phase # "idle"
    BY DEF TypeOK, BeginChat, MayBegin
  <1>2. /\ request' \in [Requests -> Context \cup {Idle}]
        /\ \A p \in Requests : p # r => request'[p] = request[p]
    BY <1>1, PhaseMoves DEF BeginChat, Phase
  <1>3. AccessTypeOK'
    BY <1>1, <1>2 DEF AccessTypeOK, BeginChat
  <1>4. attempt'[k].turn = i
    BY NewAttempt
  <1>5. asked \in Call /\ call' = [call EXCEPT ![r] = asked]
    <2>1. issued[k] \in Nat
      BY NewAttempt
    <2> QED BY <2>1 DEF Call, BeginChat
  <1>6. Pending \in Turn /\ Shown(Pending)
    BY DEF Pending, Turn, Shown
  <1>7. /\ turns' \in [Keys -> Seq(Turn)]
        /\ attempt'[k].turn \in DOMAIN turns'[k]
        /\ \A j \in Keys \ {k} : turns'[j] = turns[j]
        /\ \A j \in Keys : \A m \in DOMAIN turns'[j] : Shown(turns'[j][m])
    <2>1. CASE attempt[k] = None
      <3>1. turns' = [turns EXCEPT ![k] = Append(turns[k], Pending)]
        BY <2>1 DEF BeginChat
      <3>2. /\ Append(turns[k], Pending) \in Seq(Turn)
            /\ Len(Append(turns[k], Pending)) = Len(turns[k]) + 1
            /\ DOMAIN Append(turns[k], Pending) = 1 .. Len(turns[k]) + 1
            /\ \A m \in 1 .. Len(turns[k]) : Append(turns[k], Pending)[m] = turns[k][m]
            /\ Append(turns[k], Pending)[Len(turns[k]) + 1] = Pending
        BY <1>6, Messages, AppendProperties, LenProperties
      <3>3. \A m \in DOMAIN Append(turns[k], Pending) : Shown(Append(turns[k], Pending)[m])
        BY <1>6, <3>2, Messages DEF TypeOK, Shown
      <3> QED BY <1>4, <2>1, <3>1, <3>2, <3>3, Messages DEF TypeOK, Shown
    <2>2. CASE attempt[k] # None
      <3>1. i \in DOMAIN turns[k]
        BY <2>2, Row
      <3>2. turns' = [turns EXCEPT ![k][i] = Pending]
        BY <2>2 DEF BeginChat, TypeOK
      <3> HIDE DEF i
      <3> QED BY <1>4, <1>6, <3>1, <3>2, MessageWritten
    <2> QED BY <2>1, <2>2
  <1> HIDE DEF i, asked
  <1>8. attempt' \in [Keys -> Attempt \cup {None}] /\ issued' \in [Keys -> Nat]
    <2>1. /\ attempt'[k] \in Attempt
          /\ attempt' = [attempt EXCEPT ![k] = attempt'[k]]
          /\ issued' = [issued EXCEPT ![k] = issued[k] + 1]
          /\ issued[k] \in Nat
      BY NewAttempt
    <2>2. attempt \in [Keys -> Attempt \cup {None}] /\ issued \in [Keys -> Nat]
      BY DEF TypeOK
    <2> QED BY <2>1, <2>2
  <1>9. \A j \in Keys : attempt'[j] # None => attempt'[j].turn \in DOMAIN turns'[j]
    <2>1. \A j \in Keys \ {k} : attempt'[j] = attempt[j]
      BY DEF BeginChat, TypeOK
    <2> QED BY <1>7, <2>1 DEF TypeOK
  <1>10. /\ call' \in [Requests -> Call \cup {None}]
         /\ call'[r] # None
         /\ \A p \in Requests : p # r => call'[p] = call[p]
    BY <1>5, NoneAssumption DEF TypeOK
  <1>11. UNCHANGED <<cleanup, overtaken>>
    BY DEF BeginChat
  <1>12. \A p \in Requests :
             request'[p].phase \in {"answering", "failing", "replied"} => call'[p] # None
    BY <1>2, <1>10 DEF TypeOK
  <1>13. cleanup' \in {"none", "accepted", "sanitized"} /\ overtaken' \subseteq Requests
    BY <1>11 DEF TypeOK
  <1>14. \A j \in Keys : \A m \in DOMAIN turns'[j] :
             turns'[j][m].assistant = "available" <=> turns'[j][m].answer # None
    BY <1>7 DEF Shown
  <1> QED BY <1>3, <1>7, <1>8, <1>9, <1>10, <1>12, <1>13, <1>14 DEF TypeOK

\* The answer is stored with its message and its attempt completed.
LEMMA TypeRelease ==
    ASSUME TypeOK, NEW r \in Requests, Release(r)
    PROVE  TypeOK'
  <1> DEFINE k == call[r].key
             turn == [user |-> "available", assistant |-> "available",
                      answer |-> [by |-> call[r].attempt, question |-> call[r].question,
                                  generation |-> request[r].generation, valid |-> TRUE]]
  <1>1. AccessTypeOK /\ request[r].phase # "idle"
    BY DEF TypeOK, Release
  <1>2. /\ request' \in [Requests -> Context \cup {Idle}]
        /\ \A p \in Requests : p # r => request'[p] = request[p]
    BY <1>1, PhaseMoves DEF Release, Phase
  <1>3. AccessTypeOK'
    BY <1>1, <1>2 DEF AccessTypeOK, Release
  <1>4. call[r] \in Call /\ k \in Keys
    BY Asked DEF Release
  <1>5. attempt[k] \in Attempt /\ attempt[k].turn \in DOMAIN turns[k]
    BY <1>4, Row DEF Release, Holds
  <1>6. turn.answer \in Answer
    BY <1>1, <1>4, InUse DEF Answer, Call, Context
  <1>7. turn \in Turn /\ Shown(turn)
    BY <1>6, NoneAssumption DEF Turn, Shown
  <1>8. turns' = [turns EXCEPT ![k][attempt[k].turn] = turn]
    BY DEF Release
  <1>9. attempt' = [attempt EXCEPT ![k] = [attempt[k] EXCEPT !.state = "completed"]]
    BY <1>4 DEF Release, TypeOK
  <1>10. call' = [call EXCEPT ![r] = [call[r] EXCEPT !.reply = call[r].question]]
    BY DEF Release, TypeOK
  <1>11. [call[r] EXCEPT !.reply = call[r].question] \in Call
    BY <1>4 DEF Call
  <1> HIDE DEF k, turn
  <1>12. /\ turns' \in [Keys -> Seq(Turn)]
         /\ \A j \in Keys : DOMAIN turns'[j] = DOMAIN turns[j]
         /\ \A j \in Keys : \A m \in DOMAIN turns'[j] : Shown(turns'[j][m])
    BY <1>4, <1>5, <1>7, <1>8, MessageWritten
  <1>13. /\ attempt' \in [Keys -> Attempt \cup {None}]
         /\ \A j \in Keys : attempt'[j] # None => attempt'[j].turn \in DOMAIN turns'[j]
    <2>1. /\ [attempt[k] EXCEPT !.state = "completed"] \in Attempt
          /\ [attempt[k] EXCEPT !.state = "completed"].turn = attempt[k].turn
      BY <1>5 DEF Attempt
    <2> QED BY <1>4, <1>5, <1>9, <1>12, <2>1 DEF TypeOK
  <1>14. /\ call' \in [Requests -> Call \cup {None}]
         /\ call'[r] # None
         /\ \A p \in Requests : p # r => call'[p] = call[p]
    BY <1>10, <1>11, NoneAssumption DEF TypeOK
  <1> QED BY <1>2, <1>3, <1>12, <1>13, <1>14 DEF TypeOK, Release, Shown

\* The attempt failed and so did its message.
LEMMA TypeFailChat ==
    ASSUME TypeOK, NEW r \in Requests, NEW retryable \in BOOLEAN, FailChat(r, retryable)
    PROVE  TypeOK'
  <1> DEFINE k == call[r].key
             turn == [turns[k][attempt[k].turn] EXCEPT !.user = "failed"]
             row == [attempt[k] EXCEPT !.state = "failed", !.retryable = retryable]
  <1>1. AccessTypeOK'
    BY DEF TypeOK, FailChat, AccessTypeOK
  <1>2. k \in Keys
    BY Asked DEF FailChat
  <1>3. attempt[k] \in Attempt /\ attempt[k].turn \in DOMAIN turns[k]
    BY <1>2, Row DEF FailChat, Holds
  <1>4. turn \in Turn /\ Shown(turn)
    <2>1. turns[k][attempt[k].turn] \in Turn /\ Shown(turns[k][attempt[k].turn])
      BY <1>2, <1>3, Messages DEF Shown, TypeOK
    <2> QED BY <2>1 DEF Turn, Shown
  <1>5. turns' = [turns EXCEPT ![k][attempt[k].turn] = turn]
    BY <1>2, <1>3, Messages DEF FailChat, TypeOK
  <1>6. attempt' = [attempt EXCEPT ![k] = row]
    BY <1>2 DEF FailChat, TypeOK
  <1>7. row \in Attempt /\ row.turn = attempt[k].turn
    BY <1>3 DEF Attempt
  <1>8. call' \in [Requests -> Call \cup {None}] /\ overtaken' \subseteq Requests
    BY DEF FailChat, TypeOK
  <1>9. ASSUME NEW p \in Requests, request'[p].phase \in {"answering", "failing", "replied"}
        PROVE  call'[p] # None
    BY <1>9 DEF FailChat, TypeOK, AccessTypeOK, Idle
  <1> HIDE DEF k, turn, row
  <1>10. /\ turns' \in [Keys -> Seq(Turn)]
         /\ \A j \in Keys : DOMAIN turns'[j] = DOMAIN turns[j]
         /\ \A j \in Keys : \A m \in DOMAIN turns'[j] : Shown(turns'[j][m])
    BY <1>2, <1>3, <1>4, <1>5, MessageWritten
  <1>11. /\ attempt' \in [Keys -> Attempt \cup {None}]
         /\ \A j \in Keys : attempt'[j] # None => attempt'[j].turn \in DOMAIN turns'[j]
    BY <1>2, <1>3, <1>6, <1>7, <1>10 DEF TypeOK
  <1> QED BY <1>1, <1>8, <1>9, <1>10, <1>11 DEF TypeOK, FailChat, Shown

\* An attempt is overdue.
LEMMA TypeDeadline ==
    ASSUME TypeOK, NEW k \in Keys, Deadline(k)
    PROVE  TypeOK'
  <1> DEFINE row == [attempt[k] EXCEPT !.overdue = TRUE]
  <1>1. row \in Attempt /\ row.turn = attempt[k].turn
    BY Row DEF Deadline, Attempt
  <1>2. attempt' = [attempt EXCEPT ![k] = row]
    BY DEF Deadline, TypeOK
  <1> HIDE DEF row
  <1>3. /\ attempt' \in [Keys -> Attempt \cup {None}]
        /\ \A j \in Keys : attempt'[j] # None => attempt'[j].turn \in DOMAIN turns[j]
    BY <1>1, <1>2, Row DEF TypeOK, Deadline
  <1>4. UNCHANGED <<turns, call, request, issued, cleanup, overtaken>> /\ AccessTypeOK'
    BY DEF Deadline, accessVars, TypeOK, AccessTypeOK
  <1> QED BY <1>3, <1>4 DEF TypeOK

\* Marking answers invalid keeps the messages and whose answers they show.
LEMMA MessagesInvalidated ==
    ASSUME TypeOK, Invalidate
    PROVE  /\ turns' \in [Keys -> Seq(Turn)]
           /\ \A k \in Keys : DOMAIN turns'[k] = DOMAIN turns[k]
           /\ \A k \in Keys : \A i \in DOMAIN turns[k] :
                  /\ turns'[k][i] = Invalidated(turns[k][i])
                  /\ Shown(turns'[k][i])
  <1>1. ASSUME NEW turn \in Turn, Shown(turn)
        PROVE  Invalidated(turn) \in Turn /\ Shown(Invalidated(turn))
    <2>1. CASE turn.answer = None
      BY <1>1, <2>1 DEF Invalidated
    <2>2. CASE turn.answer # None
      <3>1. turn.answer \in Answer
        BY <1>1, <2>2 DEF Turn
      <3>2. [turn.answer EXCEPT !.valid = FALSE] \in Answer
        BY <3>1 DEF Answer
      <3>3. Invalidated(turn) = [turn EXCEPT !.answer = [turn.answer EXCEPT !.valid = FALSE]]
        BY <1>1, <2>2 DEF Invalidated, Turn
      <3>4. Invalidated(turn) \in Turn /\ Invalidated(turn).answer # None
        BY <1>1, <3>2, <3>3, NoneAssumption DEF Turn
      <3>5. Invalidated(turn).assistant = turn.assistant
        BY <1>1, <3>3 DEF Turn
      <3> QED BY <1>1, <2>2, <3>4, <3>5 DEF Shown
    <2> QED BY <2>1, <2>2
  <1>2. ASSUME NEW k \in Keys, NEW i \in DOMAIN turns[k]
        PROVE  turns[k][i] \in Turn /\ Shown(turns[k][i])
    BY <1>2, Messages DEF TypeOK, Shown
  <1>3. \A k \in Keys : turns'[k] = [i \in DOMAIN turns[k] |-> Invalidated(turns[k][i])]
    BY DEF Invalidate
  <1>4. ASSUME NEW k \in Keys
        PROVE  turns'[k] \in Seq(Turn)
    <2>1. turns'[k] \in [1 .. Len(turns[k]) -> Turn] /\ Len(turns[k]) \in Nat
      BY <1>1, <1>2, <1>3, Messages
    <2> QED BY <2>1, SeqDef
  <1>5. turns' \in [Keys -> Seq(Turn)]
    BY <1>4 DEF Invalidate
  <1>6. \A k \in Keys : \A i \in DOMAIN turns[k] : turns'[k][i] = Invalidated(turns[k][i])
    BY <1>3
  <1> QED BY <1>1, <1>2, <1>3, <1>5, <1>6

\* An invalidation keeps the types.
LEMMA TypeInvalidate ==
    ASSUME TypeOK, Invalidate, cleanup' \in {"none", "accepted", "sanitized"},
           UNCHANGED <<session, members, access_epochs, request, outdated, call, attempt, issued>>
    PROVE  TypeOK'
  <1>1. AccessTypeOK'
    BY DEF TypeOK, AccessTypeOK, Invalidate, NextGeneration
  <1>2. overtaken' \subseteq Requests
    BY DEF Invalidate
  <1> QED BY <1>1, <1>2, MessagesInvalidated DEF TypeOK, Shown

\* The sanitizing pass erases what it is there to erase.
LEMMA TypeSanitize ==
    ASSUME TypeOK, Sanitize
    PROVE  TypeOK'
  <1>1. ASSUME NEW turn \in Turn, Shown(turn)
        PROVE  Erased(turn) \in Turn /\ Shown(Erased(turn))
    BY <1>1 DEF Erased, Turn, Shown
  <1>2. ASSUME NEW k \in Keys, NEW i \in DOMAIN turns[k]
        PROVE  turns[k][i] \in Turn /\ Shown(turns[k][i])
    BY <1>2, Messages DEF TypeOK, Shown
  <1>3. \A k \in Keys : turns'[k] = [i \in DOMAIN turns[k] |-> Erased(turns[k][i])]
    BY DEF Sanitize
  <1>4. ASSUME NEW k \in Keys
        PROVE  turns'[k] \in Seq(Turn)
    <2>1. turns'[k] \in [1 .. Len(turns[k]) -> Turn] /\ Len(turns[k]) \in Nat
      BY <1>1, <1>2, <1>3, Messages
    <2> QED BY <2>1, SeqDef
  <1>5. turns' \in [Keys -> Seq(Turn)]
    BY <1>4 DEF Sanitize
  <1>6. \A k \in Keys : \A i \in DOMAIN turns'[k] : Shown(turns'[k][i])
    BY <1>1, <1>2, <1>3
  <1>7. attempt' \in [Keys -> Attempt \cup {None}] /\ \A k \in Keys : attempt'[k] = None
    BY DEF Sanitize
  <1>8. AccessTypeOK' /\ UNCHANGED <<request, call, issued, overtaken>>
    BY DEF Sanitize, accessVars, TypeOK, AccessTypeOK
  <1>9. cleanup' = "sanitized"
    BY DEF Sanitize
  <1> QED BY <1>5, <1>6, <1>7, <1>8, <1>9 DEF TypeOK, Shown

\* Every step keeps the types.
LEMMA TypeNext ==
    ASSUME TypeOK, Next
    PROVE  TypeOK'
  <1>1. CASE RequestOrGrant
    BY <1>1, TypeAccess
  <1>2. CASE \E r \in Requests, k \in Keys, q \in Questions : Replay(r, k, q) \/ BeginChat(r, k, q)
    BY <1>2, TypeReplay, TypeBeginChat
  <1>3. CASE \E r \in Requests : Release(r)
    BY <1>3, TypeRelease
  <1>4. CASE \E r \in Requests, retryable \in BOOLEAN : FailChat(r, retryable)
    BY <1>4, TypeFailChat
  <1>5. CASE \E k \in Keys : Deadline(k)
    BY <1>5, TypeDeadline
  <1>6. CASE EvidenceChanges
    BY <1>6, TypeInvalidate DEF EvidenceChanges, TypeOK
  <1>7. CASE AcceptCleanup
    BY <1>7, TypeInvalidate DEF AcceptCleanup
  <1>8. CASE Sanitize
    BY <1>8, TypeSanitize
  <1>9. CASE FinishCleanup
    <2>1. CASE Invalidate
      BY <1>9, <2>1, TypeInvalidate DEF FinishCleanup
    <2>2. CASE UNCHANGED <<corpus_generation, turns, overtaken>>
      BY <1>9, <2>2 DEF FinishCleanup, TypeOK, AccessTypeOK
    <2> QED BY <1>9, <2>1, <2>2 DEF FinishCleanup
  <1> QED BY <1>1, <1>2, <1>3, <1>4, <1>5, <1>6, <1>7, <1>8, <1>9, Next DEF Next

\* Every variable keeps its type, attempts point at messages and answers are shown.
THEOREM TypeCorrect == Spec => []TypeOK
  <1>1. TypeOK /\ [Next]_vars => TypeOK'
    <2> SUFFICES ASSUME TypeOK, [Next]_vars PROVE TypeOK'
      OBVIOUS
    <2>1. CASE Next
      BY <2>1, TypeNext
    <2>2. CASE UNCHANGED vars
      BY <2>2 DEF vars, accessVars, chatVars, TypeOK, AccessTypeOK
    <2> QED BY <2>1, <2>2
  <1> QED BY <1>1, TypeInit, PTL DEF Spec

-----------------------------------------------------------------------------
\* The values the mapping gives Reservation's variables at one key.
Holder(k) == IF Running(k) THEN attempt[k].id ELSE 0
Expired(k) == Running(k) /\ attempt[k].overdue
Answered(k) == IF Completed(k) THEN turns[k][attempt[k].turn].answer.by ELSE 0

\* Chat begins where Reservation begins.
LEMMA PromiseInit == Init => Promise!Init
  <1> SUFFICES ASSUME Init PROVE Promise!Init
    OBVIOUS
  <1>1. \A k \in Keys : ~Running(k) /\ ~Completed(k)
    BY DEF Init, ChatInit, Running, Completed
  <1>2. cleanup = "none" /\ issued = [k \in Keys |-> 0]
    BY DEF Init, ChatInit
  <1> QED BY <1>1, <1>2 DEF Promise!Init, write_barrier

\* A step that leaves attempts, answers and the barrier alone is invisible.
LEMMA Invisible ==
    ASSUME UNCHANGED <<issued, cleanup>>,
           \A k \in Keys : Holder(k)' = Holder(k) /\ Expired(k)' = Expired(k)
                           /\ Answered(k)' = Answered(k)
    PROVE  UNCHANGED Promise!promiseVars
  BY DEF Promise!promiseVars, Holder, Expired, Answered, write_barrier

\* Unchanged rows map to unchanged values.
LEMMA RowsKept ==
    ASSUME UNCHANGED <<attempt, turns>>
    PROVE  \A k \in Keys : Holder(k)' = Holder(k) /\ Expired(k)' = Expired(k)
                           /\ Answered(k)' = Answered(k)
  BY DEF Holder, Expired, Answered, Running, Completed

\* A new attempt is a reservation.
LEMMA BeginReserves ==
    ASSUME TypeOK, NEW r \in Requests, NEW k \in Keys, NEW q \in Questions, BeginChat(r, k, q)
    PROVE  Promise!Reserve(k)
  <1>1. ~write_barrier /\ write_barrier' = write_barrier
    BY DEF BeginChat, MayBegin, write_barrier
  <1>2. Answered(k) = 0 /\ (Holder(k) = 0 \/ Expired(k))
    BY DEF BeginChat, MayRepeat, Answered, Holder, Expired, Running, Completed
  <1>3. \A j \in Keys \ {k} : attempt'[j] = attempt[j] /\ turns'[j] = turns[j]
    BY DEF BeginChat, TypeOK
  <1>4. Running(k)' /\ ~Completed(k)'
    BY NewAttempt DEF Running, Completed
  <1>5. Holder(k)' = issued[k] + 1 /\ Expired(k)' = FALSE /\ Answered(k)' = 0
    BY <1>4, NewAttempt DEF Holder, Expired, Answered
  <1>6. \A j \in Keys \ {k} : /\ Holder(j)' = Holder(j)
                              /\ Expired(j)' = Expired(j)
                              /\ Answered(j)' = Answered(j)
    BY <1>3 DEF Holder, Expired, Answered, Running, Completed
  <1>7. /\ [j \in Keys |-> Holder(j)]' = [[j \in Keys |-> Holder(j)] EXCEPT ![k] = issued[k] + 1]
        /\ [j \in Keys |-> Expired(j)]' = [[j \in Keys |-> Expired(j)] EXCEPT ![k] = FALSE]
        /\ [j \in Keys |-> Answered(j)]' = [j \in Keys |-> Answered(j)]
    BY <1>2, <1>5, <1>6
  <1>8. issued' = [issued EXCEPT ![k] = issued[k] + 1]
    BY NewAttempt
  <1> QED BY <1>1, <1>2, <1>7, <1>8 DEF Promise!Reserve, Holder, Expired, Answered

\* A release is an answer of who holds the key.
LEMMA ReleaseAnswers ==
    ASSUME TypeOK, NEW r \in Requests, Release(r)
    PROVE  \E k \in Keys : Promise!Answer(k)
  <1>1. PICK k \in Keys : k = call[r].key
    BY Asked DEF Release
  <1>2. /\ attempt[k] \in Attempt /\ attempt[k].turn \in DOMAIN turns[k]
        /\ attempt[k] # None /\ attempt[k].state = "running" /\ ~attempt[k].overdue
        /\ attempt[k].id = call[r].attempt
    BY <1>1, Row DEF Release, Holds
  <1>3. ~write_barrier /\ UNCHANGED <<write_barrier, issued>>
    BY DEF Release, write_barrier
  <1>4. Holder(k) = attempt[k].id /\ Holder(k) # 0 /\ ~Expired(k)
    BY <1>2 DEF Holder, Expired, Running, Attempt
  <1>5. /\ attempt'[k] = [attempt[k] EXCEPT !.state = "completed"]
        /\ \A j \in Keys \ {k} : attempt'[j] = attempt[j]
    BY <1>1 DEF Release, TypeOK
  <1>6. attempt'[k] # None /\ attempt'[k].state = "completed" /\ attempt'[k].turn = attempt[k].turn
    <2>1. attempt'[k] \in Attempt
      BY <1>2, <1>5 DEF Attempt
    <2> QED BY <1>2, <1>5, <2>1, NoneAssumption DEF Attempt
  <1>7. /\ turns'[k][attempt[k].turn].answer.by = call[r].attempt
        /\ \A j \in Keys \ {k} : turns'[j] = turns[j]
    <2>1. turns \in [Keys -> Seq(Turn)]
      BY DEF TypeOK
    <2>2. PICK turn : /\ turn.answer.by = call[r].attempt
                      /\ turns' = [turns EXCEPT ![k][attempt[k].turn] = turn]
      BY <1>1 DEF Release
    <2>3. turns'[k] = [turns[k] EXCEPT ![attempt[k].turn] = turn]
      BY <2>1, <2>2
    <2>4. turns'[k][attempt[k].turn] = turn
      BY <1>2, <2>3
    <2> QED BY <2>1, <2>2, <2>4
  <1>8. ~Running(k)' /\ Completed(k)'
    BY <1>6 DEF Running, Completed
  <1>9. Holder(k)' = 0 /\ Expired(k)' = FALSE /\ Answered(k)' = Holder(k)
    BY <1>2, <1>4, <1>6, <1>7, <1>8 DEF Holder, Expired, Answered
  <1>10. \A j \in Keys \ {k} : /\ Holder(j)' = Holder(j)
                               /\ Expired(j)' = Expired(j)
                               /\ Answered(j)' = Answered(j)
    BY <1>5, <1>7 DEF Holder, Expired, Answered, Running, Completed
  <1>11. Expired(k) = FALSE
    BY <1>4, <1>2 DEF Expired, Running, Attempt
  <1>12. /\ [j \in Keys |-> Holder(j)]' = [[j \in Keys |-> Holder(j)] EXCEPT ![k] = 0]
         /\ [j \in Keys |-> Expired(j)]' = [j \in Keys |-> Expired(j)]
         /\ [j \in Keys |-> Answered(j)]' =
                [[j \in Keys |-> Answered(j)] EXCEPT ![k] = Holder(k)]
    BY <1>9, <1>10, <1>11
  <1>13. Promise!Answer(k)
    BY <1>1, <1>3, <1>4, <1>12 DEF Promise!Answer, Holder, Expired, Answered
  <1> QED BY <1>1, <1>13

\* A reported failure gives the reservation up.
LEMMA FailGivesUp ==
    ASSUME TypeOK, NEW r \in Requests, NEW retryable \in BOOLEAN, FailChat(r, retryable)
    PROVE  \E k \in Keys : Promise!GiveUp(k)
  <1>1. PICK k \in Keys : k = call[r].key
    BY Asked DEF FailChat
  <1>2. /\ attempt[k] \in Attempt /\ attempt[k].turn \in DOMAIN turns[k]
        /\ attempt[k] # None /\ attempt[k].state = "running" /\ ~attempt[k].overdue
    BY <1>1, Row DEF FailChat, Holds
  <1>3. UNCHANGED <<write_barrier, issued>>
    BY DEF FailChat, write_barrier
  <1>4. Holder(k) # 0 /\ Expired(k) = FALSE /\ Answered(k) = 0
    BY <1>2 DEF Holder, Expired, Answered, Running, Completed, Attempt
  <1>5. /\ attempt'[k] = [attempt[k] EXCEPT !.state = "failed", !.retryable = retryable]
        /\ \A j \in Keys \ {k} : attempt'[j] = attempt[j] /\ turns'[j] = turns[j]
    BY <1>1 DEF FailChat, TypeOK
  <1>6. attempt'[k].state = "failed"
    BY <1>2, <1>5 DEF Attempt
  <1>7. Holder(k)' = 0 /\ Expired(k)' = FALSE /\ Answered(k)' = 0
    BY <1>6 DEF Holder, Expired, Answered, Running, Completed
  <1>8. \A j \in Keys \ {k} : /\ Holder(j)' = Holder(j)
                              /\ Expired(j)' = Expired(j)
                              /\ Answered(j)' = Answered(j)
    BY <1>5 DEF Holder, Expired, Answered, Running, Completed
  <1>9. /\ [j \in Keys |-> Holder(j)]' = [[j \in Keys |-> Holder(j)] EXCEPT ![k] = 0]
        /\ [j \in Keys |-> Expired(j)]' = [j \in Keys |-> Expired(j)]
        /\ [j \in Keys |-> Answered(j)]' = [j \in Keys |-> Answered(j)]
    BY <1>4, <1>7, <1>8
  <1>10. Promise!GiveUp(k)
    BY <1>3, <1>4, <1>9 DEF Promise!GiveUp, Holder, Expired, Answered
  <1> QED BY <1>10

\* A deadline ends the time of the reservation.
LEMMA DeadlineTimesOut ==
    ASSUME TypeOK, NEW k \in Keys, Deadline(k)
    PROVE  Promise!TimeOut(k)
  <1>1. attempt[k] \in Attempt /\ attempt[k] # None /\ attempt[k].state = "running"
    BY Row DEF Deadline
  <1>2. UNCHANGED <<write_barrier, issued, turns>>
    BY DEF Deadline, write_barrier
  <1>3. Holder(k) # 0 /\ Holder(k) = attempt[k].id /\ Answered(k) = 0
    BY <1>1 DEF Holder, Answered, Running, Completed, Attempt
  <1>4. /\ attempt'[k] = [attempt[k] EXCEPT !.overdue = TRUE]
        /\ \A j \in Keys \ {k} : attempt'[j] = attempt[j]
    BY DEF Deadline, TypeOK
  <1>5. /\ attempt'[k] \in Attempt
        /\ attempt'[k].state = "running"
        /\ attempt'[k].id = attempt[k].id
        /\ attempt'[k].overdue = TRUE
    BY <1>1, <1>4 DEF Attempt
  <1>6. attempt'[k] # None
    BY <1>5, NoneAssumption
  <1>7. Holder(k)' = Holder(k) /\ Expired(k)' = TRUE /\ Answered(k)' = Answered(k)
    BY <1>3, <1>5, <1>6 DEF Holder, Expired, Answered, Running, Completed
  <1>8. \A j \in Keys \ {k} : /\ Holder(j)' = Holder(j)
                              /\ Expired(j)' = Expired(j)
                              /\ Answered(j)' = Answered(j)
    BY <1>2, <1>4 DEF Holder, Expired, Answered, Running, Completed
  <1>9. /\ [j \in Keys |-> Holder(j)]' = [j \in Keys |-> Holder(j)]
        /\ [j \in Keys |-> Expired(j)]' = [[j \in Keys |-> Expired(j)] EXCEPT ![k] = TRUE]
        /\ [j \in Keys |-> Answered(j)]' = [j \in Keys |-> Answered(j)]
    BY <1>7, <1>8
  <1> QED BY <1>2, <1>3, <1>9 DEF Promise!TimeOut, Holder, Expired, Answered

\* An invalidation does not change who answered.
LEMMA InvalidationInvisible ==
    ASSUME TypeOK, Invalidate, UNCHANGED attempt
    PROVE  \A k \in Keys : Holder(k)' = Holder(k) /\ Expired(k)' = Expired(k)
                           /\ Answered(k)' = Answered(k)
  <1> SUFFICES ASSUME NEW k \in Keys
               PROVE  Holder(k)' = Holder(k) /\ Expired(k)' = Expired(k)
                      /\ Answered(k)' = Answered(k)
    OBVIOUS
  <1>1. Holder(k)' = Holder(k) /\ Expired(k)' = Expired(k) /\ Completed(k)' = Completed(k)
    BY DEF Holder, Expired, Running, Completed
  <1>2. CASE Completed(k)
    <2> DEFINE turn == turns[k][attempt[k].turn]
    <2>1. attempt[k].turn \in DOMAIN turns[k]
      BY <1>2, Row DEF Completed
    <2>2. turn \in Turn /\ turns'[k][attempt[k].turn] = Invalidated(turn)
      BY <2>1, Messages, MessagesInvalidated
    <2>3. Invalidated(turn).answer.by = turn.answer.by
      <3>1. CASE turn.answer = None
        BY <3>1 DEF Invalidated
      <3>2. CASE turn.answer # None
        <4>1. turn.answer \in Answer
          BY <2>2, <3>2 DEF Turn
        <4>2. Invalidated(turn).answer = [turn.answer EXCEPT !.valid = FALSE]
          BY <2>2, <3>2 DEF Invalidated, Turn
        <4> QED BY <4>1, <4>2 DEF Answer
      <3> QED BY <3>1, <3>2
    <2> QED BY <1>1, <1>2, <2>2, <2>3 DEF Answered
  <1>3. CASE ~Completed(k)
    BY <1>1, <1>3 DEF Answered
  <1> QED BY <1>1, <1>2, <1>3

\* An accepted cleanup closes.
LEMMA AcceptCloses ==
    ASSUME TypeOK, AcceptCleanup
    PROVE  Promise!Close
  <1>1. ~write_barrier /\ write_barrier' = TRUE /\ UNCHANGED issued
    BY DEF AcceptCleanup, write_barrier
  <1>2. \A k \in Keys : Holder(k)' = Holder(k) /\ Expired(k)' = Expired(k)
                        /\ Answered(k)' = Answered(k)
    BY InvalidationInvisible DEF AcceptCleanup
  <1>3. /\ [j \in Keys |-> Holder(j)]' = [j \in Keys |-> Holder(j)]
        /\ [j \in Keys |-> Expired(j)]' = [j \in Keys |-> Expired(j)]
        /\ [j \in Keys |-> Answered(j)]' = [j \in Keys |-> Answered(j)]
    BY <1>2
  <1> QED BY <1>1, <1>3 DEF Promise!Close, Holder, Expired, Answered

\* Sanitizing forgets.
LEMMA SanitizeForgets ==
    ASSUME TypeOK, Sanitize
    PROVE  Promise!Forget
  <1>1. write_barrier /\ write_barrier' = TRUE /\ UNCHANGED issued
    BY DEF Sanitize, write_barrier
  <1>2. \A k \in Keys : attempt'[k] = None
    BY DEF Sanitize
  <1>3. \A k \in Keys : Holder(k)' = 0 /\ Expired(k)' = FALSE /\ Answered(k)' = 0
    BY <1>2 DEF Holder, Expired, Answered, Running, Completed
  <1>4. /\ [j \in Keys |-> Holder(j)]' = [j \in Keys |-> 0]
        /\ [j \in Keys |-> Expired(j)]' = [j \in Keys |-> FALSE]
        /\ [j \in Keys |-> Answered(j)]' = [j \in Keys |-> 0]
    BY <1>3
  <1> QED BY <1>1, <1>4 DEF Promise!Forget, Holder, Expired, Answered

\* The end of a cleanup opens again.
LEMMA FinishReopens ==
    ASSUME TypeOK, FinishCleanup
    PROVE  Promise!Reopen
  <1>1. write_barrier /\ write_barrier' = FALSE /\ UNCHANGED <<issued, attempt>>
    BY DEF FinishCleanup, write_barrier
  <1>2. \A k \in Keys : Holder(k)' = Holder(k) /\ Expired(k)' = Expired(k)
                        /\ Answered(k)' = Answered(k)
    <2>1. CASE Invalidate
      BY <1>1, <2>1, InvalidationInvisible
    <2>2. CASE UNCHANGED turns
      BY <1>1, <2>2, RowsKept
    <2> QED BY <2>1, <2>2 DEF FinishCleanup
  <1>3. /\ [j \in Keys |-> Holder(j)]' = [j \in Keys |-> Holder(j)]
        /\ [j \in Keys |-> Expired(j)]' = [j \in Keys |-> Expired(j)]
        /\ [j \in Keys |-> Answered(j)]' = [j \in Keys |-> Answered(j)]
    BY <1>2
  <1> QED BY <1>1, <1>3 DEF Promise!Reopen, Holder, Expired, Answered

\* Every step of Chat is a step of Reservation or invisible to it.
LEMMA PromiseNext ==
    ASSUME TypeOK, Next
    PROVE  [Promise!Next]_Promise!promiseVars
  <1>1. CASE RequestOrGrant
    BY <1>1, RowsKept, Invisible DEF RequestOrGrant
  <1>2. CASE \E r \in Requests, k \in Keys, q \in Questions : Replay(r, k, q)
    BY <1>2, RowsKept, Invisible DEF Replay
  <1>3. CASE \E r \in Requests, k \in Keys, q \in Questions : BeginChat(r, k, q)
    BY <1>3, BeginReserves DEF Promise!Next
  <1>4. CASE \E r \in Requests : Release(r)
    BY <1>4, ReleaseAnswers DEF Promise!Next
  <1>5. CASE \E r \in Requests, retryable \in BOOLEAN : FailChat(r, retryable)
    BY <1>5, FailGivesUp DEF Promise!Next
  <1>6. CASE \E k \in Keys : Deadline(k)
    BY <1>6, DeadlineTimesOut DEF Promise!Next
  <1>7. CASE EvidenceChanges
    BY <1>7, InvalidationInvisible, Invisible DEF EvidenceChanges
  <1>8. CASE AcceptCleanup
    BY <1>8, AcceptCloses DEF Promise!Next
  <1>9. CASE Sanitize
    BY <1>9, SanitizeForgets DEF Promise!Next
  <1>10. CASE FinishCleanup
    BY <1>10, FinishReopens DEF Promise!Next
  <1> QED BY <1>1, <1>2, <1>3, <1>4, <1>5, <1>6, <1>7, <1>8, <1>9, <1>10, Next DEF Next

\* Chat implements Reservation: whatever is retried, delayed, cancelled or cleaned up,
\* an identifier is answered only by who holds it and never while it is answered already.
THEOREM PromiseKept == Spec => KeepsPromise
  <1>1. TypeOK /\ [Next]_vars => [Promise!Next]_Promise!promiseVars
    <2> SUFFICES ASSUME TypeOK, [Next]_vars PROVE [Promise!Next]_Promise!promiseVars
      OBVIOUS
    <2>1. CASE Next
      BY <2>1, PromiseNext
    <2>2. CASE UNCHANGED vars
      BY <2>2, RowsKept, Invisible DEF vars, chatVars
    <2> QED BY <2>1, <2>2
  <1> QED BY <1>1, PromiseInit, TypeCorrect, PTL DEF Spec, KeepsPromise, Promise!Spec

-----------------------------------------------------------------------------
(* The safety properties. *)


\* Access steps leave a request in the middle of a chat alone, or end it.
LEMMA AccessLeavesChats ==
    ASSUME AccessTypeOK, AccessNext, NEW r \in Requests,
           request[r].phase \in {"answering", "failing", "replied"}
    PROVE  request'[r] = request[r] \/ request'[r] = Idle
  <1>1. CASE \E s \in Sessions : Login(s) \/ Logout(s) \/ Expire(s)
    BY <1>1 DEF Login, Logout, Expire
  <1>2. CASE \E q \in Requests, s \in Sessions : Authorize(q, s)
    BY <1>2 DEF Authorize, AccessTypeOK
  <1>3. CASE \E q \in Requests : LoadSnapshot(q)
    BY <1>3 DEF LoadSnapshot, AccessTypeOK
  <1>4. CASE \E q \in Requests : End(q)
    BY <1>4 DEF End, AccessTypeOK
  <1>5. CASE \E q \in Requests, u \in Users, role \in Granted : SetMember(q, u, role)
    BY <1>5 DEF SetMember, AccessTypeOK
  <1>6. CASE \E q \in Requests, u \in Users : RemoveMember(q, u)
    BY <1>6 DEF RemoveMember, AccessTypeOK
  <1> QED BY <1>1, <1>2, <1>3, <1>4, <1>5, <1>6, AccessNext DEF AccessNext

\* What each step but begin_chat does to the handlers that answer: it ends some, and
\* the others stay what they are.
LEMMA HandlersKept ==
    ASSUME TypeOK, Next, NEW r \in Requests,
           ~ \E k \in Keys, q \in Questions : BeginChat(r, k, q),
           request'[r].phase = "answering"
    PROVE  request'[r] = request[r] /\ call'[r] = call[r]
  <1>1. CASE RequestOrGrant
    <2>1. request'[r] = request[r]
      BY <1>1, AccessPhases DEF RequestOrGrant, TypeOK
    <2> QED BY <1>1, <2>1 DEF RequestOrGrant
  <1>2. CASE \E p \in Requests, k \in Keys, q \in Questions : Replay(p, k, q)
    <2>1. PICK p \in Requests, k \in Keys, q \in Questions : Replay(p, k, q)
      BY <1>2
    <2>2. request'[p].phase = "replied" /\ \A o \in Requests : o # p => request'[o] = request[o]
      BY <2>1, PhaseMoves DEF Replay, MayBegin, TypeOK, Phase
    <2>3. r # p
      BY <2>2
    <2> QED BY <2>1, <2>2, <2>3 DEF Replay, TypeOK
  <1>3. CASE \E p \in Requests, k \in Keys, q \in Questions : BeginChat(p, k, q)
    <2>1. PICK p \in Requests, k \in Keys, q \in Questions : BeginChat(p, k, q)
      BY <1>3
    <2>2. r # p
      BY <2>1
    <2> QED BY <2>1, <2>2 DEF BeginChat, TypeOK, AccessTypeOK
  <1>4. CASE \E p \in Requests : Release(p)
    <2>1. PICK p \in Requests : Release(p)
      BY <1>4
    <2>2. PICK phase \in {"replied", "failing"} : request' = [request EXCEPT ![p].phase = phase]
      BY <2>1 DEF Release
    <2>3. request'[p].phase = phase /\ \A o \in Requests : o # p => request'[o] = request[o]
      BY <2>1, <2>2, PhaseMoves DEF Release, TypeOK, Phase
    <2>4. r # p
      BY <2>2, <2>3
    <2> QED BY <2>1, <2>3, <2>4 DEF Release, TypeOK
  <1>5. CASE \E p \in Requests, retryable \in BOOLEAN : FailChat(p, retryable)
    <2>1. PICK p \in Requests, retryable \in BOOLEAN : FailChat(p, retryable)
      BY <1>5
    <2>2. r # p
      BY <2>1 DEF FailChat, TypeOK, AccessTypeOK, Idle
    <2> QED BY <2>1, <2>2 DEF FailChat, TypeOK, AccessTypeOK
  <1>6. CASE \E k \in Keys : Deadline(k)
    BY <1>6 DEF Deadline, accessVars
  <1>7. CASE EvidenceChanges \/ AcceptCleanup \/ Sanitize \/ FinishCleanup
    BY <1>7 DEF EvidenceChanges, AcceptCleanup, Sanitize, FinishCleanup, accessVars
  <1> QED BY <1>1, <1>2, <1>3, <1>4, <1>5, <1>6, <1>7, Next DEF Next

\* Attempts are numbered by begin_chat alone.
LEMMA IssuedKept ==
    ASSUME TypeOK, Next, ~ \E r \in Requests, k \in Keys, q \in Questions : BeginChat(r, k, q)
    PROVE  issued' = issued
  BY Next DEF Next, RequestOrGrant, Replay, Release, FailChat, Deadline, EvidenceChanges,
              AcceptCleanup, Sanitize, FinishCleanup

-----------------------------------------------------------------------------
\* What makes OneHolder inductive: two handlers of one key never have the same attempt,
\* since the next attempt has a number no handler has.
Distinct ==
    /\ \A r \in Requests : request[r].phase = "answering" =>
           call[r].attempt <= issued[call[r].key]
    /\ \A r, p \in Requests :
           (/\ r # p
            /\ request[r].phase = "answering" /\ request[p].phase = "answering"
            /\ call[r].key = call[p].key) => call[r].attempt # call[p].attempt

\* Every step keeps attempts of handlers distinct.
LEMMA DistinctNext ==
    ASSUME TypeOK, Distinct, Next
    PROVE  Distinct'
  <1>1. CASE \E r \in Requests, k \in Keys, q \in Questions : BeginChat(r, k, q)
    <2>1. PICK r \in Requests, k \in Keys, q \in Questions : BeginChat(r, k, q)
      BY <1>1
    <2>2. call'[r].key = k /\ call'[r].attempt = issued[k] + 1
      BY <2>1 DEF BeginChat, TypeOK
    <2>3. \A p \in Requests \ {r} : request'[p] = request[p] /\ call'[p] = call[p]
      BY <2>1 DEF BeginChat, TypeOK, AccessTypeOK
    <2>4. /\ issued[k] \in Nat
          /\ issued'[k] = issued[k] + 1
          /\ \A j \in Keys \ {k} : issued'[j] = issued[j]
      BY <2>1 DEF BeginChat, TypeOK
    <2>5. ASSUME NEW p \in Requests \ {r}, request[p].phase = "answering"
          PROVE  /\ call[p].key \in Keys /\ call[p].attempt \in Nat
                 /\ call[p].attempt <= issued[call[p].key]
      BY <2>5, Asked DEF Distinct, Call
    <2>6. ASSUME NEW p \in Requests, request'[p].phase = "answering"
          PROVE  call'[p].attempt <= issued'[call'[p].key]
      <3>1. CASE p = r
        BY <2>2, <2>4, <3>1
      <3>2. CASE p # r
        BY <2>3, <2>4, <2>5, <2>6, <3>2
      <3> QED BY <3>1, <3>2
    <2>7. ASSUME NEW p \in Requests, NEW o \in Requests, p # o,
                 request'[p].phase = "answering", request'[o].phase = "answering",
                 call'[p].key = call'[o].key
          PROVE  call'[p].attempt # call'[o].attempt
      <3>1. CASE p = r
        BY <2>2, <2>3, <2>4, <2>5, <2>7, <3>1
      <3>2. CASE o = r
        BY <2>2, <2>3, <2>4, <2>5, <2>7, <3>2
      <3>3. CASE p # r /\ o # r
        BY <2>3, <2>7, <3>3 DEF Distinct
      <3> QED BY <3>1, <3>2, <3>3
    <2> QED BY <2>6, <2>7 DEF Distinct
  <1>2. CASE ~ \E r \in Requests, k \in Keys, q \in Questions : BeginChat(r, k, q)
    <2>1. \A r \in Requests : request'[r].phase = "answering" =>
              request'[r] = request[r] /\ call'[r] = call[r]
      BY <1>2, HandlersKept
    <2> QED BY <1>2, <2>1, IssuedKept DEF Distinct
  <1> QED BY <1>1, <1>2

\* Handlers of one key always have different attempts.
LEMMA DistinctAlways == Spec => []Distinct
  <1>1. Init => Distinct
    BY DEF Init, AccessInit, Idle, Distinct
  <1>2. TypeOK /\ Distinct /\ [Next]_vars => Distinct'
    <2> SUFFICES ASSUME TypeOK, Distinct, [Next]_vars PROVE Distinct'
      OBVIOUS
    <2>1. CASE Next
      BY <2>1, DistinctNext
    <2>2. CASE UNCHANGED vars
      BY <2>2 DEF vars, accessVars, chatVars, Distinct
    <2> QED BY <2>1, <2>2
  <1> QED BY <1>1, <1>2, TypeCorrect, PTL DEF Spec

\* Of all handlers of one key at most one can still release.
THEOREM AtMostOneHolder == Spec => []OneHolder
  <1>1. Distinct => OneHolder
    BY DEF Distinct, OneHolder, Holds
  <1> QED BY <1>1, DistinctAlways, PTL

-----------------------------------------------------------------------------
\* Late handlers find the barrier up or their attempt gone.
LEMMA SanitizedStep ==
    ASSUME TypeOK, NothingAfterSanitizing, Next
    PROVE  NothingAfterSanitizing'
  <1> SUFFICES ASSUME cleanup' = "sanitized"
               PROVE  \A k \in Keys : /\ attempt'[k] = None
                                      /\ \A i \in DOMAIN turns'[k] : turns'[k][i].answer = None
    BY DEF NothingAfterSanitizing
  <1>1. CASE RequestOrGrant \/ \E r \in Requests, k \in Keys, q \in Questions : Replay(r, k, q)
    BY <1>1 DEF RequestOrGrant, Replay, NothingAfterSanitizing
  <1>2. CASE \E r \in Requests, k \in Keys, q \in Questions : BeginChat(r, k, q)
    BY <1>2 DEF BeginChat, MayBegin, write_barrier
  <1>3. CASE \E r \in Requests : Release(r)
    BY <1>3 DEF Release, write_barrier
  <1>4. CASE \E r \in Requests, retryable \in BOOLEAN : FailChat(r, retryable)
    BY <1>4, Asked DEF FailChat, Holds, NothingAfterSanitizing
  <1>5. CASE \E k \in Keys : Deadline(k)
    BY <1>5 DEF Deadline, NothingAfterSanitizing
  <1>6. CASE EvidenceChanges \/ AcceptCleanup \/ FinishCleanup
    BY <1>6 DEF EvidenceChanges, AcceptCleanup, FinishCleanup, write_barrier
  <1>7. CASE Sanitize
    <2>1. ASSUME NEW k \in Keys, NEW i \in DOMAIN turns[k]
          PROVE  Erased(turns[k][i]).answer = None
      BY <2>1, Messages DEF Erased, Turn
    <2> QED BY <1>7, <2>1 DEF Sanitize
  <1> QED BY <1>1, <1>2, <1>3, <1>4, <1>5, <1>6, <1>7, Next DEF Next

\* Between sanitizing and the end of a cleanup there is no attempt and no answer.
THEOREM SanitizedStaysEmpty == Spec => []NothingAfterSanitizing
  <1>1. Init => NothingAfterSanitizing
    BY DEF Init, ChatInit, NothingAfterSanitizing
  <1>2. TypeOK /\ NothingAfterSanitizing /\ [Next]_vars => NothingAfterSanitizing'
    <2> SUFFICES ASSUME TypeOK, NothingAfterSanitizing, [Next]_vars
                 PROVE  NothingAfterSanitizing'
      OBVIOUS
    <2>1. CASE Next
      BY <2>1, SanitizedStep
    <2>2. CASE UNCHANGED vars
      BY <2>2 DEF vars, chatVars, NothingAfterSanitizing
    <2> QED BY <2>1, <2>2
  <1> QED BY <1>1, <1>2, TypeCorrect, PTL DEF Spec

-----------------------------------------------------------------------------
\* MessageMatchesAttempt at one key, for its attempt a and its messages t.
Tells(a, t) ==
    /\ a.state = "running"   => t[a.turn] = Pending
    /\ a.state = "failed"    => t[a.turn] = [Pending EXCEPT !.user = "failed"]
    /\ a.state = "completed" => t[a.turn].user = "available" /\ t[a.turn].answer # None

Told(k) == attempt[k] # None => Tells(attempt[k], turns[k])

\* An invalidation touches messages with an answer only, and leaves them one.
LEMMA ToldInvalidated ==
    ASSUME TypeOK, Invalidate, UNCHANGED attempt, NEW k \in Keys, Told(k)
    PROVE  Told(k)'
  <1> SUFFICES ASSUME attempt[k] # None
               PROVE  Tells(attempt[k], turns'[k])
    BY DEF Told
  <1> DEFINE turn == turns[k][attempt[k].turn]
  <1>1. attempt[k].turn \in DOMAIN turns[k] /\ Tells(attempt[k], turns[k])
    BY Row DEF Told
  <1>2. /\ turn \in Turn
        /\ turns'[k][attempt[k].turn] = Invalidated(turn)
    BY <1>1, Messages, MessagesInvalidated
  <1>3. CASE turn.answer = None
    BY <1>1, <1>2, <1>3 DEF Invalidated, Tells
  <1>4. CASE turn.answer # None
    <2>1. Invalidated(turn).user = turn.user
      BY <1>2, <1>4 DEF Invalidated, Turn
    <2>2. Invalidated(turn).answer # None
      <3>1. turn.answer \in Answer
        BY <1>2, <1>4 DEF Turn
      <3>2. [turn.answer EXCEPT !.valid = FALSE] \in Answer
        BY <3>1 DEF Answer
      <3>3. Invalidated(turn).answer = [turn.answer EXCEPT !.valid = FALSE]
        BY <1>2, <1>4 DEF Invalidated, Turn
      <3> QED BY <3>2, <3>3, NoneAssumption
    <2>3. attempt[k].state = "completed"
      <3>1. attempt[k].state \in {"running", "completed", "failed"}
        BY Row DEF Attempt
      <3>2. Pending.answer = None /\ [Pending EXCEPT !.user = "failed"].answer = None
        BY DEF Pending
      <3> QED BY <1>1, <1>4, <3>1, <3>2 DEF Tells
    <2> QED BY <1>1, <1>2, <2>1, <2>2, <2>3 DEF Tells
  <1> QED BY <1>3, <1>4

\* A step tells of every key what its attempt says.
LEMMA ToldNext ==
    ASSUME TypeOK, \A k \in Keys : Told(k), Next, NEW k \in Keys
    PROVE  Told(k)'
  <1>0. CASE attempt'[k] = attempt[k] /\ turns'[k] = turns[k]
    BY <1>0 DEF Told
  <1>1. CASE RequestOrGrant \/ \E r \in Requests, j \in Keys, q \in Questions : Replay(r, j, q)
    BY <1>0, <1>1 DEF RequestOrGrant, Replay
  <1>2. CASE \E r \in Requests, j \in Keys, q \in Questions : BeginChat(r, j, q)
    <2>1. PICK r \in Requests, j \in Keys, q \in Questions : BeginChat(r, j, q)
      BY <1>2
    <2>2. CASE j = k
      <3>1. attempt'[k].state = "running"
            /\ attempt'[k].turn = IF attempt[k] = None THEN Len(turns[k]) + 1 ELSE attempt[k].turn
        BY <2>1, <2>2, NewAttempt
      <3>2. turns'[k][attempt'[k].turn] = Pending
        <4>1. turns \in [Keys -> Seq(Turn)] /\ Pending \in Turn
          BY DEF TypeOK, Pending, Turn
        <4>2. CASE attempt[k] = None
          <5>1. turns'[k] = Append(turns[k], Pending)
            BY <2>1, <2>2, <4>1, <4>2 DEF BeginChat
          <5> QED BY <3>1, <4>1, <4>2, <5>1, AppendProperties
        <4>3. CASE attempt[k] # None
          <5>1. turns'[k] = [turns[k] EXCEPT ![attempt[k].turn] = Pending]
            BY <2>1, <2>2, <4>1, <4>3 DEF BeginChat
          <5> QED BY <3>1, <4>3, <5>1, Row, Messages
        <4> QED BY <4>2, <4>3
      <3> QED BY <3>1, <3>2 DEF Told, Tells
    <2>3. CASE j # k
      BY <1>0, <2>1, <2>3 DEF BeginChat, TypeOK
    <2> QED BY <2>2, <2>3
  <1>3. CASE \E r \in Requests : Release(r)
    <2>1. PICK r \in Requests : Release(r)
      BY <1>3
    <2>2. PICK j \in Keys : j = call[r].key
      BY <2>1, Asked DEF Release
    <2>3. attempt[j] \in Attempt /\ attempt[j].turn \in DOMAIN turns[j]
      BY <2>1, <2>2, Row DEF Release, Holds
    <2>4. PICK turn : /\ turn.user = "available" /\ turn.answer \in Answer
                      /\ turns' = [turns EXCEPT ![j][attempt[j].turn] = turn]
      <3>1. call[r] \in Call /\ request[r] \in Context
        BY <2>1, Asked, InUse DEF Release, TypeOK
      <3>2. [by |-> call[r].attempt, question |-> call[r].question,
             generation |-> request[r].generation, valid |-> TRUE] \in Answer
        BY <3>1 DEF Call, Context, Answer
      <3> QED BY <2>1, <2>2, <3>2 DEF Release
    <2>5. CASE j = k
      <3>1. attempt'[k] = [attempt[k] EXCEPT !.state = "completed"]
        BY <2>1, <2>2, <2>5 DEF Release, TypeOK
      <3>2. attempt'[k].state = "completed" /\ attempt'[k].turn = attempt[k].turn
        BY <2>3, <2>5, <3>1 DEF Attempt
      <3>3. turns'[k] = [turns[k] EXCEPT ![attempt[k].turn] = turn]
        BY <2>4, <2>5 DEF TypeOK
      <3>4. turns'[k][attempt'[k].turn] = turn
        BY <2>3, <2>5, <3>2, <3>3
      <3> QED BY <2>4, <3>2, <3>4, NoneAssumption DEF Told, Tells
    <2>6. CASE j # k
      BY <1>0, <2>1, <2>2, <2>6 DEF Release, TypeOK
    <2> QED BY <2>5, <2>6
  <1>4. CASE \E r \in Requests, retryable \in BOOLEAN : FailChat(r, retryable)
    <2>1. PICK r \in Requests, retryable \in BOOLEAN : FailChat(r, retryable)
      BY <1>4
    <2>2. PICK j \in Keys : j = call[r].key
      BY <2>1, Asked DEF FailChat
    <2>3. /\ attempt[j] \in Attempt /\ attempt[j].turn \in DOMAIN turns[j]
          /\ attempt[j] # None /\ attempt[j].state = "running"
      BY <2>1, <2>2, Row DEF FailChat, Holds
    <2>4. turns[j][attempt[j].turn] = Pending
      BY <2>3 DEF Told, Tells
    <2>5. CASE j = k
      <3>1. attempt'[k] = [attempt[k] EXCEPT !.state = "failed", !.retryable = retryable]
        BY <2>1, <2>2, <2>5 DEF FailChat, TypeOK
      <3>2. attempt'[k].state = "failed" /\ attempt'[k].turn = attempt[k].turn
        BY <2>3, <2>5, <3>1 DEF Attempt
      <3>3. turns'[k] = [turns[k] EXCEPT ![attempt[k].turn] =
                            [turns[k][attempt[k].turn] EXCEPT !.user = "failed"]]
        BY <2>1, <2>2, <2>5 DEF FailChat, TypeOK
      <3>4. turns'[k][attempt'[k].turn] = [Pending EXCEPT !.user = "failed"]
        BY <2>3, <2>4, <2>5, <3>2, <3>3
      <3> QED BY <3>2, <3>4 DEF Told, Tells
    <2>6. CASE j # k
      BY <1>0, <2>1, <2>2, <2>6 DEF FailChat, TypeOK
    <2> QED BY <2>5, <2>6
  <1>5. CASE \E j \in Keys : Deadline(j)
    <2>1. PICK j \in Keys : Deadline(j)
      BY <1>5
    <2>2. CASE j = k
      <3>1. attempt[k] \in Attempt /\ attempt[k] # None
        BY <2>1, <2>2, Row DEF Deadline
      <3>2. attempt'[k] = [attempt[k] EXCEPT !.overdue = TRUE] /\ turns' = turns
        BY <2>1, <2>2 DEF Deadline, TypeOK
      <3>3. attempt'[k].state = attempt[k].state /\ attempt'[k].turn = attempt[k].turn
        BY <3>1, <3>2 DEF Attempt
      <3> QED BY <3>1, <3>2, <3>3 DEF Told, Tells
    <2>3. CASE j # k
      BY <1>0, <2>1, <2>3 DEF Deadline, TypeOK
    <2> QED BY <2>2, <2>3
  <1>6. CASE EvidenceChanges \/ AcceptCleanup
    BY <1>6, ToldInvalidated DEF EvidenceChanges, AcceptCleanup
  <1>7. CASE Sanitize
    BY <1>7 DEF Sanitize, Told
  <1>8. CASE FinishCleanup
    BY <1>0, <1>8, ToldInvalidated DEF FinishCleanup
  <1> QED BY <1>1, <1>2, <1>3, <1>4, <1>5, <1>6, <1>7, <1>8, Next DEF Next

\* No failure that is reported late, or after a release, marks an answered question.
THEOREM MessagesMatchAttempts == Spec => []MessageMatchesAttempt
  <1> DEFINE AllTold == \A k \in Keys : Told(k)
  <1>1. Init => AllTold
    BY DEF Init, ChatInit, Told
  <1>2. TypeOK /\ AllTold /\ [Next]_vars => AllTold'
    <2> SUFFICES ASSUME TypeOK, AllTold, [Next]_vars PROVE AllTold'
      OBVIOUS
    <2>1. CASE Next
      BY <2>1, ToldNext
    <2>2. CASE UNCHANGED vars
      BY <2>2 DEF vars, chatVars, Told
    <2> QED BY <2>1, <2>2
  <1>3. AllTold => MessageMatchesAttempt
    BY DEF Told, Tells, MessageMatchesAttempt
  <1> HIDE DEF AllTold
  <1> QED BY <1>1, <1>2, <1>3, TypeCorrect, PTL DEF Spec

-----------------------------------------------------------------------------
\* What makes AnsweredAsAsked inductive: a handler whose attempt is stored was asked the
\* attempt's question, and a completed attempt has the answer to its question.
AskedFor(r) ==
    (/\ request[r].phase = "answering"
     /\ attempt[call[r].key] # None
     /\ attempt[call[r].key].id = call[r].attempt) =>
           attempt[call[r].key].question = call[r].question

SavedFor(k) ==
    Completed(k) => turns[k][attempt[k].turn].answer.question = attempt[k].question

Replied(r) == request[r].phase = "replied" => call[r].reply = call[r].question

\* A handler that answers knows the question of its attempt.
LEMMA AskedForNext ==
    ASSUME TypeOK, Distinct, \A r \in Requests : AskedFor(r), Next, NEW p \in Requests
    PROVE  AskedFor(p)'
  <1>0. ASSUME NEW k \in Keys, NEW q \in Questions, BeginChat(p, k, q)
        PROVE  attempt'[k].question = q
    BY <1>0, NewAttempt
  <1> SUFFICES ASSUME request'[p].phase = "answering",
                      attempt'[call'[p].key] # None,
                      attempt'[call'[p].key].id = call'[p].attempt
               PROVE  attempt'[call'[p].key].question = call'[p].question
    BY DEF AskedFor
  <1>1. CASE \E k \in Keys, q \in Questions : BeginChat(p, k, q)
    <2>1. PICK k \in Keys, q \in Questions : BeginChat(p, k, q)
      BY <1>1
    <2>2. call'[p].key = k /\ call'[p].question = q
      BY <2>1 DEF BeginChat, TypeOK
    <2> QED BY <1>0, <2>1, <2>2
  <1>2. CASE ~ \E k \in Keys, q \in Questions : BeginChat(p, k, q)
    <2>1. request'[p] = request[p] /\ call'[p] = call[p]
      BY <1>2, HandlersKept
    <2>2. PICK k \in Keys : k = call[p].key
      BY <2>1, Asked
    <2>3. CASE attempt'[k] = attempt[k]
      BY <2>1, <2>2, <2>3 DEF AskedFor
    <2>4. CASE \E r \in Requests, q \in Questions : BeginChat(r, k, q)
      <3>1. PICK r \in Requests, q \in Questions : BeginChat(r, k, q)
        BY <2>4
      <3>2. attempt'[k].id = issued[k] + 1 /\ issued[k] \in Nat
        BY <3>1, NewAttempt
      <3>3. call[p].attempt <= issued[k] /\ call[p].attempt \in Nat
        BY <2>1, <2>2, Asked DEF Distinct, Call
      <3> QED BY <2>1, <2>2, <3>2, <3>3
    <2>5. CASE /\ attempt[k] # None
               /\ attempt'[k].id = attempt[k].id /\ attempt'[k].question = attempt[k].question
      BY <2>1, <2>2, <2>5 DEF AskedFor
    <2>6. CASE RequestOrGrant \/ \E r \in Requests, j \in Keys, q \in Questions : Replay(r, j, q)
      BY <2>3, <2>6 DEF RequestOrGrant, Replay
    <2>7. CASE \E r \in Requests, j \in Keys, q \in Questions : BeginChat(r, j, q)
      <3>1. PICK r \in Requests, j \in Keys, q \in Questions : BeginChat(r, j, q)
        BY <2>7
      <3>2. CASE j = k
        BY <2>4, <3>1, <3>2
      <3>3. CASE j # k
        BY <2>3, <3>1, <3>3 DEF BeginChat, TypeOK
      <3> QED BY <3>2, <3>3
    <2>8. CASE \E r \in Requests : Release(r)
      <3>1. PICK r \in Requests : Release(r)
        BY <2>8
      <3>2. PICK j \in Keys : j = call[r].key
        BY <3>1, Asked DEF Release
      <3>3. attempt[j] \in Attempt /\ attempt[j] # None
        BY <3>1, <3>2, Row DEF Release, Holds
      <3>4. attempt' = [attempt EXCEPT ![j] = [attempt[j] EXCEPT !.state = "completed"]]
        BY <3>1, <3>2 DEF Release, TypeOK
      <3> QED BY <2>3, <2>5, <3>3, <3>4 DEF TypeOK, Attempt
    <2>9. CASE \E r \in Requests, retryable \in BOOLEAN : FailChat(r, retryable)
      <3>1. PICK r \in Requests, retryable \in BOOLEAN : FailChat(r, retryable)
        BY <2>9
      <3>2. PICK j \in Keys : j = call[r].key
        BY <3>1, Asked DEF FailChat
      <3>3. attempt[j] \in Attempt /\ attempt[j] # None
        BY <3>1, <3>2, Row DEF FailChat, Holds
      <3>4. attempt' = [attempt EXCEPT ![j] =
                           [attempt[j] EXCEPT !.state = "failed", !.retryable = retryable]]
        BY <3>1, <3>2 DEF FailChat, TypeOK
      <3> QED BY <2>3, <2>5, <3>3, <3>4 DEF TypeOK, Attempt
    <2>10. CASE \E j \in Keys : Deadline(j)
      <3>1. PICK j \in Keys : Deadline(j)
        BY <2>10
      <3>2. attempt[j] \in Attempt /\ attempt[j] # None
        BY <3>1, Row DEF Deadline
      <3>3. attempt' = [attempt EXCEPT ![j] = [attempt[j] EXCEPT !.overdue = TRUE]]
        BY <3>1 DEF Deadline, TypeOK
      <3> QED BY <2>3, <2>5, <3>2, <3>3 DEF TypeOK, Attempt
    <2>11. CASE EvidenceChanges \/ AcceptCleanup \/ FinishCleanup
      BY <2>3, <2>11 DEF EvidenceChanges, AcceptCleanup, FinishCleanup
    <2>12. CASE Sanitize
      BY <2>1, <2>2, <2>12 DEF Sanitize
    <2> QED BY <2>6, <2>7, <2>8, <2>9, <2>10, <2>11, <2>12, Next DEF Next
  <1> QED BY <1>1, <1>2

\* A completed attempt keeps the answer to its question.
LEMMA SavedForNext ==
    ASSUME TypeOK, \A r \in Requests : AskedFor(r), \A k \in Keys : SavedFor(k),
           Next, NEW k \in Keys
    PROVE  SavedFor(k)'
  <1>0. CASE attempt'[k] = attempt[k] /\ turns'[k] = turns[k]
    BY <1>0 DEF SavedFor, Completed
  <1>a. CASE attempt'[k] # None => attempt'[k].state # "completed"
    BY <1>a DEF SavedFor, Completed
  <1>b. CASE Invalidate /\ UNCHANGED attempt
    <2> SUFFICES ASSUME Completed(k)
                 PROVE  turns'[k][attempt[k].turn].answer.question = attempt[k].question
      BY <1>b DEF SavedFor, Completed
    <2> DEFINE turn == turns[k][attempt[k].turn]
    <2>1. attempt[k].turn \in DOMAIN turns[k]
      BY Row DEF Completed
    <2>2. turn \in Turn /\ turns'[k][attempt[k].turn] = Invalidated(turn)
      BY <1>b, <2>1, Messages, MessagesInvalidated
    <2>3. Invalidated(turn).answer.question = turn.answer.question
      <3>1. CASE turn.answer = None
        BY <3>1 DEF Invalidated
      <3>2. CASE turn.answer # None
        <4>1. turn.answer \in Answer
          BY <2>2, <3>2 DEF Turn
        <4>2. Invalidated(turn).answer = [turn.answer EXCEPT !.valid = FALSE]
          BY <2>2, <3>2 DEF Invalidated, Turn
        <4> QED BY <4>1, <4>2 DEF Answer
      <3> QED BY <3>1, <3>2
    <2> QED BY <2>2, <2>3 DEF SavedFor
  <1>1. CASE RequestOrGrant \/ \E r \in Requests, j \in Keys, q \in Questions : Replay(r, j, q)
    BY <1>0, <1>1 DEF RequestOrGrant, Replay
  <1>2. CASE \E r \in Requests, j \in Keys, q \in Questions : BeginChat(r, j, q)
    <2>1. PICK r \in Requests, j \in Keys, q \in Questions : BeginChat(r, j, q)
      BY <1>2
    <2>2. CASE j = k
      <3>1. attempt'[k].state = "running"
        BY <2>1, <2>2, NewAttempt
      <3> QED BY <1>a, <3>1
    <2>3. CASE j # k
      BY <1>0, <2>1, <2>3 DEF BeginChat, TypeOK
    <2> QED BY <2>2, <2>3
  <1>3. CASE \E r \in Requests : Release(r)
    <2>1. PICK r \in Requests : Release(r)
      BY <1>3
    <2>2. PICK j \in Keys : j = call[r].key
      BY <2>1, Asked DEF Release
    <2>3. /\ attempt[j] \in Attempt /\ attempt[j].turn \in DOMAIN turns[j]
          /\ attempt[j].question = call[r].question
      BY <2>1, <2>2, Row DEF Release, Holds, AskedFor
    <2>4. PICK turn : /\ turn.answer.question = call[r].question
                      /\ turns' = [turns EXCEPT ![j][attempt[j].turn] = turn]
      BY <2>1, <2>2 DEF Release
    <2>5. CASE j = k
      <3>1. attempt'[k] = [attempt[k] EXCEPT !.state = "completed"]
        BY <2>1, <2>2, <2>5 DEF Release, TypeOK
      <3>2. attempt'[k].question = attempt[k].question /\ attempt'[k].turn = attempt[k].turn
        BY <2>3, <2>5, <3>1 DEF Attempt
      <3>3. turns'[k] = [turns[k] EXCEPT ![attempt[k].turn] = turn]
        BY <2>4, <2>5 DEF TypeOK
      <3>4. turns'[k][attempt'[k].turn] = turn
        BY <2>3, <2>5, <3>2, <3>3
      <3> QED BY <2>3, <2>4, <2>5, <3>2, <3>4 DEF SavedFor
    <2>6. CASE j # k
      BY <1>0, <2>1, <2>2, <2>6 DEF Release, TypeOK
    <2> QED BY <2>5, <2>6
  <1>4. CASE \E r \in Requests, retryable \in BOOLEAN : FailChat(r, retryable)
    <2>1. PICK r \in Requests, retryable \in BOOLEAN : FailChat(r, retryable)
      BY <1>4
    <2>2. PICK j \in Keys : j = call[r].key
      BY <2>1, Asked DEF FailChat
    <2>3. CASE j = k
      <3>1. attempt[k] \in Attempt
        BY <2>1, <2>2, <2>3, Row DEF FailChat, Holds
      <3>2. attempt'[k] = [attempt[k] EXCEPT !.state = "failed", !.retryable = retryable]
        BY <2>1, <2>2, <2>3 DEF FailChat, TypeOK
      <3>3. attempt'[k].state = "failed"
        BY <3>1, <3>2 DEF Attempt
      <3> QED BY <1>a, <3>3
    <2>4. CASE j # k
      BY <1>0, <2>1, <2>2, <2>4 DEF FailChat, TypeOK
    <2> QED BY <2>3, <2>4
  <1>5. CASE \E j \in Keys : Deadline(j)
    <2>1. PICK j \in Keys : Deadline(j)
      BY <1>5
    <2>2. CASE j = k
      <3>1. attempt[k] \in Attempt /\ attempt[k].state = "running"
        BY <2>1, <2>2, Row DEF Deadline
      <3>2. attempt'[k] = [attempt[k] EXCEPT !.overdue = TRUE]
        BY <2>1, <2>2 DEF Deadline, TypeOK
      <3>3. attempt'[k].state = "running"
        BY <3>1, <3>2 DEF Attempt
      <3> QED BY <1>a, <3>3
    <2>3. CASE j # k
      BY <1>0, <2>1, <2>3 DEF Deadline, TypeOK
    <2> QED BY <2>2, <2>3
  <1>6. CASE EvidenceChanges \/ AcceptCleanup
    BY <1>b, <1>6 DEF EvidenceChanges, AcceptCleanup
  <1>7. CASE Sanitize
    BY <1>a, <1>7 DEF Sanitize
  <1>8. CASE FinishCleanup
    BY <1>0, <1>b, <1>8 DEF FinishCleanup
  <1> QED BY <1>1, <1>2, <1>3, <1>4, <1>5, <1>6, <1>7, <1>8, Next DEF Next

\* Replies belong to questions.
LEMMA RepliedNext ==
    ASSUME TypeOK, \A k \in Keys : SavedFor(k), \A r \in Requests : Replied(r),
           Next, NEW p \in Requests
    PROVE  Replied(p)'
  <1>0. CASE request'[p] = request[p] /\ call'[p] = call[p]
    BY <1>0 DEF Replied
  <1>a. CASE request'[p].phase # "replied"
    BY <1>a DEF Replied
  <1>1. CASE RequestOrGrant
    <2>1. CASE request'[p] = request[p]
      BY <1>0, <1>1, <1>a, <2>1 DEF RequestOrGrant
    <2>2. CASE request'[p].phase \in {"idle", "authorizing", "ready"}
      BY <1>a, <2>2
    <2> QED BY <1>1, <2>1, <2>2, AccessPhases DEF RequestOrGrant, TypeOK
  <1>2. CASE \E r \in Requests, k \in Keys, q \in Questions : Replay(r, k, q)
    <2>1. PICK r \in Requests, k \in Keys, q \in Questions : Replay(r, k, q)
      BY <1>2
    <2>2. CASE r = p
      <3>1. call'[p] = [key |-> k, question |-> q, attempt |-> 0,
                        reply |-> turns[k][attempt[k].turn].answer.question]
        BY <2>1, <2>2 DEF Replay, TypeOK
      <3>2. turns[k][attempt[k].turn].answer.question = attempt[k].question
        BY <2>1 DEF Replay, SavedFor, Completed
      <3>3. attempt[k].question = q
        BY <2>1 DEF Replay, SameInput
      <3> QED BY <3>1, <3>2, <3>3 DEF Replied
    <2>3. CASE r # p
      BY <1>0, <2>1, <2>3 DEF Replay, TypeOK, AccessTypeOK
    <2> QED BY <2>2, <2>3
  <1>3. CASE \E r \in Requests, k \in Keys, q \in Questions : BeginChat(r, k, q)
    <2>1. PICK r \in Requests, k \in Keys, q \in Questions : BeginChat(r, k, q)
      BY <1>3
    <2>2. CASE r = p
      <3>1. request'[p].phase = "answering"
        BY <2>1, <2>2, PhaseMoves DEF BeginChat, MayBegin, TypeOK, Phase
      <3> QED BY <1>a, <3>1
    <2>3. CASE r # p
      BY <1>0, <2>1, <2>3 DEF BeginChat, TypeOK, AccessTypeOK
    <2> QED BY <2>2, <2>3
  <1>4. CASE \E r \in Requests : Release(r)
    <2>1. PICK r \in Requests : Release(r)
      BY <1>4
    <2>2. CASE r = p
      <3>1. call[p] \in Call
        BY <2>1, <2>2, Asked DEF Release
      <3>2. call'[p] = [call[p] EXCEPT !.reply = call[p].question]
        BY <2>1, <2>2 DEF Release, TypeOK
      <3> QED BY <3>1, <3>2 DEF Call, Replied
    <2>3. CASE r # p
      BY <1>0, <2>1, <2>3 DEF Release, TypeOK, AccessTypeOK
    <2> QED BY <2>2, <2>3
  <1>5. CASE \E r \in Requests, retryable \in BOOLEAN : FailChat(r, retryable)
    <2>1. PICK r \in Requests, retryable \in BOOLEAN : FailChat(r, retryable)
      BY <1>5
    <2>2. CASE r = p
      BY <1>a, <2>1, <2>2 DEF FailChat, TypeOK, AccessTypeOK, Idle
    <2>3. CASE r # p
      BY <1>0, <2>1, <2>3 DEF FailChat, TypeOK, AccessTypeOK
    <2> QED BY <2>2, <2>3
  <1>6. CASE \E k \in Keys : Deadline(k)
    BY <1>0, <1>6 DEF Deadline, accessVars
  <1>7. CASE EvidenceChanges \/ AcceptCleanup \/ Sanitize \/ FinishCleanup
    BY <1>0, <1>7 DEF EvidenceChanges, AcceptCleanup, Sanitize, FinishCleanup, accessVars
  <1> QED BY <1>1, <1>2, <1>3, <1>4, <1>5, <1>6, <1>7, Next DEF Next

AllAsked ==
    /\ \A r \in Requests : AskedFor(r)
    /\ \A k \in Keys : SavedFor(k)
    /\ \A r \in Requests : Replied(r)

\* Every reply is an answer to the question its client sent.
THEOREM RepliesAnswerTheQuestion == Spec => []AnsweredAsAsked
  <1>1. Init => AllAsked
    BY DEF Init, AccessInit, ChatInit, Idle, AllAsked, AskedFor, SavedFor, Replied, Completed
  <1>2. TypeOK /\ Distinct /\ AllAsked /\ [Next]_vars => AllAsked'
    <2> SUFFICES ASSUME TypeOK, Distinct, AllAsked, [Next]_vars PROVE AllAsked'
      OBVIOUS
    <2>1. CASE Next
      BY <2>1, AskedForNext, SavedForNext, RepliedNext DEF AllAsked
    <2>2. CASE UNCHANGED vars
      BY <2>2 DEF vars, accessVars, chatVars, AllAsked, AskedFor, SavedFor, Replied, Completed
    <2> QED BY <2>1, <2>2
  <1>3. AllAsked => AnsweredAsAsked
    BY DEF AllAsked, Replied, AnsweredAsAsked
  <1> QED BY <1>1, <1>2, <1>3, TypeCorrect, DistinctAlways, PTL DEF Spec

-----------------------------------------------------------------------------
\* What makes OutdatedNeverReleases follow: contexts never run ahead of the project, and
\* an overtaken one is behind it.  That outdated grants are refused is AllBehind.
Overtaken(r) ==
    /\ request[r].phase # "idle" => request[r].generation <= corpus_generation
    /\ r \in overtaken => /\ request[r].phase \notin {"idle", "authorizing"}
                          /\ request[r].generation < corpus_generation

\* A step after which a request is idle or has the context it had, under the same grants
\* and in the same project, keeps it behind and overtaken.
LEMMA ContextKept ==
    ASSUME NEW r \in Requests, Behind(r), Overtaken(r),
           UNCHANGED <<members, access_epochs, outdated, corpus_generation>>,
           r \in overtaken' => r \in overtaken,
           \/ request'[r] = request[r]
           \/ request'[r] = Idle /\ r \notin overtaken'
           \/ /\ request[r].phase \notin {"idle", "authorizing"}
              /\ request'[r].phase \notin {"idle", "authorizing"}
              /\ request'[r].session = request[r].session
              /\ request'[r].access_revision = request[r].access_revision
              /\ request'[r].generation = request[r].generation
    PROVE  Behind(r)' /\ Overtaken(r)'
  <1>1. CASE request'[r] = request[r]
    BY <1>1 DEF Behind, Overtaken, Caller
  <1>2. CASE request'[r] = Idle /\ r \notin overtaken'
    BY <1>2 DEF Behind, Overtaken, Idle
  <1>3. CASE /\ request[r].phase \notin {"idle", "authorizing"}
             /\ request'[r].phase \notin {"idle", "authorizing"}
             /\ request'[r].session = request[r].session
             /\ request'[r].access_revision = request[r].access_revision
             /\ request'[r].generation = request[r].generation
    BY <1>3 DEF Behind, Overtaken, Caller
  <1> QED BY <1>1, <1>2, <1>3

\* An invalidation overtakes every request that holds a context.
LEMMA OvertakenInvalidate ==
    ASSUME TypeOK, Invalidate, UNCHANGED request, NEW r \in Requests, Overtaken(r)
    PROVE  Overtaken(r)'
  <1>1. corpus_generation' = corpus_generation + 1 /\ corpus_generation \in Nat
    BY DEF Invalidate, NextGeneration, TypeOK, AccessTypeOK
  <1>2. overtaken' = {p \in Requests : request[p].phase \notin {"idle", "authorizing"}}
    BY DEF Invalidate
  <1>3. CASE request[r].phase # "idle"
    <2>1. request[r].generation \in Nat
      BY <1>3, InUse DEF TypeOK, Context
    <2> QED BY <1>1, <1>2, <1>3, <2>1 DEF Overtaken
  <1>4. CASE request[r].phase = "idle"
    BY <1>2, <1>4 DEF Overtaken
  <1> QED BY <1>3, <1>4

\* Requests come with contexts that are not ahead.
LEMMA OvertakenAccess ==
    ASSUME TypeOK, RequestOrGrant, NEW r \in Requests, Overtaken(r)
    PROVE  Overtaken(r)'
  <1>1. overtaken' = {p \in overtaken : request'[p].phase # "idle"}
    BY DEF RequestOrGrant
  <1>2. corpus_generation' = corpus_generation /\ corpus_generation \in Nat
    BY DEF RequestOrGrant, AccessNext, Login, Logout, Expire, Authorize, LoadSnapshot, End,
           SetMember, RemoveMember, TypeOK, AccessTypeOK
  <1>3. CASE request'[r] = request[r] \/ request'[r].phase = "idle"
    BY <1>1, <1>2, <1>3 DEF Overtaken
  <1>4. CASE \E q \in Requests, s \in Sessions : Authorize(q, s)
    <2>1. PICK q \in Requests, s \in Sessions : Authorize(q, s)
      BY <1>4
    <2>2. CASE q = r
      <3>1. request[r].phase = "idle" /\ request'[r].generation = 0
        BY <2>1, <2>2 DEF Authorize, TypeOK, AccessTypeOK
      <3> QED BY <1>1, <1>2, <3>1 DEF Overtaken
    <2>3. CASE q # r
      BY <1>3, <2>1, <2>3 DEF Authorize, TypeOK, AccessTypeOK
    <2> QED BY <2>2, <2>3
  <1>5. CASE \E q \in Requests : LoadSnapshot(q)
    <2>1. PICK q \in Requests : LoadSnapshot(q)
      BY <1>5
    <2>2. CASE q = r
      <3>1. request[r].phase = "authorizing" /\ request[r] \in Context
        BY <2>1, <2>2, InUse DEF LoadSnapshot, TypeOK
      <3>2. request'[r] = [request[r] EXCEPT !.phase = "ready", !.generation = corpus_generation]
        BY <2>1, <2>2 DEF LoadSnapshot, TypeOK, AccessTypeOK
      <3>3. request'[r].generation = corpus_generation
        BY <3>1, <3>2 DEF Context
      <3> QED BY <1>1, <1>2, <3>1, <3>3 DEF Overtaken
    <2>3. CASE q # r
      BY <1>3, <2>1, <2>3 DEF LoadSnapshot, TypeOK, AccessTypeOK
    <2> QED BY <2>2, <2>3
  <1>6. CASE \E s \in Sessions : Login(s) \/ Logout(s) \/ Expire(s)
    BY <1>3, <1>6 DEF Login, Logout, Expire
  <1>7. CASE \E q \in Requests : End(q)
    BY <1>3, <1>7 DEF End, TypeOK, AccessTypeOK, Idle
  <1>8. CASE \E q \in Requests, u \in Users, role \in Granted : SetMember(q, u, role)
    BY <1>3, <1>8 DEF SetMember, TypeOK, AccessTypeOK, Idle
  <1>9. CASE \E q \in Requests, u \in Users : RemoveMember(q, u)
    BY <1>3, <1>9 DEF RemoveMember, TypeOK, AccessTypeOK, Idle
  <1> QED BY <1>4, <1>5, <1>6, <1>7, <1>8, <1>9 DEF RequestOrGrant, AccessNext

\* Every step keeps every request behind and overtaken.
LEMMA ContextsNext ==
    ASSUME TypeOK, AllBehind, \A r \in Requests : Overtaken(r), Next, NEW r \in Requests
    PROVE  Behind(r)' /\ Overtaken(r)'
  <1>0. Behind(r) /\ Overtaken(r)
    BY DEF AllBehind
  <1>1. CASE RequestOrGrant
    BY <1>0, <1>1, BehindNext, OvertakenAccess DEF RequestOrGrant, TypeOK, AllBehind
  <1>a. ASSUME NEW p \in Requests, NEW phase \in Phase \ {"idle", "authorizing"},
               request[p].phase \notin {"idle", "authorizing"},
               request' = [request EXCEPT ![p].phase = phase],
               UNCHANGED <<members, access_epochs, outdated, corpus_generation, overtaken>>
        PROVE  Behind(r)' /\ Overtaken(r)'
    <2>1. /\ request'[p].phase = phase
          /\ request'[p].session = request[p].session
          /\ request'[p].access_revision = request[p].access_revision
          /\ request'[p].generation = request[p].generation
          /\ \A q \in Requests : q # p => request'[q] = request[q]
      BY <1>a, PhaseMoves DEF TypeOK
    <2> QED BY <1>0, <1>a, <2>1, ContextKept
  <1>2. CASE \E p \in Requests, k \in Keys, q \in Questions : Replay(p, k, q)
    BY <1>2, <1>a DEF Replay, MayBegin, Phase
  <1>3. CASE \E p \in Requests, k \in Keys, q \in Questions : BeginChat(p, k, q)
    BY <1>3, <1>a DEF BeginChat, MayBegin, Phase
  <1>4. CASE \E p \in Requests : Release(p)
    <2>1. PICK p \in Requests : Release(p)
      BY <1>4
    <2>2. PICK phase \in {"replied", "failing"} : request' = [request EXCEPT ![p].phase = phase]
      BY <2>1 DEF Release
    <2>3. phase \in Phase \ {"idle", "authorizing"}
      BY <2>2 DEF Phase
    <2>4. request[p].phase \notin {"idle", "authorizing"}
      BY <2>1 DEF Release
    <2>5. UNCHANGED <<members, access_epochs, outdated, corpus_generation, overtaken>>
      BY <2>1 DEF Release
    <2> QED BY <2>2, <2>3, <2>4, <2>5, <1>a
  <1>5. CASE \E p \in Requests, retryable \in BOOLEAN : FailChat(p, retryable)
    BY <1>0, <1>5, ContextKept DEF FailChat, TypeOK, AccessTypeOK
  <1>6. CASE \E k \in Keys : Deadline(k)
    BY <1>0, <1>6, ContextKept DEF Deadline, accessVars
  <1>b. CASE Invalidate /\ UNCHANGED <<request, members, access_epochs, outdated>>
    <2>1. Overtaken(r)'
      BY <1>0, <1>b, OvertakenInvalidate
    <2>2. Behind(r)'
      BY <1>0, <1>b DEF Behind, Caller
    <2> QED BY <2>1, <2>2
  <1>7. CASE EvidenceChanges \/ AcceptCleanup
    BY <1>7, <1>b DEF EvidenceChanges, AcceptCleanup
  <1>8. CASE Sanitize
    BY <1>0, <1>8, ContextKept DEF Sanitize, accessVars
  <1>9. CASE FinishCleanup
    BY <1>0, <1>9, <1>b, ContextKept DEF FinishCleanup
  <1> QED BY <1>1, <1>2, <1>3, <1>4, <1>5, <1>6, <1>7, <1>8, <1>9, Next DEF Next

Contexts == AllBehind /\ \A r \in Requests : Overtaken(r)

\* Contexts stay behind and overtaken.
LEMMA ContextsAlways == Spec => []Contexts
  <1>1. Init => Contexts
    <2> SUFFICES ASSUME Init PROVE Contexts
      OBVIOUS
    <2>1. \A r \in Requests : request[r].phase = "idle"
      BY DEF Init, AccessInit, Idle
    <2>2. overtaken = {} /\ outdated = {}
      BY DEF Init, AccessInit, ChatInit
    <2> QED BY <2>1, <2>2 DEF Contexts, AllBehind, Behind, Overtaken
  <1>2. TypeOK /\ Contexts /\ [Next]_vars => Contexts'
    <2> SUFFICES ASSUME TypeOK, Contexts, [Next]_vars PROVE Contexts'
      OBVIOUS
    <2>1. CASE Next
      BY <2>1, ContextsNext DEF Contexts, AllBehind
    <2>2. CASE UNCHANGED vars
      BY <2>2 DEF vars, accessVars, chatVars, Contexts, AllBehind, Behind, Overtaken, Caller
    <2> QED BY <2>1, <2>2
  <1> QED BY <1>1, <1>2, TypeCorrect, PTL DEF Spec

\* A context that is outdated or overtaken is refused by release_answer.
LEMMA OutdatedRefused ==
    ASSUME TypeOK, Contexts, Next, NEW r \in outdated \cup overtaken,
           request[r].phase = "answering"
    PROVE  request'[r].phase \in {"answering", "idle"}
  <1>1. r \in Requests
    BY DEF TypeOK, AccessTypeOK
  <1>2. ~Release(r)
    <2>1. CASE r \in outdated
      BY <2>1, BehindSuffices DEF Contexts, GrantCurrent, Release, TypeOK
    <2>2. CASE r \in overtaken
      <3>1. request[r].generation \in Nat /\ corpus_generation \in Nat
        BY <1>1, InUse DEF TypeOK, AccessTypeOK, Context
      <3> QED BY <1>1, <2>2, <3>1 DEF Contexts, Overtaken, Release, Fresh
    <2> QED BY <2>1, <2>2
  <1>a. CASE request'[r] = request[r] \/ request'[r] = Idle
    BY <1>a DEF Idle
  <1>3. CASE RequestOrGrant
    BY <1>1, <1>3, <1>a, AccessLeavesChats DEF RequestOrGrant, TypeOK
  <1>4. CASE \E p \in Requests, k \in Keys, q \in Questions : Replay(p, k, q) \/ BeginChat(p, k, q)
    BY <1>1, <1>4, <1>a DEF Replay, BeginChat, MayBegin, TypeOK, AccessTypeOK
  <1>5. CASE \E p \in Requests : Release(p)
    <2>1. PICK p \in Requests : Release(p)
      BY <1>5
    <2>2. p # r
      BY <1>2, <2>1
    <2> QED BY <1>1, <1>a, <2>1, <2>2 DEF Release, TypeOK, AccessTypeOK
  <1>6. CASE \E p \in Requests, retryable \in BOOLEAN : FailChat(p, retryable)
    BY <1>1, <1>6, <1>a DEF FailChat, TypeOK, AccessTypeOK
  <1>7. CASE \E k \in Keys : Deadline(k)
    BY <1>7, <1>a DEF Deadline, accessVars
  <1>8. CASE EvidenceChanges \/ AcceptCleanup \/ Sanitize \/ FinishCleanup
    BY <1>8, <1>a DEF EvidenceChanges, AcceptCleanup, Sanitize, FinishCleanup, accessVars
  <1> QED BY <1>3, <1>4, <1>5, <1>6, <1>7, <1>8, Next DEF Next

\* No answer is released over evidence that was invalidated, or for an account whose grant
\* was changed or taken away, since its handler began.
THEOREM OutdatedAnswersRefused == Spec => OutdatedNeverReleases
  <1> DEFINE Refused == \A r \in outdated \cup overtaken :
                 request[r].phase = "answering" => request'[r].phase \in {"answering", "idle"}
  <1>1. TypeOK /\ Contexts /\ [Next]_vars => [Refused]_vars
    <2> SUFFICES ASSUME TypeOK, Contexts, Next PROVE Refused
      OBVIOUS
    <2> QED BY OutdatedRefused
  <1>2. OutdatedNeverReleases <=> [][Refused]_vars
    BY PTL DEF OutdatedNeverReleases
  <1> HIDE DEF Refused
  <1> QED BY <1>1, <1>2, TypeCorrect, ContextsAlways, PTL DEF Spec
=============================================================================
