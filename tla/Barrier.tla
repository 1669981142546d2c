------------------------------- MODULE Barrier -------------------------------
(***************************************************************************)
(* What the write barrier promises, whatever jobs, leases, retries and     *)
(* late reports do below it.  A cleanup raises the barrier over some       *)
(* documents.  From then on nobody else dispatches a call of the index:    *)
(* calls only settle.  When none is left the project is drained and stays  *)
(* so, and not before that the cleanup removes what was written.  The      *)
(* barrier comes down when everything ever written for its documents has   *)
(* been removed.                                                           *)
(***************************************************************************)
CONSTANTS
    Target,    \* documents a cleanup may be about
    Point,     \* entries of the index
    Call       \* calls of the index that may be dispatched

VARIABLES
    phase,     \* "open", "closed" by a cleanup, or "drained" under it
    targets,   \* the documents the cleanup is about
    prepared,  \* calls of others that are announced but not sent
    sent,      \* calls of others that may still take effect
    written,   \* written[t]: every entry others ever announced to write for t
    removed    \* entries whose removal by a cleanup was acknowledged

barrierVars == <<phase, targets, prepared, sent, written, removed>>

Init ==
    /\ phase = "open"
    /\ targets = {}
    /\ prepared = {}
    /\ sent = {}
    /\ written = [t \in Target |-> {}]
    /\ removed = {}

Grown ==
    /\ written' \in [Target -> SUBSET Point]
    /\ \A t \in Target : written[t] \subseteq written'[t]

\* With the barrier down jobs announce, send and settle calls as they like.
Work ==
    /\ phase = "open"
    /\ Grown
    /\ prepared' \cup sent' \subseteq Call
    /\ UNCHANGED <<phase, targets, removed>>

Raise ==
    /\ phase = "open"
    /\ phase' = "closed"
    /\ targets' \subseteq Target
    /\ UNCHANGED <<prepared, sent, written, removed>>

\* A late report settles a call or leaves it unknown; an announced call may
\* turn out to have been sent.
Settle ==
    /\ phase = "closed"
    /\ prepared' \subseteq prepared
    /\ sent' \subseteq sent \cup prepared
    /\ UNCHANGED <<phase, targets, written, removed>>

\* Nothing sent is left, and what was only announced is cancelled.
Drain ==
    /\ phase = "closed"
    /\ sent = {}
    /\ phase' = "drained"
    /\ prepared' = {}
    /\ UNCHANGED <<targets, sent, written, removed>>

Remove ==
    /\ phase = "drained"
    /\ removed \subseteq removed'
    /\ UNCHANGED <<phase, targets, prepared, sent, written>>

\* What the cleanup itself has written joins the rest when it is over.
Lower ==
    /\ phase = "drained"
    /\ \A t \in targets : written[t] \subseteq removed
    /\ phase' = "open"
    /\ targets' = {}
    /\ Grown
    /\ UNCHANGED <<prepared, sent, removed>>

Next == Work \/ Raise \/ Settle \/ Drain \/ Remove \/ Lower

Spec == Init /\ [][Next]_barrierVars
=============================================================================
