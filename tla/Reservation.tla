---------------------------- MODULE Reservation ----------------------------
(***************************************************************************)
(* What the chat service promises about one request identifier, whatever   *)
(* is retried, delayed or cancelled.  An attempt reserves the identifier   *)
(* for a time; in that time only this attempt may answer, and nobody else  *)
(* gets a reservation.  An answered identifier is never reserved again.    *)
(* Nothing is reserved or answered while the project is closed for a       *)
(* cleanup, which forgets all identifiers.                                 *)
(***************************************************************************)
EXTENDS Naturals

CONSTANT Keys

VARIABLES
    open,      \* reservations and answers are accepted
    latest,    \* latest[k]: reservations given out for k so far
    holder,    \* holder[k]: the reservation that holds k, 0 if none
    expired,   \* expired[k]: the time of the holder is over
    answer     \* answer[k]: the reservation that answered k, 0 if none

promiseVars == <<open, latest, holder, expired, answer>>

Init ==
    /\ open = TRUE
    /\ latest = [k \in Keys |-> 0]
    /\ holder = [k \in Keys |-> 0]
    /\ expired = [k \in Keys |-> FALSE]
    /\ answer = [k \in Keys |-> 0]

Reserve(k) ==
    /\ open
    /\ answer[k] = 0
    /\ holder[k] = 0 \/ expired[k]
    /\ latest' = [latest EXCEPT ![k] = @ + 1]
    /\ holder' = [holder EXCEPT ![k] = latest[k] + 1]
    /\ expired' = [expired EXCEPT ![k] = FALSE]
    /\ UNCHANGED <<open, answer>>

Answer(k) ==
    /\ open
    /\ holder[k] # 0
    /\ ~expired[k]
    /\ answer' = [answer EXCEPT ![k] = holder[k]]
    /\ holder' = [holder EXCEPT ![k] = 0]
    /\ UNCHANGED <<open, latest, expired>>

GiveUp(k) ==
    /\ holder[k] # 0
    /\ ~expired[k]
    /\ holder' = [holder EXCEPT ![k] = 0]
    /\ UNCHANGED <<open, latest, expired, answer>>

TimeOut(k) ==
    /\ holder[k] # 0
    /\ expired' = [expired EXCEPT ![k] = TRUE]
    /\ UNCHANGED <<open, latest, holder, answer>>

Close == open /\ open' = FALSE /\ UNCHANGED <<latest, holder, expired, answer>>

Forget ==
    /\ ~open
    /\ holder' = [k \in Keys |-> 0]
    /\ expired' = [k \in Keys |-> FALSE]
    /\ answer' = [k \in Keys |-> 0]
    /\ UNCHANGED <<open, latest>>

Reopen == ~open /\ open' = TRUE /\ UNCHANGED <<latest, holder, expired, answer>>

Next ==
    \/ \E k \in Keys : Reserve(k) \/ Answer(k) \/ GiveUp(k) \/ TimeOut(k)
    \/ Close \/ Forget \/ Reopen

Spec == Init /\ [][Next]_promiseVars
=============================================================================
