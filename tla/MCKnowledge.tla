------------------------------ MODULE MCKnowledge ------------------------------
EXTENDS Knowledge

(* Narrows a search to behaviours in which every aggregate job is over before *)
(* anything else happens to the project and none is abandoned, nothing is     *)
(* deactivated, deleted or associated, and every review of a draft passes.    *)
OneAtATime ==
    /\ generation' # generation =>
          \A s \in DOMAIN jobs : jobs[s].step \in {"completed", "superseded"}
    /\ \A s \in DOMAIN jobs : jobs[s].step # "pending" => jobs'[s].step # "pending"
    /\ \A r \in Record : /\ record[r].active => record'[r].active
                         /\ record'[r].quarantined => cleanup'.kind = "erase"
    /\ \A e \in history' : e.review # "failed"
    /\ \A s \in DOMAIN jobs' : jobs'[s].batch # NoBatch =>
           \A e \in jobs'[s].batch.proposed : e.review # "failed"
=============================================================================
