------------------------------- MODULE MCStore -------------------------------
(***************************************************************************)
(* Instances of Store: two documents of one record each, or one document   *)
(* of two; the person occurs in one of the records.                        *)
(***************************************************************************)
EXTENDS Store, TLC

CONSTANTS d1, d2, r1, r2, p1

MCOneEach == r1 :> d1 @@ r2 :> d2

MCTogether == r1 :> d1 @@ r2 :> d1

MCMentioning == p1 :> {r1}

=============================================================================
