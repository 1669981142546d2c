---------------------------- MODULE MCAnswering ----------------------------
(* An instance of Answering for TLC. *)
EXTENDS Answering, TLC

CONSTANTS r1, r2, q, t, plain, corrected

\* Two records found on two pages of one search; the one of two pages is found corrected.
MCLength   == (r1 :> 2) @@ (r2 :> 1)
MCHits     == q :> <<{r1}, {r2}>>
MCHistory  == t :> <<{[kind |-> "correction", evidence |-> {<<r1, 1>>}]},
                    {[kind |-> "correction", evidence |-> {<<r1, 1>>, <<r2, 1>>}]}>>
MCCites    == (plain :> {<<r1, 1>>}) @@ (corrected :> {<<r1, 1>>, <<r2, 1>>})
MCStatus   == (plain :> "current") @@ (corrected :> "corrected")
MCPatience == [shallow |-> 1, tool |-> 1, evidence |-> 1]
=============================================================================
