------------------------------- MODULE MCJobs -------------------------------
(* Instances of Jobs for TLC. *)
EXTENDS Jobs, TLC

CONSTANTS d1, d2, p1

\* What the uploads say: the first one names the person, the second does not.
OneDocument  == {d1}
TwoDocuments == {d1, d2}
OnePerson    == {p1}
Nobody       == {}
NamedInFirst == [d \in Doc |-> IF d = d1 THEN {p1} ELSE {}]
NamesNobody == [d \in Doc |-> {}]
DocumentSymmetry == Permutations(TwoDocuments)
=============================================================================
