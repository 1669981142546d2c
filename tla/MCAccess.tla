------------------------------ MODULE MCAccess ------------------------------
(* Instances of Access for TLC. *)
EXTENDS Access, TLC

CONSTANTS ann, bob, cem, s1, s2, s3, r1, r2

\* Ann created the project; every account has one login, or Ann two.
OneLoginEach == [s \in Sessions |-> IF s = s1 THEN ann ELSE IF s = s2 THEN bob ELSE cem]
RequestSymmetry == Permutations(Requests)
=============================================================================
