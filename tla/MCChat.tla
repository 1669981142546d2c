------------------------------- MODULE MCChat -------------------------------
(* Instances of Chat for TLC. *)
EXTENDS Chat, TLC

CONSTANTS ann, bob, s1, s2, k1, q1, q2, r1, r2

\* Ann created the project and administers it; Bob asks.  Each logs in once.
MCAccountOf == [s \in Sessions |-> IF s = s1 THEN ann ELSE bob]
BobAsks     == [k \in Keys |-> bob]
Symmetry    == Permutations(Requests) \cup Permutations(Questions)
=============================================================================
