----------------------------- MODULE MCPrivacy -----------------------------
(* Instances of Privacy for TLC. *)
EXTENDS Privacy, TLC

CONSTANTS u1, u2, r1, r2, lf, lb, lena, tom

Tom         == <<"Tom">>
Lena        == <<"Lena">>
LenaFischer == <<"Lena", "Fischer">>
LenaBerg    == <<"Lena", "Berg">>
Mail        == <<"t@x">>

\* Two people called Lena are known.  Both uploads name Tom, who is new; the mapper may also
\* take Tom for Lena Berg, so that two reviews disagree about him.
MCRegistry    == (lf :> [display_name |-> LenaFischer, contacts |-> {}])
                 @@ (lb :> [display_name |-> LenaBerg, contacts |-> {}])
MCText        == (r1 :> <<"Tom">>) @@ (r2 :> <<"Tom", "t@x", "OP1">>)

\* Nobody is known, and a first name stands alone beside the full name it belongs to.
Nobody        == <<>>
FullNames     == (r1 :> <<"Lena", "Fischer">>) @@ (r2 :> Lena)

MCRecordsOf   == (u1 :> <<r1>>) @@ (u2 :> <<r2>>)
MCName        == {Lena, LenaFischer, LenaBerg, Tom}
MCContact     == {Mail}
MCPersonalId  == {<<"OP1">>}
MCInitials    == (LenaFischer :> <<"LF">>) @@ (LenaBerg :> <<"LB">>)
MCProposed    == (Lena :> lena) @@ (LenaFischer :> lf) @@ (LenaBerg :> lb) @@ (Tom :> tom)
MCSupports    == {<<LenaBerg, Mail>>}
MCPlausible   == {<<Tom, LenaBerg>>}
MCAssociation == {[display_name |-> Tom, contacts |-> {Mail}]}
=============================================================================
