---------------------------- MODULE MCJudgeTrial ---------------------------
(* Instances of JudgeTrial for TLC. *)
EXTENDS JudgeTrial

NoItems  == <<>>
OneItem  == <<"d1">>
OneKnown == <<"r1">>

Hooked   == [block |-> 0, hooked |-> Conditions, sameBuild |-> TRUE, saved |-> {"r1"}]
Blocks   == [Hooked EXCEPT !.block = 1, !.sameBuild = FALSE]
Plain    == [Hooked EXCEPT !.hooked = {}, !.saved = {}]

AllCards    == {Hooked, Blocks}
HookedCard  == {Hooked}
PlainCard   == {Plain}
=============================================================================
