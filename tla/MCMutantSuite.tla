--------------------------- MODULE MCMutantSuite ---------------------------
EXTENDS MutantSuite

At(kind, token, refused, same) == [kind |-> kind, token |-> token, refused |-> refused, same |-> same]
MCNodes == <<At("binary", "+", FALSE, FALSE), At("binary", "<=", FALSE, FALSE),
             At("int", "7", TRUE, FALSE), At("return", "0", FALSE, TRUE), At("if", "", FALSE, FALSE),
             At("stmt", "", FALSE, FALSE)>>
MCViable(site) == site[2] # "stmt"
MCHands == {<<9, "hand">>}
=============================================================================
