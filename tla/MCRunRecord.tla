----------------------------- MODULE MCRunRecord ----------------------------
(* Instances of RunRecord for TLC. *)
EXTENDS RunRecord

Suite    == [held_in |-> <<"i1", "i2">>, held_out |-> <<"o1", "o2", "o3">>]
=============================================================================
