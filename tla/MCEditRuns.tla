----------------------------- MODULE MCEditRuns -----------------------------
(* Instances of EditRuns for TLC: the runs are interchangeable. *)
EXTENDS EditRuns, TLC

RunSymmetry == Permutations(Runs)
=============================================================================
