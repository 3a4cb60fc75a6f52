--------------------------- MODULE MCSplitMeasure ---------------------------
(* Instances of SplitMeasure for TLC: two tasks, and a cap that truncates  *)
(* the last round-robin pass, so that one task has fewer repeats.          *)
EXTENDS SplitMeasure

TwoTasks == <<"t1", "t2">>
Off == CountGateOff
=============================================================================
