----------------------------- MODULE MCSplitTest ----------------------------
(* Instances of SplitTest for TLC. *)
EXTENDS SplitTest

=============================================================================
