---------------------------- MODULE AcceptanceRule --------------------------
(***************************************************************************)
(* The verdict vocabulary and what may be concluded from the verdicts of   *)
(* an edit's two splits (internal/vocab/vocab.go, internal/stats/stats.go  *)
(* and the decision of internal/loop/record.go: apply).                    *)
(***************************************************************************)

Verdicts == {"regress", "improve", "hold", "inconclusive"}

\* The splits, in the order a run measures them.
Splits == <<"held_in", "held_out">>
SplitNames == {"held_in", "held_out"}

\* Mutant: a gain on one split is enough when the other is inconclusive.
Promote_EitherSplit(in, out) == "improve" \in {in, out} /\ "regress" \notin {in, out}

\* Promote: the acceptance rule over the two splits' verdicts.
Promote(in, out) ==
  /\ {in, out} \subseteq {"improve", "hold"}
  /\ "improve" \in {in, out}

(***************************************************************************)
(* What became of a split: a verdict over at least one pair; "unmeasured", *)
(* no pair answered; or "not_run", because the other split regressed.      *)
(***************************************************************************)
Results == Verdicts \cup {"unmeasured", "not_run"}

\* verdictOf: a split nobody measured has concluded nothing.
VerdictOf(result) == IF result \in Verdicts THEN result ELSE "inconclusive"

Promoted(results) ==
  Promote(VerdictOf(results["held_in"]), VerdictOf(results["held_out"]))
Regressed(results) == \E split \in SplitNames : VerdictOf(results[split]) = "regress"

\* The words a surface answers to: who may accept an edit to it.
Autonomies == {"human-approval", "propose-only", "auto-accept"}

\* apply's switch: the status the run moves the edit to, or the one it has.
StatusAfter(results, autonomy, was) ==
  CASE Regressed(results) -> "rejected"
    [] ~Regressed(results) /\ Promoted(results) /\ autonomy = "auto-accept" -> "accepted"
    [] OTHER -> was
=============================================================================
