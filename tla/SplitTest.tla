------------------------------ MODULE SplitTest -----------------------------
(***************************************************************************)
(* What measuring one split promises (internal/loop/measure.go: measure),  *)
(* with no goroutines, cache or journal: the scheduled pairs are folded    *)
(* into the evidence one at a time, in batches of Parallel; the statistic  *)
(* is consulted between batches; ConsecutiveInfraLimit unanswered pairs in *)
(* a row abort the split.  SplitMeasure implements this specification.     *)
(***************************************************************************)
EXTENDS PairGate

CONSTANTS
  NPairs,                \* pairs scheduled: tasks times repeats, cut at the cap
  Parallel,              \* pairs in flight at once
  ConsecutiveInfraLimit  \* unanswered pairs in a row before giving up; 5 in the code

ASSUME TestAssumption ==
  /\ NPairs \in Nat
  /\ Parallel \in Nat \ {0}
  /\ ConsecutiveInfraLimit \in Nat \ {0}

VARIABLES
  evidence,  \* the running tally
  folded,    \* pairs read back, counted or pending
  todo,      \* pairs of the current batch not read back yet
  streak,    \* unanswered pairs in a row
  status     \* "running", or why the split stopped

testVars == <<evidence, folded, todo, streak, status>>

TestInit ==
  /\ evidence = NoEvidence
  /\ folded = 0
  /\ todo = 0
  /\ streak = 0
  /\ status = "running"

StartBatch ==
  /\ status = "running"
  /\ todo = 0
  /\ folded < NPairs
  /\ ~Decided(evidence)
  /\ todo' = Min({Parallel, NPairs - folded})
  /\ UNCHANGED <<evidence, folded, streak, status>>

\* One answered pair.  A pair the baseline won may complete the outright loss
\* of its task, which is the only way the count gate's statistic moves.
FoldCounted ==
  /\ status = "running"
  /\ todo > 0
  /\ \E outcome \in PairOutcomes, more \in {0, 1} :
       /\ more = 1 => outcome = BaselineWon
       /\ evidence' = [Observe(evidence, outcome) EXCEPT !.lost = @ + more]
  /\ folded' = folded + 1
  /\ todo' = todo - 1
  /\ streak' = 0
  /\ UNCHANGED status

\* One pair that produced no answer.  It moves no statistic.
FoldPending ==
  /\ status = "running"
  /\ todo > 0
  /\ folded' = folded + 1
  /\ streak' = streak + 1
  /\ IF streak' >= ConsecutiveInfraLimit
     THEN status' = "aborted" /\ todo' = 0
     ELSE status' = status /\ todo' = todo - 1
  /\ UNCHANGED evidence

Finish ==
  /\ status = "running"
  /\ todo = 0
  /\ folded = NPairs \/ Decided(evidence)
  /\ status' = "done"
  /\ UNCHANGED <<evidence, folded, todo, streak>>

\* A runner error, or the process dying: whatever was in flight is not read.
StopShort ==
  /\ status = "running"
  /\ status' = "failed"
  /\ todo' = 0
  /\ UNCHANGED <<evidence, folded, streak>>

TestNext == StartBatch \/ FoldCounted \/ FoldPending \/ Finish \/ StopShort

TestSpec == TestInit /\ [][TestNext]_testVars

-----------------------------------------------------------------------------
(***************************************************************************)
(* Properties                                                              *)
(***************************************************************************)

\* Every variable stays in its range.
TestTypeOK ==
  /\ evidence \in Evidence
  /\ folded \in 0..NPairs
  /\ todo \in 0..Parallel
  /\ streak \in 0..ConsecutiveInfraLimit
  /\ status \in {"running", "done", "aborted", "failed"}

\* Of the paths of n more discordant pairs from (b, c), how many ever reach
\* the e-value `level`?  Under the null every path is equally likely.
Crossings(b0, c0, n0, level) ==
  LET paths[n \in 0..n0] ==  \* with n pairs left, by the wins among the others
        [w \in 0..(n0 - n) |->
           IF EReaches(b0 + w, c0 + (n0 - n - w), level) THEN twoTo[n]
           ELSE IF n = 0 THEN 0
           ELSE paths[n - 1][w] + paths[n - 1][w + 1]]
  IN  paths[n0][0]

\* Ville's inequality, the reason the run may look after every pair: from any
\* evidence, the chance under the null of ever reaching 1/alpha within the
\* pairs left is at most alpha times the e-value already held
\* (stats.go, LogE and Params.HarmThreshold).
AnytimeValid ==
  LET b == evidence.wins
      c == evidence.losses
      n == NPairs - folded
  IN  Crossings(b, c, n, AlphaInv) * AlphaInv * (b + c + 1) * choose(b + c, b)
        <= twoTo[n + b + c]

\* The interval on the pass-rate difference contains the observed difference,
\* so an edit observed to be worse than the margin is never certified
\* non-inferior, however few pairs disagreed (stats.go, DeltaCS).
CertifiedCoversObserved ==
  /\ Pairs(evidence) > 0 =>
       DeltaLo(evidence) * Pairs(evidence)
         <= (evidence.wins - evidence.losses) * Grid * Grid
  /\ Verdict(evidence) \in {"hold", "improve"} =>
       (evidence.losses - evidence.wins) * Grid * Grid <= Margin * Pairs(evidence)

\* A breached count gate does not unbreach: once a task too many is lost
\* outright, no later pair makes the split anything but a regression
\* (stats.go, Params.Read).
CountBreachIsFinal ==
  [][~CountOK(evidence) => Verdict(evidence') = "regress"]_testVars
=============================================================================
