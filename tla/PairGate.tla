------------------------------ MODULE PairGate ------------------------------
(***************************************************************************)
(* The sequential test `uzushio run` decides a split with                  *)
(* (internal/stats/stats.go): the beta-mixture e-process on the discordant *)
(* pairs, the confidence sequences got by inverting it, and the verdict    *)
(* rule read off them.                                                     *)
(*                                                                         *)
(* The code works in floating point logarithms with the prior a = 1.  Here *)
(* the e-value is compared exactly, because for a = 1                      *)
(*     B(1+b, 1+c) / B(1, 1) = b! c! / (b+c+1)!                            *)
(* so "E(b, c) >= level" is an inequality between integers.  A confidence  *)
(* limit is rounded outwards to the next multiple of 1/Grid: the code's    *)
(* sixty bisections find it to 2^-60.                                      *)
(***************************************************************************)
EXTENDS Integers, FiniteSetsExt, Combinatorics, AcceptanceRule

CONSTANTS
  AlphaInv,  \* 1/alpha; 20 in the code
  Grid,      \* resolution of the confidence limits
  Margin,    \* m, in units of 1/Grid^2
  CountGate  \* k, or CountGateOff

CountGateOff == -1

ASSUME GateAssumption ==
  /\ AlphaInv \in Nat \ {0}
  /\ Grid \in Nat \ {0}
  /\ Margin \in Nat
  /\ CountGate \in Nat \cup {CountGateOff}

(***************************************************************************)
(* Evidence: one split's tally.  `lost` is LostTasks.                      *)
(***************************************************************************)
Evidence == [wins : Nat, losses : Nat, ties : Nat, lost : Nat]

NoEvidence == [wins |-> 0, losses |-> 0, ties |-> 0, lost |-> 0]

\* The pair outcomes.
EditWon     == 1
Tie         == 0
BaselineWon == -1
PairOutcomes == {EditWon, Tie, BaselineWon}

\* Evidence.Observe, without LostTasks, which its caller sets.
Observe(e, outcome) ==
  CASE outcome > 0 -> [e EXCEPT !.wins = @ + 1]
    [] outcome < 0 -> [e EXCEPT !.losses = @ + 1]
    [] OTHER       -> [e EXCEPT !.ties = @ + 1]

Pairs(e)      == e.wins + e.losses + e.ties
Discordant(e) == e.wins + e.losses

(***************************************************************************)
(* LogEAt: does the e-value against the point null theta = t/Grid reach    *)
(* level?  The e-value is infinite at both ends of [0, 1].                 *)
(***************************************************************************)
EReachesAt(b, c, t, level) ==
  \/ t <= 0
  \/ t >= Grid
  \/ Grid^(b + c) >= level * (b + c + 1) * choose(b + c, b) * t^b * (Grid - t)^c

\* The powers of two.
twoTo[n \in Nat] == IF n = 0 THEN 1 ELSE 2 * twoTo[n - 1]

\* Mutant: the likelihood ratio of the best fixed order, not of the mixture.
EReaches_Unmixed(b, c, level) == twoTo[b + c] >= level * choose(b + c, b)

\* LogE: the same at theta = 1/2, whatever the grid.
EReaches(b, c, level) ==
  twoTo[b + c] >= level * (b + c + 1) * choose(b + c, b)

(***************************************************************************)
(* ThetaCS, in units of 1/Grid: the limits of the set of theta the test    *)
(* has not rejected, searched for outwards from the observed rate          *)
(* b/(b+c).  `level` is 1/alpha for the interval wanted.                   *)
(***************************************************************************)
ThetaCS(b, c, level) ==
  IF b + c = 0
  THEN [lo |-> 0, hi |-> Grid]
  ELSE [lo |-> Max({t \in 0..Grid : /\ t * (b + c) <= b * Grid
                                    /\ EReachesAt(b, c, t, level)}),
        hi |-> Min({t \in 0..Grid : /\ t * (b + c) >= b * Grid
                                    /\ EReachesAt(b, c, t, level)})]

\* Mutant: the two lower limits multiplied, as if the product were monotone.
DeltaCorners_LowerOnly(e) ==
  {ThetaCS(Discordant(e), e.ties, 2 * AlphaInv).lo
     * (2 * ThetaCS(e.wins, e.losses, 2 * AlphaInv).lo - Grid)}

(***************************************************************************)
(* DeltaCS, in units of 1/Grid^2: delta = d * (2 theta - 1) over the       *)
(* product of two intervals, each at alpha/2, at whose corners the         *)
(* extremes are attained.                                                  *)
(***************************************************************************)
DeltaCorners(e) ==
  LET theta == ThetaCS(e.wins, e.losses, 2 * AlphaInv)
      disc  == ThetaCS(Discordant(e), e.ties, 2 * AlphaInv)
  IN  {d * (2 * t - Grid) : d \in {disc.lo, disc.hi}, t \in {theta.lo, theta.hi}}

DeltaLo(e) == IF Pairs(e) = 0 THEN -(Grid * Grid) ELSE Min(DeltaCorners(e))

\* The four booleans of the verdict rule; the gain is asked at 2/alpha.
Gain(e)        == e.wins > e.losses /\ EReaches(e.wins, e.losses, 2 * AlphaInv)
Harm(e)        == e.losses > e.wins /\ EReaches(e.wins, e.losses, AlphaInv)
NonInferior(e) == Pairs(e) > 0 /\ DeltaLo(e) >= -Margin
CountOK(e)     == CountGate = CountGateOff \/ e.lost <= CountGate

\* Mutant: the count gate read last.
Verdict_GateLast(e) ==
  CASE Harm(e)                                -> "regress"
    [] ~Harm(e) /\ NonInferior(e) /\ Gain(e)  -> "improve"
    [] ~Harm(e) /\ NonInferior(e) /\ ~Gain(e) -> "hold"
    [] ~Harm(e) /\ ~NonInferior(e) /\ ~CountOK(e) -> "regress"
    [] OTHER                                  -> "inconclusive"

\* Params.Read: harm and the count gate are read before gain.
Reading(e, gateOK) ==
  IF Harm(e) \/ ~gateOK THEN "regress"
  ELSE IF ~NonInferior(e) THEN "inconclusive"
  ELSE IF Gain(e) THEN "improve" ELSE "hold"
Verdict(e) == Reading(e, CountOK(e))

Decided(e) == Verdict(e) \in {"regress", "improve"}
=============================================================================
