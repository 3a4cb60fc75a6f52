------------------------------ MODULE TrialPlan -----------------------------
(***************************************************************************)
(* The fixed order of a judge trial (internal/judge/trial.go: TrialPlan):  *)
(* which items run, in which order, under which condition.  Nothing        *)
(* measured changes it.                                                    *)
(***************************************************************************)
EXTENDS Naturals, FiniteSets, SequencesExt

CONSTANTS
  Dev,        \* the items of set D, in manifest order
  Known,      \* the known-failure items of set R
  Rest        \* every other set's

ASSUME PlanAssumption ==
  /\ \A items \in {Dev, Known, Rest} : items \in Seq(STRING)
  /\ Cardinality(Range(Dev \o Known \o Rest)) = Len(Dev) + Len(Known) + Len(Rest)

Conditions == {"candidate", "base"}
Other(condition) == CHOOSE c \in Conditions : c # condition

(***************************************************************************)
(* interleave: item i of the r known failures follows D item               *)
(* round(i * d / (r + 1)), in integers.                                    *)
(***************************************************************************)
\* Mutant: the known failures counted from zero.
Position_FromZero(i, d, r) == (2 * (i - 1) * d + r + 1) \div (2 * (r + 1))

Position(i, d, r) == (2 * i * d + r + 1) \div (2 * (r + 1))
After(k) ==
  FlattenSeq([i \in DOMAIN Known |->
    IF Position(i, Len(Dev), Len(Known)) = k THEN <<Known[i]>> ELSE <<>>])

PlanItems ==
  IF Dev = <<>> \/ Known = <<>> THEN Dev \o Known \o Rest
  ELSE After(0) \o FlattenSeq([k \in DOMAIN Dev |-> <<Dev[k]>> \o After(k)]) \o Rest

(***************************************************************************)
(* TrialPlan: each item under the candidate and then the base, or blocks   *)
(* that run one condition through and then the other, the leading          *)
(* condition swapping block by block.  A card's `block` is its block size, *)
(* or 0 where it asks for no alternating blocks.                           *)
(***************************************************************************)
Under(items, condition) ==
  [k \in DOMAIN items |-> [item |-> items[k], condition |-> condition]]
InBlocks(size) ==
  LET n        == Len(PlanItems)
      block(b) == SubSeq(PlanItems, (b - 1) * size + 1, Min({b * size, n}))
      lead(b)  == IF b % 2 = 1 THEN "candidate" ELSE "base"
  IN  FlattenSeq([b \in 1..((n + size - 1) \div size) |->
                    Under(block(b), lead(b)) \o Under(block(b), Other(lead(b)))])
PlanOf(card) ==
  IF card.block > 0 THEN InBlocks(card.block)
  ELSE FlattenSeq([k \in DOMAIN PlanItems |->
                     Under(<<PlanItems[k]>>, "candidate") \o Under(<<PlanItems[k]>>, "base")])

\* switchCount: how often the plan enters a condition with a switch hook, the
\* first entry included.
SwitchCount(card, steps) ==
  Cardinality({n \in DOMAIN steps :
    /\ steps[n].condition \in card.hooked
    /\ n = 1 \/ steps[n - 1].condition # steps[n].condition})
=============================================================================
