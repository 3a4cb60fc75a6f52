------------------------------ MODULE Finalist ------------------------------
(***************************************************************************)
(* What an assessment asks of the D/R trial that chose its finalist, before*)
(* it touches the final set (internal/judge/assess.go: checkFinalist,      *)
(* bindFinalistArtifacts).  A trial is read from three pinned files: its   *)
(* report, its identity (resume.json) and its journal.  A configuration, a *)
(* seed or a rule of a card is part of the card's `setup`.                 *)
(***************************************************************************)
EXTENDS Naturals, FiniteSets, Sequences, SequencesExt

Sides == {"base", "candidate"}

\* What the report must say of itself.
IsFinalist(report) ==
  /\ report.stage = "B" /\ report.suggested = "finalist"
  /\ report.recorded = "result" /\ report.stop = "completed" /\ report.interrupted = 0
  /\ {"D", "R"} = {step.set : step \in Range(report.plan)}

\* The report, the identity and the journal are those of one complete, fresh
\* trial: every planned step was measured once, and the report says what the
\* journal does of each item.
OneTrial(report, identity, rows) ==
  LET items == {[item |-> step.item, set |-> step.set] : step \in Range(identity.plan)}
      row(item, set, side) ==
        CHOOSE r \in Range(rows) : r.step = [item |-> item, set |-> set, side |-> side]
  IN /\ report.setup = identity.setup /\ identity.plan # <<>>
     /\ report.completed = Cardinality(items) /\ report.reused = 0
     /\ report.measured = Len(identity.plan)
     /\ \A m, n \in DOMAIN rows : rows[m].step = rows[n].step => m = n
     /\ {r.step : r \in Range(rows)} = Range(identity.plan)
     /\ \A step \in Range(identity.plan) : step.set \in {"D", "R"} /\ step.side \in Sides
     /\ \A r \in Range(rows) :
          /\ r.source = "measured" /\ r.measured /\ ~r.failed
          /\ r.condition = report.setup.conditions[r.step.side]
     /\ {[item |-> i.item, set |-> i.set] : i \in Range(report.items)} = items
     /\ Len(report.items) = Cardinality(items)
     /\ \A i \in Range(report.items) :
          /\ i.complete
          /\ \A side \in Sides : i.chosen[side] = row(i.item, i.set, side).chosen

\* The assessment measures the same two conditions, by the same builds.
SameExperiment(card, report, identity, builds) ==
  /\ card.setup = report.setup
  /\ DOMAIN identity.builds = Sides /\ identity.builds = builds

\* checkHoldoutNotInFinalist: no conversation of H was an input of D or R.
Unseen(conversations, identity) == conversations \cap identity.files = {}
=============================================================================
