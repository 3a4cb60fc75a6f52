---------------------------- MODULE PanelReport ----------------------------
(***************************************************************************)
(* The arithmetic of a judge calibration (internal/judge: calibrate.go,    *)
(* labels.go, suite.go, bias.go, run.go; internal/stats/kappa.go): what    *)
(* people said of every item, and the tables and coefficients of the       *)
(* judge's runs.  A coefficient is what a document publishes, in           *)
(* thousandths; intervals, latencies and the wording are left out.         *)
(*                                                                         *)
(* A run is [kind, candidate, rule, pairs]: a pair is its two calls, each  *)
(* "A", "B" (the answer it was shown first, or second) or anything else.   *)
(* The runs of an item are at the seeds 1, 2, ...; a person is a number,   *)
(* its place among the labelers' names in order.                           *)
(***************************************************************************)
EXTENDS Integers, FiniteSets, FiniteSetsExt, Sequences, SequencesExt

CONSTANTS
  Items,      \* the suite
  Gold,       \* item -> the label derived from the corpus, or None
  Positions,  \* the candidate slots
  MinKappa,   \* agreement with people to be called calibrated, in thousandths
  Budget,     \* share of the items that may be lost, in per cent
  Abstain,    \* every refusal of the protocol and every tie of a person
  None        \* no label, no coefficient, nothing there

ASSUME ReportAssumption ==
  /\ IsFiniteSet(Items) /\ Items # {} /\ Abstain \notin Positions /\ None \notin Positions \cup {Abstain}
  /\ MinKappa \in 0..1000 /\ Budget \in 0..100
  /\ Gold \in [Items -> Positions \cup {Abstain, None}]

-----------------------------------------------------------------------------
(***************************************************************************)
(* What people said                                                        *)
(***************************************************************************)
Said(choice) == IF choice \in Positions THEN choice ELSE Abstain

\* firstLabel: the first label of the labeler whose name sorts first.
LabelOf(labels, item) ==
  LET given == {n \in DOMAIN labels : labels[n].item = item}
      first == Min({labels[n].by : n \in given})
  IN IF given = {} THEN None
     ELSE Said(labels[Min({n \in given : labels[n].by = first})].choice)

\* The person's label where there is one, and the derived one otherwise.
Human(labels, item) ==
  IF LabelOf(labels, item) # None THEN LabelOf(labels, item) ELSE Gold[item]

AllBad(labels) ==
  Cardinality({n \in DOMAIN labels : labels[n].item \in Items /\ labels[n].choice = "all_bad"})

\* measurements: an item's labels beside its runs.
Measurement(labels, item, runs) ==
  [gold |-> Gold[item], label |-> LabelOf(labels, item), human |-> Human(labels, item),
   runs |-> runs]

-----------------------------------------------------------------------------
(***************************************************************************)
(* What a run says                                                         *)
(***************************************************************************)
\* Mutant: a fleet that fails is a judge that abstains.
Measured_Any(run) == TRUE

\* A timeout or a failure is the machine, not the judge.
Measured(run) == run.kind \in {"selected", "no_candidate"}

Category(run) == IF run.kind = "selected" THEN run.candidate ELSE Abstain
Asked(run) == run.pairs # <<>>   \* otherwise the candidates agreed

Decided(call) == call \in {"A", "B"}
\* The second call shows the pair the other way round.
Side(call, order) ==
  IF ~Decided(call) THEN Abstain
  ELSE IF (call = "A") = (order = 1) THEN "pair0" ELSE "pair1"

-----------------------------------------------------------------------------
(***************************************************************************)
(* stats.Table and Agreement: rows [of, first, second]                     *)
(***************************************************************************)
Rounded(a, b) == (2000 * a + b) \div (2 * b)

\* (p_o - p_e) / (1 - p_e), which has no value where p_e is 1.
Kappa(rows) ==
  LET n == Cardinality(rows)
      agree == Cardinality({row \in rows : row.first = row.second})
      chance == MapThenSumSet(
        LAMBDA label : Cardinality({row \in rows : row.first = label})
                         * Cardinality({row \in rows : row.second = label}),
        {row.first : row \in rows})
  IN IF chance = n * n THEN None ELSE Rounded(n * agree - chance, n * n - chance)

\* The pair of people who share the most items, the first such in the file.
Ceiling(labels) ==
  LET Line(by) == Min({n \in DOMAIN labels : labels[n].by = by})
      Of(by, item) == {n \in DOMAIN labels : labels[n].by = by /\ labels[n].item = item}
      Shared(pair) == {labels[n].item : n \in {m \in DOMAIN labels :
                         \A by \in {pair[1], pair[2]} : Of(by, labels[m].item) # {}}}
      people == {labels[n].by : n \in DOMAIN labels}
      pairs == {pair \in people \X people : Line(pair[1]) < Line(pair[2]) /\ Shared(pair) # {}}
      best == CHOOSE pair \in pairs : \A other \in pairs :
        \/ Cardinality(Shared(other)) < Cardinality(Shared(pair))
        \/ /\ Cardinality(Shared(other)) = Cardinality(Shared(pair))
           /\ \/ Line(pair[1]) < Line(other[1])
              \/ Line(pair[1]) = Line(other[1]) /\ Line(pair[2]) <= Line(other[2])
  IN IF pairs = {} THEN None
     ELSE Kappa({[of |-> item, first |-> Said(labels[Min(Of(best[1], item))].choice),
                  second |-> Said(labels[Min(Of(best[2], item))].choice)] :
                 item \in Shared(best)})

-----------------------------------------------------------------------------
(***************************************************************************)
(* assemble                                                                *)
(***************************************************************************)
Runs(items) == UNION {{[item |-> i, seed |-> s] : s \in DOMAIN items[i].runs} : i \in DOMAIN items}
RunAt(items, at) == items[at.item].runs[at.seed]
MeasuredRuns(items) == {at \in Runs(items) : Measured(RunAt(items, at))}

\* An item whose first run measured nothing is in no coefficient.
IsMeasured(entry) == entry.runs # <<>> /\ Measured(entry.runs[1])
MeasuredItems(items) == {i \in DOMAIN items : IsMeasured(items[i])}

Pairs(items) ==
  UNION {{[of |-> <<at, n>>, calls |-> RunAt(items, at).pairs[n]] :
            n \in DOMAIN RunAt(items, at).pairs} : at \in MeasuredRuns(items)}
SwapRows(items) ==
  {[of |-> pair.of, first |-> Side(pair.calls[1], 1), second |-> Side(pair.calls[2], 2)] :
     pair \in Pairs(items)}
Flips(items) ==
  {row \in SwapRows(items) : Abstain \notin {row.first, row.second} /\ row.first # row.second}

\* The first seed against each later one.
RerunRows(items) ==
  {[of |-> at, first |-> Category(items[at.item].runs[1]), second |-> Category(RunAt(items, at))] :
     at \in {a \in MeasuredRuns(items) : a.seed > 1 /\ IsMeasured(items[a.item])}}

\* The judge's first answer against what `second` of the item says.
Against(items, which, second(_)) ==
  {[of |-> i, first |-> Category(items[i].runs[1]), second |-> second(items[i])] :
     i \in {m \in which : second(items[m]) # None}}
HumanRows(items) == Against(items, MeasuredItems(items), LAMBDA entry : entry.human)

\* Each call that named an answer, and those that named the one shown first.
Calls(items) ==
  {call \in {[of |-> pair.of, order |-> n, said |-> pair.calls[n]] : pair \in Pairs(items), n \in 1..2} :
     Decided(call.said)}

OverBudget(items) ==
  100 * Cardinality(DOMAIN items \ MeasuredItems(items)) > Budget * Cardinality(DOMAIN items)

Verdict(items) ==
  LET human == Kappa(HumanRows(items))
  IN IF OverBudget(items) \/ human = None THEN "unmeasured"
     ELSE IF human >= MinKappa THEN "calibrated" ELSE "uncalibrated"

Kinds == {"selected", "no_candidate", "judge_timeout", "judge_failed"}

\* The report: the six fields a document quotes, and what else it counts.
\* Some of it no trace records, and a replay carries it.
Report(items, carried) ==
  [swap   |-> Kappa(SwapRows(items)),
   rerun  |-> Kappa(RerunRows(items)),
   human  |-> Kappa(HumanRows(items)),
   nHuman |-> Cardinality(HumanRows(items)),
   nItems |-> Cardinality(DOMAIN items),
   verdict |-> Verdict(items),
   gold   |-> Kappa(Against(items, MeasuredItems(items), LAMBDA entry : entry.gold)),
   labels |-> Kappa(Against(items, MeasuredItems(items), LAMBDA entry : entry.label)),
   judged |-> Kappa(Against(items, {i \in MeasuredItems(items) : Asked(items[i].runs[1])},
                            LAMBDA entry : entry.human)),
   unmeasured |-> Cardinality(DOMAIN items \ MeasuredItems(items)),
   kinds  |-> [kind \in Kinds |-> Cardinality({at \in Runs(items) : RunAt(items, at).kind = kind})],
   flips  |-> Cardinality(Flips(items)),
   calls  |-> Cardinality(Calls(items)),
   first  |-> Cardinality({call \in Calls(items) : call.said = "A"}),
   \* what indecision cost where the people decided
   abstained |-> Cardinality({at \in Runs(items) : /\ items[at.item].gold \in Positions
                                                   /\ RunAt(items, at).kind = "no_candidate"}),
   carried |-> carried]

Published(report) ==
  <<report.swap, report.rerun, report.human, report.nHuman, report.nItems, report.verdict>>
=============================================================================
