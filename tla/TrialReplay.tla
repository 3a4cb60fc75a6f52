----------------------------- MODULE TrialReplay ----------------------------
(***************************************************************************)
(* trials.jsonl and what `uzushio run --replay` recomputes from it         *)
(* (internal/loop/replay.go).  A journal is a sequence of rows, one per    *)
(* trial; the fields a verdict does not depend on are left out.            *)
(***************************************************************************)
EXTENDS PairGate, Sequences

CONSTANTS
  Pass, Fail,   \* a trial that answered, and how
  NoAnswer      \* a trial of any other error class

Answers  == {Pass, Fail}
Outcomes == Answers \cup {NoAnswer}
Answered(outcome) == outcome \in Answers

ASSUME OutcomeAssumption == Pass # Fail /\ NoAnswer \notin Answers

Arms == {"base", "edit"}

(***************************************************************************)
(* pairOutcome, the pairing arithmetic: the edit won where only it passed. *)
(* A pair either arm did not answer is not counted.                        *)
(***************************************************************************)
Pending == 2  \* the word "pending": outside the pair outcomes
Counted(base, edit) == Answered(base) /\ Answered(edit)
PairOutcome(base, edit) ==
  CASE edit = Pass /\ base # Pass -> EditWon
    [] base = Pass /\ edit # Pass -> BaselineWon
    [] OTHER                      -> Tie

\* The pair outcome as a row carries it: "pending" or the number.
Stored(base, edit) ==
  IF Counted(base, edit) THEN PairOutcome(base, edit) ELSE Pending

(***************************************************************************)
(* The rows of a journal joined into pairs, by pair id.  A later row of    *)
(* one arm replaces an earlier one.                                        *)
(***************************************************************************)
RowsOf(journal, id, arm) ==
  {k \in DOMAIN journal : journal[k].pair = id /\ journal[k].arm = arm}
Row(journal, id, arm) == journal[Max(RowsOf(journal, id, arm))]

PairIds(journal) == {journal[k].pair : k \in DOMAIN journal}
Joined(journal) ==
  {id \in PairIds(journal) : \A arm \in Arms : RowsOf(journal, id, arm) # {}}

OutcomeOf(journal, id) ==
  Stored(Row(journal, id, "base").outcome, Row(journal, id, "edit").outcome)
JoinedAs(journal, outcomes) ==
  {id \in Joined(journal) : OutcomeOf(journal, id) \in outcomes}

(***************************************************************************)
(* lostFrom: the tasks whose scheduled repeats, as the rows state their    *)
(* number, are all in and all won by the baseline.                         *)
(***************************************************************************)
OfTask(journal, ids, task) ==
  {id \in ids : Row(journal, id, "edit").task = task}
RepeatsOf(journal, task) ==
  LET ids == OfTask(journal, Joined(journal), task)
  IN  Row(journal, CHOOSE id \in ids : TRUE, "edit").repeats
LostFrom(journal) ==
  {task \in {Row(journal, id, "edit").task : id \in Joined(journal)} :
     LET repeats == RepeatsOf(journal, task)
     IN  /\ repeats > 0
         /\ Cardinality(OfTask(journal, JoinedAs(journal, PairOutcomes), task)) = repeats
         /\ Cardinality(OfTask(journal, JoinedAs(journal, {BaselineWon}), task)) = repeats}

Recomputed(journal) ==
  [wins   |-> Cardinality(JoinedAs(journal, {EditWon})),
   losses |-> Cardinality(JoinedAs(journal, {BaselineWon})),
   ties   |-> Cardinality(JoinedAs(journal, {Tie})),
   lost   |-> Cardinality(LostFrom(journal))]

(***************************************************************************)
(* The anomalies Replay reports about the rows themselves: a pair without  *)
(* one row on each arm, and a stored outcome the two arms do not bear out. *)
(***************************************************************************)
OddPairs(journal) == PairIds(journal) \ Joined(journal)
Misstated(journal) ==
  {id \in Joined(journal) : Row(journal, id, "edit").stored # OutcomeOf(journal, id)}
=============================================================================
