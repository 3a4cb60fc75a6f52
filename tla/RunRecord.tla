------------------------------ MODULE RunRecord -----------------------------
(***************************************************************************)
(* The record one `uzushio run` leaves (internal/loop/loop.go: Run): the   *)
(* two splits measured one after the other, or the A/A calibration; the    *)
(* rows of trials.jsonl; run.json; and what `--replay` makes of the two.   *)
(* A split is measured one pair at a time here; SplitMeasure has the       *)
(* goroutines and the cache, and the vault is EditRuns.                    *)
(***************************************************************************)
EXTENDS TrialReplay, SequencesExt

CONSTANTS
  Tasks,     \* per split: its tasks, in the suite's order
  Repeats,   \* Mode.Repeats
  Cap,       \* Params.Cap
  AAPairs,   \* pairs of a calibration
  Parallel,
  ConsecutiveInfraLimit

ASSUME RecordAssumption ==
  /\ DOMAIN Tasks = SplitNames
  /\ \A split \in SplitNames : Tasks[split] \in Seq(STRING) /\ Tasks[split] # <<>>
  /\ \A s, t \in SplitNames : \A i \in DOMAIN Tasks[s], j \in DOMAIN Tasks[t] :
       Tasks[s][i] = Tasks[t][j] => s = t /\ i = j  \* LoadSuite refuses a task named twice
  /\ {Repeats, Parallel, ConsecutiveInfraLimit} \subseteq Nat \ {0}
  /\ {Cap, AAPairs} \subseteq Nat

(***************************************************************************)
(* schedule, and the two schedules a calibration takes turns from.  A pair *)
(* says how many repeats its task has, unless the cap cut the schedule.    *)
(***************************************************************************)
Schedule(split, cap) ==
  LET tasks == Tasks[split]
      n     == Len(tasks) * Repeats
      task(k) == tasks[((k - 1) % Len(tasks)) + 1]
  IN  [k \in 1..Min({n, cap}) |->
         [task    |-> task(k),
          repeat  |-> (k - 1) \div Len(tasks),
          repeats |-> IF n > cap THEN 0
                      ELSE Cardinality({j \in 1..n : task(j) = task(k)})]]

\* Mutant: the splits one after the other, cut at the budget.
Turns_InOrder ==
  LET all == [k \in 1..Len(Schedule(Splits[1], AAPairs)) |-> <<k, 1>>]
             \o [k \in 1..Len(Schedule(Splits[2], AAPairs)) |-> <<k, 2>>]
  IN  SubSeq(all, 1, Min({AAPairs, Len(all)}))

\* The two splits in turn until one is used up, then what the other has left,
\* cut at the budget.
Turns ==
  LET n    == [s \in {1, 2} |-> Len(Schedule(Splits[s], AAPairs))]
      both == Min({n[1], n[2]})
  IN  [i \in 1..Min({AAPairs, n[1] + n[2]}) |->
         IF i <= 2 * both THEN <<(i + 1) \div 2, IF i % 2 = 1 THEN 1 ELSE 2>>
         ELSE <<i - both, IF n[1] > n[2] THEN 1 ELSE 2>>]
AASchedule ==
  [i \in DOMAIN Turns |-> Schedule(Splits[Turns[i][2]], AAPairs)[Turns[i][1]]]

(***************************************************************************)
(* Mode.Params: the count gate is on for the held-out split only.          *)
(***************************************************************************)
VerdictOn(split, e) ==
  IF split = "held_out" THEN Verdict(e) ELSE Reading(e, TRUE)
DecidedOn(split, e) == VerdictOn(split, e) \in {"regress", "improve"}

VARIABLES
  stage,     \* the split being measured, or what the run is doing
  next,      \* pairs of the stage folded so far
  infra,     \* unanswered pairs in a row
  evidence,  \* the current split's tally
  header,    \* the header in memory
  runJSON,   \* the header last written, or NoHeader
  journal    \* the rows of trials.jsonl

vars == <<stage, next, infra, evidence, header, runJSON, journal>>

NoHeader == [written |-> FALSE]
Measuring == stage \in SplitNames \cup {"aa"}
StageSchedule == IF stage = "aa" THEN AASchedule ELSE Schedule(stage, Cap)

NewHeader == [written |-> TRUE, verdicts |-> <<>>, promote |-> FALSE, aborted |-> FALSE]

Init ==
  /\ stage \in {"held_in", "aa"}  \* Options.AA
  /\ next = 0 /\ infra = 0 /\ evidence = NoEvidence
  /\ header = NewHeader /\ runJSON = NoHeader
  /\ journal = <<>>

-----------------------------------------------------------------------------
\* journal.pair: two rows.
RowOf(p, arm, base, edit) ==
  [split   |-> stage, pair |-> <<p.task, p.repeat>>, task |-> p.task, arm |-> arm,
   outcome |-> IF arm = "base" THEN base ELSE edit,
   stored  |-> Stored(base, edit), repeats |-> p.repeats]
WritePair(p, base, edit) ==
  journal' = journal \o <<RowOf(p, "base", base, edit), RowOf(p, "edit", base, edit)>>

\* The rows of one split, each at its place in the file.
OfSplit(rows, split) == [k \in {j \in DOMAIN rows : rows[j].split = split} |-> rows[k]]

\* Mutant: a finished task the baseline did not lose once is lost.
LostTasks_NeverWon(rows) ==
  Cardinality({row.task : row \in {r \in Range(rows) : r.stored # EditWon}})

\* tally.lostTasks: the tasks whose scheduled pairs are all among the rows and
\* all went to the baseline.
LostTasks(rows) ==
  Cardinality({task \in {StageSchedule[k].task : k \in DOMAIN StageSchedule} :
    \A k \in DOMAIN StageSchedule :
      StageSchedule[k].task = task =>
        \E row \in Range(rows) : /\ row.pair = <<task, StageSchedule[k].repeat>>
                                 /\ row.stored = BaselineWon})

\* Where measure and calibrate look up from the batch they are folding.
BatchEnd == next % Parallel = 0 \/ next = Len(StageSchedule)
More == next < Len(StageSchedule)

\* One answered pair of a split.
FoldCounted ==
  /\ stage \in SplitNames /\ More
  /\ ~(BatchEnd /\ DecidedOn(stage, evidence))
  /\ \E base, edit \in Answers :
       /\ WritePair(StageSchedule[next + 1], base, edit)
       /\ evidence' = [Observe(evidence, PairOutcome(base, edit)) EXCEPT
                         !.lost = LostTasks(OfSplit(journal', stage))]
  /\ next' = next + 1 /\ infra' = 0
  /\ UNCHANGED <<stage, header, runJSON>>

\* Mutant: one unanswered pair too many.
Outage_OneMore(unanswered) == unanswered > ConsecutiveInfraLimit

\* The end of the run's patience with unanswered pairs.
Outage(unanswered) == unanswered >= ConsecutiveInfraLimit

\* One unanswered pair.  At the limit the header is written before the error
\* travels.
FoldPending ==
  /\ stage \in SplitNames /\ More
  /\ ~(BatchEnd /\ DecidedOn(stage, evidence))
  /\ \E base, edit \in Outcomes :
       ~Counted(base, edit) /\ WritePair(StageSchedule[next + 1], base, edit)
  /\ next' = next + 1 /\ infra' = infra + 1
  /\ IF Outage(infra')
     THEN /\ stage' = "aborted"
          /\ header' = [header EXCEPT !.aborted = TRUE]
          /\ runJSON' = header'
     ELSE UNCHANGED <<stage, header, runJSON>>
  /\ UNCHANGED evidence

\* A split that regressed settles the edit: the other's budget is not spent.
EndSplit ==
  /\ stage \in SplitNames
  /\ ~More \/ (BatchEnd /\ DecidedOn(stage, evidence))
  /\ LET verdict == VerdictOn(stage, evidence)
     IN  /\ header' = [header EXCEPT !.verdicts =
               Append(@, [split |-> stage, evidence |-> evidence, verdict |-> verdict])]
         /\ stage' = IF stage = "held_in" /\ verdict # "regress"
                     THEN "held_out" ELSE "deciding"
  /\ next' = 0 /\ infra' = 0 /\ evidence' = NoEvidence
  /\ UNCHANGED <<runJSON, journal>>

\* Header.Verdict and verdictOf: a split that never ran is inconclusive.
VerdictIn(h, split) ==
  LET of == {k \in DOMAIN h.verdicts : h.verdicts[k].split = split}
  IN  IF of = {} THEN "inconclusive" ELSE h.verdicts[Min(of)].verdict

\* Promote, and the header that is written before the vault is touched.
Decide ==
  /\ stage = "deciding"
  /\ header' = [header EXCEPT !.promote =
                  Promote(VerdictIn(header, "held_in"), VerdictIn(header, "held_out"))]
  /\ runJSON' = header'
  /\ stage' = "done"
  /\ UNCHANGED <<next, infra, evidence, journal>>

\* calibrate: the baseline on both arms, no outage limit, no count gate, and a
\* header with no verdict once every pair is in.
FoldAA ==
  /\ stage = "aa" /\ More
  /\ \E base, edit \in Outcomes :
       /\ WritePair(StageSchedule[next + 1], base, edit)
       /\ evidence' = IF Counted(base, edit)
                      THEN Observe(evidence, PairOutcome(base, edit)) ELSE evidence
  /\ next' = next + 1
  /\ UNCHANGED <<stage, infra, header, runJSON>>

EndAA ==
  /\ stage = "aa" /\ ~More
  /\ runJSON' = header
  /\ stage' = "done"
  /\ UNCHANGED <<next, infra, evidence, header, journal>>

\* A runner error, or the process dying between two pairs: no header.
Die ==
  /\ Measuring \/ stage = "deciding"
  /\ stage' = "failed"
  /\ UNCHANGED <<next, infra, evidence, header, runJSON, journal>>

Next ==
  \/ FoldCounted \/ FoldPending \/ EndSplit \/ Decide
  \/ FoldAA \/ EndAA \/ Die

Spec == Init /\ [][Next]_vars

-----------------------------------------------------------------------------
(***************************************************************************)
(* Replay: the splits the journal has pairs for, their verdicts, and every *)
(* way the rows and the header may disagree.                               *)
(***************************************************************************)
Replayed(rows, split) == Joined(OfSplit(rows, split)) # {}
Replay(rows, split) == Recomputed(OfSplit(rows, split))
ReplayVerdict(rows, split) ==
  IF Replayed(rows, split) THEN VerdictOn(split, Replay(rows, split)) ELSE "inconclusive"
ReplayPromote(rows) ==
  Promote(ReplayVerdict(rows, "held_in"), ReplayVerdict(rows, "held_out"))

Anomalies(h, rows) ==
  {<<"row", split>> : split \in {s \in SplitNames \cup {"aa"} :
     OddPairs(OfSplit(rows, s)) \cup Misstated(OfSplit(rows, s)) # {}}}
  \cup {<<"verdict", k>> : k \in {j \in DOMAIN h.verdicts :
           \/ ~Replayed(rows, h.verdicts[j].split)
           \/ ReplayVerdict(rows, h.verdicts[j].split) # h.verdicts[j].verdict
           \/ Replay(rows, h.verdicts[j].split) # h.verdicts[j].evidence}}
  \cup (IF ReplayPromote(rows) = h.promote THEN {} ELSE {<<"promote">>})

(***************************************************************************)
(* Properties                                                              *)
(***************************************************************************)

Stages == SplitNames \cup {"aa", "deciding", "done", "aborted", "failed"}

Headers ==
  [written : {TRUE}, promote : BOOLEAN, aborted : BOOLEAN,
   verdicts : Seq([split : SplitNames, evidence : Evidence, verdict : Verdicts])]

\* Every variable stays in its range.
TypeOK ==
  /\ stage \in Stages
  /\ next \in 0..Max({Cap, AAPairs})
  /\ infra \in 0..ConsecutiveInfraLimit
  /\ evidence \in Evidence
  /\ header \in Headers /\ Len(header.verdicts) <= 2
  /\ runJSON \in Headers \cup {NoHeader}
  /\ Len(journal) <= 2 * (Len(Schedule("held_in", Max({Cap, AAPairs})))
                          + Len(Schedule("held_out", Max({Cap, AAPairs}))))

\* The cap leaves both schedules whole: where it cuts one, schedule returns
\* before it fills in a pair's repeats (see ReplayCountsOutrightLosses).
Uncut == \A split \in SplitNames : Len(Tasks[split]) * Repeats <= Cap

\* "The claim the record makes is that it is sufficient to re-derive every
\* decision offline": replaying the rows a finished run wrote finds nothing,
\* in either mode (replay.go, Replay and Comparison.Identical).
FinishedRunReplays == stage = "done" => Anomalies(runJSON, journal) = {}

\* A promotion stands on both splits: their rows show a non-inferior edit on
\* each, a gain on one, and no task of the held-out split lost outright
\* (stats.go, Promote; loop.go, Run).
PromotionStandsOnTheRows ==
  stage = "done" /\ runJSON.promote =>
    /\ \A split \in SplitNames :
         NonInferior(Replay(journal, split)) /\ ~Harm(Replay(journal, split))
    /\ \E split \in SplitNames : Gain(Replay(journal, split))
    /\ LostFrom(OfSplit(journal, "held_out")) = {}

\* A calibration measures the suite and not half of it: it takes the two
\* splits in turn, and leaves one behind only when that one is used up
\* (measure.go, calibrate).
CalibrationIsBalanced ==
  stage = "aa" =>
    LET taken(split) == Cardinality({task \in Range(Tasks[split]) \X (0..(Repeats - 1)) :
                                       task \in PairIds(journal)})
        whole(split) == Len(Schedule(split, AAPairs))
    IN  /\ taken("held_in") - taken("held_out") > 1 => taken("held_out") = whole("held_out")
        /\ taken("held_out") > taken("held_in") => taken("held_in") = whole("held_in")
=============================================================================
