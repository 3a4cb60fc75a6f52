---------------------------- MODULE SplitMeasure ----------------------------
(***************************************************************************)
(* Measuring one split (internal/loop/measure.go): schedule, measure,      *)
(* runBatch and runPair, with the baseline cache (trial.go) the run shares *)
(* with its siblings, and the per-trial journal (record.go).               *)
(*                                                                         *)
(* One goroutine per pair of the batch runs the pair's two arms; the       *)
(* measuring goroutine waits for all of them and folds the results in      *)
(* schedule order.  The process may die at any step; what it appended to   *)
(* the journal and put in the cache stays.                                 *)
(***************************************************************************)
EXTENDS TrialReplay

CONSTANTS
  Tasks,                 \* the split's tasks, in the suite's order
  Repeats,               \* Mode.Repeats
  Cap,                   \* Params.Cap
  Parallel,              \* Options.Parallel
  ConsecutiveInfraLimit,
  UseCache,              \* ~Options.NoCache
  NoEntry                \* a cell nothing is remembered for

ASSUME MeasureAssumption ==
  /\ Tasks \in Seq(STRING) /\ Len(Tasks) \in Nat \ {0}
  /\ Repeats \in Nat \ {0} /\ Cap \in Nat
  /\ Parallel \in Nat \ {0} /\ ConsecutiveInfraLimit \in Nat \ {0}
  /\ UseCache \in BOOLEAN
  /\ NoEntry \notin Outcomes

(***************************************************************************)
(* schedule: round-robin over the tasks, cut at the cap.  A pair is its    *)
(* index from 1.                                                           *)
(***************************************************************************)
NPairs       == Min({Len(Tasks) * Repeats, Cap})
Schedule     == 1..NPairs
TaskSet      == {Tasks[k] : k \in 1..Len(Tasks)}
TaskOf(i)    == Tasks[((i - 1) % Len(Tasks)) + 1]
Scheduled(t) == Cardinality({i \in Schedule : TaskOf(i) = t})

\* pair.taskRepeats, carried to the journal.  It is filled in after the loop,
\* which a schedule that reaches the cap returns out of.
TaskRepeats(t) == IF Len(Tasks) * Repeats > Cap THEN 0 ELSE Scheduled(t)

VARIABLES
  phase,     \* the measuring goroutine
  start,     \* first pair of the current or next batch
  pos,       \* next pair to fold
  due,       \* the arm of pair pos whose row is written next
  worker,    \* per pair: the goroutine running it
  base,      \* per pair: what its base arm came back with
  edit,      \* per pair: what its edit arm came back with
  cache,     \* per cell: the remembered baseline outcome
  evidence, completed, lost, basePass, editPass,  \* Evidence and tally
  infra,     \* unanswered pairs in a row
  journal,   \* the rows of trials.jsonl
  header     \* what run.json says of this split

measuring == <<evidence, completed, lost, basePass, editPass, infra>>
vars == <<phase, start, pos, due, worker, base, edit, cache, measuring,
          journal, header>>

Init ==
  /\ phase = "batch" /\ start = 1 /\ pos = 1 /\ due = "base"
  /\ worker = [i \in Schedule |-> "idle"]
  /\ base = [i \in Schedule |-> NoEntry]
  /\ edit = [i \in Schedule |-> NoEntry]
  /\ cache \in [Schedule -> IF UseCache THEN Answers \cup {NoEntry} ELSE {NoEntry}]
  /\ evidence = NoEvidence
  /\ completed = [t \in TaskSet |-> 0] /\ lost = [t \in TaskSet |-> 0]
  /\ basePass = 0 /\ editPass = 0 /\ infra = 0
  /\ journal = <<>> /\ header = "none"

-----------------------------------------------------------------------------
(***************************************************************************)
(* measure: the batch loop                                                 *)
(***************************************************************************)
Batch == start..Min({start + Parallel - 1, NPairs})

\* Mutant: the reading is not consulted between batches.
StartBatch_Undecided ==
  /\ phase = "batch" /\ start <= NPairs
  /\ phase' = "running"
  /\ worker' = [i \in Schedule |-> IF i \in Batch THEN "lookup" ELSE worker[i]]
  /\ UNCHANGED <<start, pos, due, base, edit, cache, measuring, journal, header>>

StartBatch ==
  /\ phase = "batch"
  /\ start <= NPairs /\ ~Decided(evidence)
  /\ phase' = "running"
  /\ worker' = [i \in Schedule |-> IF i \in Batch THEN "lookup" ELSE worker[i]]
  /\ UNCHANGED <<start, pos, due, base, edit, cache, measuring, journal, header>>

\* The loop ends at the end of the schedule or once the reading is decided.
Finish ==
  /\ phase = "batch"
  /\ start > NPairs \/ Decided(evidence)
  /\ phase' = "done"
  /\ header' = "verdict"
  /\ UNCHANGED <<start, pos, due, worker, base, edit, cache, measuring, journal>>

-----------------------------------------------------------------------------
(***************************************************************************)
(* runPair: one goroutine per pair                                         *)
(***************************************************************************)
Goto(i, step) == worker' = [worker EXCEPT ![i] = step]
Others == <<phase, start, pos, due, measuring, journal, header>>

\* Cache.Get, asked only when the cache is on.
Lookup(i) ==
  /\ phase = "running" /\ worker[i] = "lookup"
  /\ IF UseCache /\ cache[i] # NoEntry
     THEN base' = [base EXCEPT ![i] = cache[i]] /\ Goto(i, "edit")
     ELSE UNCHANGED base /\ Goto(i, "base")
  /\ UNCHANGED <<Others, edit, cache>>

RunBase(i) ==
  /\ phase = "running" /\ worker[i] = "base"
  /\ \E outcome \in Outcomes : base' = [base EXCEPT ![i] = outcome]
  /\ Goto(i, IF UseCache THEN "put" ELSE "edit")
  /\ UNCHANGED <<Others, edit, cache>>

\* Cache.Put: only a genuine answer is remembered, if it can be written.
Put(i) ==
  /\ phase = "running" /\ worker[i] = "put"
  /\ \/ UNCHANGED cache
     \/ Answered(base[i]) /\ cache' = [cache EXCEPT ![i] = base[i]]
  /\ Goto(i, "edit")
  /\ UNCHANGED <<Others, base, edit>>

RunEdit(i) ==
  /\ phase = "running" /\ worker[i] = "edit"
  /\ \E outcome \in Outcomes : edit' = [edit EXCEPT ![i] = outcome]
  /\ Goto(i, "returned")
  /\ UNCHANGED <<Others, base, cache>>

\* Runner.Run may answer with an error instead of an outcome: the pair's arms
\* were not what the record says, so there is no pair.
RunnerError(i) ==
  /\ phase = "running" /\ worker[i] \in {"base", "edit"}
  /\ Goto(i, "error")
  /\ UNCHANGED <<Others, base, edit, cache>>

\* A run of another candidate remembers a baseline draw of its own; a file it
\* has only begun to write reads as a miss.
SiblingPut(i) ==
  /\ phase = "running" /\ UseCache
  /\ \E outcome \in (Answers \cup {NoEntry}) \ {cache[i]} :
       cache' = [cache EXCEPT ![i] = outcome]
  /\ UNCHANGED <<Others, worker, base, edit>>

-----------------------------------------------------------------------------
(***************************************************************************)
(* runBatch returns in schedule order, or with an error if any pair has    *)
(* one, in which case nothing of the batch is read.                        *)
(***************************************************************************)
\* Mutant: a goroutine that ends in an error never tells.
Ended_Silently == {"returned"}

\* The ends of a goroutine the WaitGroup hears of.
Ended == {"returned", "error"}

Join ==
  /\ phase = "running"
  /\ \A i \in Batch : worker[i] \in Ended
  /\ IF \E i \in Batch : worker[i] = "error"
     THEN phase' = "failed"
     ELSE phase' = "folding"
  /\ UNCHANGED <<start, pos, due, worker, base, edit, cache, measuring, journal, header>>

\* Mutant: one lost repeat of a finished task is enough.
LostTasks_AnyRepeat(done, losses) ==
  Cardinality({t \in TaskSet : Scheduled(t) > 0 /\ done[t] = Scheduled(t) /\ losses[t] > 0})

\* tally.lostTasks, over the maps the current pair has been observed into.
LostTasks(done, losses) ==
  Cardinality({t \in TaskSet : /\ Scheduled(t) > 0
                               /\ done[t] = Scheduled(t)
                               /\ losses[t] = Scheduled(t)})

\* The row journal.pair writes of one arm.
JournalRow(i, arm) ==
  [pair |-> i, task |-> TaskOf(i), arm |-> arm,
   outcome |-> IF arm = "base" THEN base[i] ELSE edit[i],
   stored |-> Stored(base[i], edit[i]),
   repeats |-> TaskRepeats(TaskOf(i))]

\* One bool as the count it adds.
Plus(n, condition) == IF condition THEN n + 1 ELSE n

\* Evidence.Observe, tally.observe and the journal's base row.
FoldCounted ==
  /\ phase = "folding" /\ due = "base" /\ pos \in Batch
  /\ Counted(base[pos], edit[pos])
  /\ LET outcome == PairOutcome(base[pos], edit[pos])
         t       == TaskOf(pos)
     IN  /\ completed' = [completed EXCEPT ![t] = @ + 1]
         /\ lost' = [lost EXCEPT ![t] = Plus(@, outcome = BaselineWon)]
         /\ evidence' = [Observe(evidence, outcome) EXCEPT
                           !.lost = LostTasks(completed', lost')]
  /\ basePass' = Plus(basePass, base[pos] = Pass)
  /\ editPass' = Plus(editPass, edit[pos] = Pass)
  /\ infra' = 0
  /\ journal' = Append(journal, JournalRow(pos, "base"))
  /\ due' = "edit"
  /\ UNCHANGED <<phase, start, pos, worker, base, edit, cache, header>>

\* Mutant: a pair that could not be measured is taken for a tie.
FoldPending_AsTie ==
  /\ phase = "folding" /\ due = "base" /\ pos \in Batch
  /\ ~Counted(base[pos], edit[pos])
  /\ evidence' = Observe(evidence, Tie)
  /\ infra' = infra + 1
  /\ journal' = Append(journal, JournalRow(pos, "base"))
  /\ due' = "edit"
  /\ UNCHANGED <<phase, start, pos, worker, base, edit, cache,
                 completed, lost, basePass, editPass, header>>

\* A pair that could not be measured is journalled and not counted.
FoldPending ==
  /\ phase = "folding" /\ due = "base" /\ pos \in Batch
  /\ ~Counted(base[pos], edit[pos])
  /\ infra' = infra + 1
  /\ journal' = Append(journal, JournalRow(pos, "base"))
  /\ due' = "edit"
  /\ UNCHANGED <<phase, start, pos, worker, base, edit, cache, evidence,
                 completed, lost, basePass, editPass, header>>

\* Mutant: one unanswered pair too many.
Outage_OneMore == infra > ConsecutiveInfraLimit

\* The end of the run's patience with unanswered pairs.
Outage == infra >= ConsecutiveInfraLimit

\* The second row of the pair; then the outage check of a pending pair.
EditRow ==
  /\ phase = "folding" /\ due = "edit"
  /\ journal' = Append(journal, JournalRow(pos, "edit"))
  /\ due' = "base"
  /\ pos' = pos + 1
  /\ IF Outage
     THEN phase' = "aborted" /\ header' = "aborted"
     ELSE UNCHANGED <<phase, header>>
  /\ UNCHANGED <<start, worker, base, edit, cache, measuring>>

\* The batch is folded: on to the next.
NextBatch ==
  /\ phase = "folding" /\ due = "base" /\ pos \notin Batch
  /\ phase' = "batch"
  /\ start' = start + Parallel
  /\ UNCHANGED <<pos, due, worker, base, edit, cache, measuring, journal, header>>

\* The process dies, whatever it was doing.
Crash ==
  /\ phase \in {"batch", "running", "folding"}
  /\ phase' = "crashed"
  /\ UNCHANGED <<start, pos, due, worker, base, edit, cache, measuring, journal, header>>

PairStep(i) == Lookup(i) \/ RunBase(i) \/ Put(i) \/ RunEdit(i) \/ RunnerError(i)

Next ==
  \/ StartBatch \/ Finish
  \/ \E i \in Schedule : PairStep(i) \/ SiblingPut(i)
  \/ Join \/ FoldCounted \/ FoldPending \/ EditRow \/ NextBatch \/ Crash

Spec == Init /\ [][Next]_vars

\* The scheduler runs every goroutine that can run.  One that waits for the
\* harness cannot: nothing here limits the time a call takes, so a call that
\* is made need not return (trial.go, exec: no deadline, only the interrupt).
Fairness ==
  /\ \A i \in Schedule : WF_vars(Lookup(i) \/ Put(i))
  /\ WF_vars(StartBatch) /\ WF_vars(Finish) /\ WF_vars(Join) /\ WF_vars(FoldCounted)
  /\ WF_vars(FoldPending) /\ WF_vars(EditRow) /\ WF_vars(NextBatch)

FairSpec == Spec /\ Fairness

-----------------------------------------------------------------------------
(***************************************************************************)
(* Properties                                                              *)
(***************************************************************************)

Phases == {"batch", "running", "folding", "done", "failed", "aborted", "crashed"}
Stopped == {"done", "failed", "aborted", "crashed"}
WorkerSteps == {"idle", "lookup", "base", "put", "edit", "returned", "error"}
Rows == [pair : Schedule, task : TaskSet, arm : Arms, outcome : Outcomes,
         stored : PairOutcomes \cup {Pending}, repeats : Nat]

\* Every variable stays in its range; in particular a remembered outcome is
\* always an answer (trial.go, Cache.Put) and every row carries an outcome.
TypeOK ==
  /\ phase \in Phases
  /\ start \in Nat \ {0}
  /\ pos \in 1..(NPairs + 1)
  /\ due \in Arms
  /\ worker \in [Schedule -> WorkerSteps]
  /\ base \in [Schedule -> Outcomes \cup {NoEntry}]
  /\ edit \in [Schedule -> Outcomes \cup {NoEntry}]
  /\ cache \in [Schedule -> Answers \cup {NoEntry}]
  /\ evidence \in Evidence
  /\ completed \in [TaskSet -> Nat] /\ lost \in [TaskSet -> Nat]
  /\ basePass \in Nat /\ editPass \in Nat /\ infra \in Nat
  /\ journal \in Seq(Rows)
  /\ header \in {"none", "verdict", "aborted"}

\* The pairs read back so far, and those of them both arms answered.
Folded == 1..(IF due = "edit" THEN pos ELSE pos - 1)
CountedPairs == {i \in Folded : Counted(base[i], edit[i])}
WithOutcome(outcome) == {i \in CountedPairs : PairOutcome(base[i], edit[i]) = outcome}

\* The running counters are exactly the answered pairs read back so far,
\* whatever order the goroutines answered in: nothing unanswered is evidence
\* and nothing answered is lost (measure.go, measure and tally.observe).
EvidenceIsTheAnsweredPairs ==
  /\ evidence.wins = Cardinality(WithOutcome(EditWon))
  /\ evidence.losses = Cardinality(WithOutcome(BaselineWon))
  /\ evidence.ties = Cardinality(WithOutcome(Tie))
  /\ \A t \in TaskSet :
       /\ completed[t] = Cardinality({i \in CountedPairs : TaskOf(i) = t})
       /\ lost[t] = Cardinality({i \in WithOutcome(BaselineWon) : TaskOf(i) = t})

\* The count gate's statistic is the number of tasks lost outright: every pair
\* scheduled for the task, as the cap left the schedule, has been read and
\* went to the baseline (measure.go, tally.lostTasks).
OutrightLosses ==
  {t \in TaskSet :
     /\ \E i \in Schedule : TaskOf(i) = t
     /\ \A i \in Schedule : TaskOf(i) = t => i \in WithOutcome(BaselineWon)}
GateCountsOutrightLosses == evidence.lost = Cardinality(OutrightLosses)

\* The two published pass rates differ by what the pairs say: they are counted
\* over the same pairs as the evidence (measure.go, tally.observe and rate).
RatesAgreeWithPairs == editPass - basePass = evidence.wins - evidence.losses

\* Whenever a pair's two rows are both in, replaying the journal gives back
\* the evidence the run decides on and finds nothing amiss: the journal alone
\* is enough to re-derive the verdict (replay.go, Replay), as long as the cap
\* cuts no round-robin pass.
ReplayReproduces ==
  due = "base" => /\ Recomputed(journal) = evidence
           /\ OddPairs(journal) = {}
           /\ Misstated(journal) = {}

\* "It is filled in once the schedule is whole and carried on every pair,
\* because it is what the count gate means by 'all of them'" (measure.go,
\* schedule): the journal alone tells how many tasks were lost outright, also
\* where the cap cuts the last round-robin pass.
ReplayCountsOutrightLosses == due = "base" => Recomputed(journal).lost = evidence.lost

\* An outage stops the split at exactly ConsecutiveInfraLimit unanswered pairs
\* in a row, wherever the batch boundaries fall (measure.go, measure).
OutageTail ==
  LET last == Cardinality(Folded)
  IN  /\ last >= ConsecutiveInfraLimit
      /\ \A i \in (last - ConsecutiveInfraLimit + 1)..last : i \notin CountedPairs
OutageStops == due = "base" => (phase = "aborted" <=> OutageTail)

\* No call of the harness runs for ever.  The program does not see to that.
EveryCallReturns == \A i \in Schedule : []<>(worker[i] \notin {"base", "edit"})

\* The harness is all a split can hang on: if every call of it that is made
\* returns, with an answer or an error and in any order, the split stops - at
\* its decision, its cap, an outage or an error.  No goroutine is waited for
\* that has ended, and no batch is begun again (measure.go, measure and
\* runBatch).
Terminates == EveryCallReturns => <>(phase \in Stopped)

(***************************************************************************)
(* SplitMeasure implements SplitTest: the concurrency is for wall-clock,   *)
(* and the measurement is the sequential one.                              *)
(***************************************************************************)
TestStatus ==
  IF infra >= ConsecutiveInfraLimit THEN "aborted"
  ELSE CASE phase = "done"                  -> "done"
         [] phase \in {"failed", "crashed"} -> "failed"
         [] OTHER                           -> "running"

Test == INSTANCE SplitTest WITH
  folded <- Cardinality(Folded),
  todo   <- IF TestStatus = "running" /\ phase \in {"running", "folding"}
            THEN Cardinality(Batch \ Folded) ELSE 0,
  streak <- infra,
  status <- TestStatus

ImplementsSplitTest == Test!TestSpec
=============================================================================
