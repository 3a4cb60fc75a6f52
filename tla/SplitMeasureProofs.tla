------------------------- MODULE SplitMeasureProofs -------------------------
(***************************************************************************)
(* Theorems about SplitMeasure, for every suite, batch size, cap and gate. *)
(***************************************************************************)
EXTENDS SplitMeasure, FiniteSetTheorems, TLAPS

-----------------------------------------------------------------------------
(***************************************************************************)
(* The schedule                                                            *)
(***************************************************************************)

\* The minimum of two integers is one of them and below both.
LEMMA MinOfTwo ==
  ASSUME NEW a \in Int, NEW b \in Int
  PROVE  Min({a, b}) = IF a <= b THEN a ELSE b
<1>1. \E x \in {a, b} : \A y \in {a, b} : x <= y
  OBVIOUS
<1>2. Min({a, b}) \in {a, b} /\ \A y \in {a, b} : Min({a, b}) <= y
  BY <1>1 DEF Min
<1> QED
  BY <1>2

\* There are finitely many pairs, and each is of a task of the split.
LEMMA ScheduleFacts ==
  /\ NPairs \in Nat
  /\ IsFiniteSet(Schedule)
  /\ Len(Tasks) \in Nat \ {0}
  /\ \A i \in Schedule : TaskOf(i) \in TaskSet
<1>1. Len(Tasks) \in Nat \ {0} /\ Repeats \in Nat /\ Cap \in Nat
  BY MeasureAssumption
<1>2. Len(Tasks) * Repeats \in Nat
  BY <1>1
<1>3. NPairs \in Nat
  BY <1>1, <1>2, MinOfTwo DEF NPairs
<1>4. IsFiniteSet(Schedule)
  BY <1>3, FS_Interval DEF Schedule
<1>5. ASSUME NEW i \in Schedule PROVE TaskOf(i) \in TaskSet
  <2>1. i - 1 \in Nat
    BY <1>3 DEF Schedule
  <2>2. (i - 1) % Len(Tasks) \in 0..(Len(Tasks) - 1)
    BY <1>1, <2>1
  <2>3. ((i - 1) % Len(Tasks)) + 1 \in 1..Len(Tasks)
    BY <1>1, <2>2
  <2> QED
    BY <2>3 DEF TaskOf, TaskSet
<1> QED
  BY <1>1, <1>3, <1>4, <1>5

\* The number of repeats a row carries.
LEMMA RepeatsNat == \A t : Scheduled(t) \in Nat /\ TaskRepeats(t) \in Nat
<1> SUFFICES ASSUME NEW t PROVE Scheduled(t) \in Nat /\ TaskRepeats(t) \in Nat
  OBVIOUS
<1>1. IsFiniteSet({i \in Schedule : TaskOf(i) = t})
  BY ScheduleFacts, FS_Subset
<1>2. Scheduled(t) \in Nat
  BY <1>1, FS_CardinalityType DEF Scheduled
<1> QED
  BY <1>2 DEF TaskRepeats

\* A batch is a run of scheduled pairs, from `start` to its last.
LastOfBatch == IF start + Parallel - 1 <= NPairs THEN start + Parallel - 1 ELSE NPairs

\* A batch is an interval that ends no later than the schedule.
LEMMA BatchIs ==
  ASSUME start \in Nat \ {0}
  PROVE  Batch = start..LastOfBatch /\ Batch \subseteq Schedule /\ LastOfBatch \in Int
<1>1. Parallel \in Nat \ {0} /\ NPairs \in Nat
  BY MeasureAssumption, ScheduleFacts
<1>2. Min({start + Parallel - 1, NPairs}) = LastOfBatch
  BY <1>1, MinOfTwo DEF LastOfBatch
<1>3. Batch = start..LastOfBatch
  BY <1>2 DEF Batch
<1>4. LastOfBatch \in Int /\ LastOfBatch <= NPairs
  BY <1>1 DEF LastOfBatch
<1>5. start..LastOfBatch \subseteq 1..NPairs
  BY <1>1, <1>4
<1> QED
  BY <1>3, <1>4, <1>5 DEF Schedule

-----------------------------------------------------------------------------
(***************************************************************************)
(* The inductive invariant.  TypeOK alone is not inductive: that a row     *)
(* carries an outcome needs that a folded batch has been joined, and that  *)
(* a fold stays in the schedule needs that it stays in its batch.          *)
(***************************************************************************)
Busy == {"lookup", "base", "put", "edit"}

\* A goroutine has drawn its base arm before it remembers it or runs the other.
DrawnInOrder ==
  \A i \in Schedule :
    /\ worker[i] \in {"put", "edit", "returned"} => base[i] \in Outcomes
    /\ worker[i] = "returned" => edit[i] \in Outcomes

\* Only goroutines of the batch being run are busy.
BusyInBatch ==
  /\ phase \in {"batch", "folding"} => \A i \in Schedule : worker[i] \notin Busy
  /\ phase = "running" => \A i \in Schedule : worker[i] \in Busy => i \in Batch

\* The fold walks the batch, once every goroutine of it has returned.
FoldInBatch ==
  /\ phase \in {"batch", "running"} =>
       due = "base" /\ pos = IF start <= NPairs THEN start ELSE NPairs + 1
  /\ phase \in {"running", "folding"} => start <= NPairs
  /\ phase = "folding" =>
       /\ start <= pos /\ pos <= LastOfBatch + 1
       /\ \A i \in Batch : worker[i] = "returned"
  /\ due = "edit" => pos \in Schedule /\ base[pos] \in Outcomes /\ edit[pos] \in Outcomes
  /\ phase = "folding" /\ due = "edit" => pos \in Batch

Control == DrawnInOrder /\ BusyInBatch /\ FoldInBatch

\* The initial states satisfy the invariant.
LEMMA InitControl == Init => TypeOK /\ Control
<1> SUFFICES ASSUME Init PROVE TypeOK /\ Control
  OBVIOUS
<1> USE ScheduleFacts DEF Init
<1>1. TypeOK
  <2>1. evidence \in Evidence
    BY DEF NoEvidence, Evidence
  <2>2. journal \in Seq(Rows)
    OBVIOUS
  <2>3. pos \in 1..(NPairs + 1)
    OBVIOUS
  <2>4. cache \in [Schedule -> Answers \cup {NoEntry}]
    OBVIOUS
  <2>5. /\ phase \in Phases /\ start \in Nat \ {0}
        /\ basePass \in Nat /\ editPass \in Nat /\ infra \in Nat
        /\ header \in {"none", "verdict", "aborted"}
    BY DEF Phases
  <2>6. /\ worker \in [Schedule -> WorkerSteps]
        /\ base \in [Schedule -> Outcomes \cup {NoEntry}]
        /\ edit \in [Schedule -> Outcomes \cup {NoEntry}]
        /\ completed \in [TaskSet -> Nat] /\ lost \in [TaskSet -> Nat]
    BY DEF WorkerSteps
  <2>7. due \in Arms
    BY DEF Arms
  <2> QED
    BY <2>1, <2>2, <2>3, <2>4, <2>5, <2>6, <2>7 DEF TypeOK
<1>2. Control
  BY DEF Control, DrawnInOrder, BusyInBatch, FoldInBatch, Busy
<1> QED
  BY <1>1, <1>2

\* The row of a drawn arm is a row.
LEMMA RowType ==
  ASSUME NEW i \in Schedule, NEW arm \in Arms, TypeOK,
         base[i] \in Outcomes, edit[i] \in Outcomes
  PROVE  JournalRow(i, arm) \in Rows
<1>1. TaskOf(i) \in TaskSet /\ TaskRepeats(TaskOf(i)) \in Nat
  BY ScheduleFacts, RepeatsNat
<1>2. Stored(base[i], edit[i]) \in PairOutcomes \cup {Pending}
  BY DEF Stored, PairOutcome, PairOutcomes
<1> QED
  BY <1>1, <1>2 DEF JournalRow, Rows

\* The pair being folded has an outcome on both arms.
LEMMA PairDrawn ==
  ASSUME TypeOK, Control, phase = "folding", pos \in Batch
  PROVE  pos \in Schedule /\ base[pos] \in Outcomes /\ edit[pos] \in Outcomes
<1>1. pos \in Schedule
  BY BatchIs DEF TypeOK
<1>2. worker[pos] = "returned"
  BY DEF Control, FoldInBatch
<1> QED
  BY <1>1, <1>2 DEF Control, DrawnInOrder

\* tally.lostTasks is a count.
LEMMA LostTasksNat == \A done, losses : LostTasks(done, losses) \in Nat
<1> SUFFICES ASSUME NEW done, NEW losses PROVE LostTasks(done, losses) \in Nat
  OBVIOUS
<1>1. IsFiniteSet(TaskSet)
  <2> DEFINE nth == [k \in 1..Len(Tasks) |-> Tasks[k]]
  <2>1. IsFiniteSet(1..Len(Tasks))
    BY ScheduleFacts, FS_Interval
  <2>2. nth \in Surjection(1..Len(Tasks), TaskSet)
    BY DEF Surjection, TaskSet
  <2> QED
    BY <2>1, <2>2, FS_Surjection
<1> DEFINE Lost == {t \in TaskSet : Scheduled(t) > 0 /\ done[t] = Scheduled(t)
                                   /\ losses[t] = Scheduled(t)}
<1>2. IsFiniteSet(Lost)
  BY <1>1, FS_Subset
<1>3. Cardinality(Lost) \in Nat
  BY <1>2, FS_CardinalityType
<1> QED
  BY <1>3 DEF LostTasks

\* Observing a pair keeps the evidence four counts.
LEMMA ObserveType ==
  ASSUME NEW e \in Evidence, NEW outcome
  PROVE  Observe(e, outcome) \in Evidence
<1>1. /\ [e EXCEPT !.wins = @ + 1] \in Evidence
      /\ [e EXCEPT !.losses = @ + 1] \in Evidence
      /\ [e EXCEPT !.ties = @ + 1] \in Evidence
  BY DEF Evidence
<1>2. \/ Observe(e, outcome) = [e EXCEPT !.wins = @ + 1]
      \/ Observe(e, outcome) = [e EXCEPT !.losses = @ + 1]
      \/ Observe(e, outcome) = [e EXCEPT !.ties = @ + 1]
  BY DEF Observe
<1> QED
  BY <1>1, <1>2

\* Folding an answered pair keeps the counters numbers.
LEMMA FoldCountedTypes ==
  ASSUME TypeOK, Control, FoldCounted
  PROVE  /\ evidence' \in Evidence
         /\ completed' \in [TaskSet -> Nat] /\ lost' \in [TaskSet -> Nat]
<1>1. pos \in Schedule
  BY PairDrawn DEF FoldCounted
<1>2. TaskOf(pos) \in TaskSet
  BY <1>1, ScheduleFacts
<1>3. completed' \in [TaskSet -> Nat] /\ lost' \in [TaskSet -> Nat]
  <2>1. completed \in [TaskSet -> Nat] /\ lost \in [TaskSet -> Nat]
    BY DEF TypeOK
  <2> QED
    BY <1>2, <2>1 DEF FoldCounted, Plus
<1>4. Observe(evidence, PairOutcome(base[pos], edit[pos])) \in Evidence
  BY ObserveType DEF TypeOK
<1>5. LostTasks(completed', lost') \in Nat
  BY LostTasksNat
<1>6. evidence' \in Evidence
  BY <1>4, <1>5 DEF FoldCounted, Evidence
<1> QED
  BY <1>3, <1>6

\* Every step preserves the types.
LEMMA StepType == TypeOK /\ Control /\ [Next]_vars => TypeOK'
<1> SUFFICES ASSUME TypeOK, Control, [Next]_vars PROVE TypeOK'
  OBVIOUS
<1>1. CASE StartBatch
  <2>1. worker' \in [Schedule -> WorkerSteps]
    BY <1>1 DEF StartBatch, TypeOK, WorkerSteps
  <2> QED
    BY <1>1, <2>1 DEF StartBatch, measuring, TypeOK, Phases
<1>2. CASE Finish
  BY <1>2 DEF Finish, measuring, TypeOK, Phases
<1>3. ASSUME NEW i \in Schedule, Lookup(i) PROVE TypeOK'
  <2>1. worker' \in [Schedule -> WorkerSteps]
    BY <1>3 DEF Lookup, Goto, TypeOK, WorkerSteps
  <2>2. base' \in [Schedule -> Outcomes \cup {NoEntry}]
    BY <1>3 DEF Lookup, TypeOK, Outcomes
  <2> QED
    BY <1>3, <2>1, <2>2 DEF Lookup, Others, measuring, TypeOK
<1>4. ASSUME NEW i \in Schedule, RunBase(i) PROVE TypeOK'
  <2>1. worker' \in [Schedule -> WorkerSteps]
    BY <1>4 DEF RunBase, Goto, TypeOK, WorkerSteps
  <2>2. base' \in [Schedule -> Outcomes \cup {NoEntry}]
    BY <1>4 DEF RunBase, TypeOK
  <2> QED
    BY <1>4, <2>1, <2>2 DEF RunBase, Others, measuring, TypeOK
<1>5. ASSUME NEW i \in Schedule, Put(i) PROVE TypeOK'
  <2>1. worker' \in [Schedule -> WorkerSteps]
    BY <1>5 DEF Put, Goto, TypeOK, WorkerSteps
  <2>2. cache' \in [Schedule -> Answers \cup {NoEntry}]
    BY <1>5 DEF Put, TypeOK, Answered
  <2> QED
    BY <1>5, <2>1, <2>2 DEF Put, Others, measuring, TypeOK
<1>6. ASSUME NEW i \in Schedule, RunEdit(i) PROVE TypeOK'
  <2>1. worker' \in [Schedule -> WorkerSteps]
    BY <1>6 DEF RunEdit, Goto, TypeOK, WorkerSteps
  <2>2. edit' \in [Schedule -> Outcomes \cup {NoEntry}]
    BY <1>6 DEF RunEdit, TypeOK
  <2> QED
    BY <1>6, <2>1, <2>2 DEF RunEdit, Others, measuring, TypeOK
<1>7. ASSUME NEW i \in Schedule, RunnerError(i) PROVE TypeOK'
  <2>1. worker' \in [Schedule -> WorkerSteps]
    BY <1>7 DEF RunnerError, Goto, TypeOK, WorkerSteps
  <2> QED
    BY <1>7, <2>1 DEF RunnerError, Others, measuring, TypeOK
<1>8. ASSUME NEW i \in Schedule, SiblingPut(i) PROVE TypeOK'
  <2>1. cache' \in [Schedule -> Answers \cup {NoEntry}]
    BY <1>8 DEF SiblingPut, TypeOK
  <2> QED
    BY <1>8, <2>1 DEF SiblingPut, Others, measuring, TypeOK
<1>9. CASE Join
  BY <1>9 DEF Join, measuring, TypeOK, Phases
<1>10. CASE FoldCounted
  <2>1. evidence' \in Evidence /\ completed' \in [TaskSet -> Nat] /\ lost' \in [TaskSet -> Nat]
    BY <1>10, FoldCountedTypes
  <2>2. basePass' \in Nat /\ editPass' \in Nat /\ infra' \in Nat
    BY <1>10 DEF FoldCounted, Plus, TypeOK
  <2>3. JournalRow(pos, "base") \in Rows
    BY <1>10, PairDrawn, RowType DEF FoldCounted, Arms
  <2>4. journal' \in Seq(Rows)
    BY <1>10, <2>3 DEF FoldCounted, TypeOK
  <2> QED
    BY <1>10, <2>1, <2>2, <2>4 DEF FoldCounted, TypeOK, Arms
<1>11. CASE FoldPending
  <2>1. JournalRow(pos, "base") \in Rows
    BY <1>11, PairDrawn, RowType DEF FoldPending, Arms
  <2>2. journal' \in Seq(Rows)
    BY <1>11, <2>1 DEF FoldPending, TypeOK
  <2> QED
    BY <1>11, <2>2 DEF FoldPending, TypeOK, Arms
<1>12. CASE EditRow
  <2>0. JournalRow(pos, "edit") \in Rows
    BY <1>12, RowType DEF EditRow, Arms, Control, FoldInBatch
  <2>1. journal' \in Seq(Rows)
    BY <1>12, <2>0 DEF EditRow, TypeOK
  <2>2. pos' \in 1..(NPairs + 1)
    BY <1>12, ScheduleFacts DEF EditRow, Control, FoldInBatch, Schedule
  <2>3. phase' \in Phases /\ header' \in {"none", "verdict", "aborted"}
    BY <1>12 DEF EditRow, TypeOK, Phases
  <2> QED
    BY <1>12, <2>1, <2>2, <2>3 DEF EditRow, measuring, TypeOK, Arms
<1>13. CASE NextBatch
  <2>1. start' \in Nat \ {0}
    BY <1>13, MeasureAssumption DEF NextBatch, TypeOK
  <2> QED
    BY <1>13, <2>1 DEF NextBatch, measuring, TypeOK, Phases
<1>14. CASE Crash
  BY <1>14 DEF Crash, measuring, TypeOK, Phases
<1>15. CASE UNCHANGED vars
  BY <1>15 DEF vars, measuring, TypeOK
<1> QED
  BY <1>1, <1>2, <1>3, <1>4, <1>5, <1>6, <1>7, <1>8, <1>9, <1>10, <1>11, <1>12,
     <1>13, <1>14, <1>15 DEF Next, PairStep

\* A step of one goroutine of the batch leaves the batch and the fold alone.
LEMMA GoroutineStep ==
  ASSUME TypeOK, Control, phase = "running", UNCHANGED Others,
         NEW i \in Schedule, worker[i] \in Busy,
         NEW step, worker' = [worker EXCEPT ![i] = step]
  PROVE  BusyInBatch' /\ FoldInBatch'
<1>1. Batch' = Batch /\ phase' = "running" /\ due' = due /\ pos' = pos /\ start' = start
  BY DEF Others, Batch
<1>2. i \in Batch
  BY DEF Control, BusyInBatch
<1>3. BusyInBatch'
  BY <1>1, <1>2 DEF BusyInBatch, Control, TypeOK
<1>4. FoldInBatch'
  BY <1>1 DEF FoldInBatch, Control
<1> QED
  BY <1>3, <1>4

\* Every step preserves the control invariant.
LEMMA StepControl == TypeOK /\ Control /\ [Next]_vars => Control'
<1> SUFFICES ASSUME TypeOK, Control, [Next]_vars PROVE Control'
  OBVIOUS
<1> USE BatchIs DEF Control
<1>1. CASE StartBatch
  <2>1. DrawnInOrder'
    BY <1>1 DEF StartBatch, DrawnInOrder, TypeOK
  <2>2. Batch' = Batch
    BY <1>1 DEF StartBatch, Batch
  <2>3. BusyInBatch'
    BY <1>1, <2>2 DEF StartBatch, BusyInBatch, Busy, TypeOK
  <2>4. FoldInBatch'
    BY <1>1 DEF StartBatch, FoldInBatch
  <2> QED
    BY <2>1, <2>3, <2>4
<1>2. CASE Finish
  <2>1. DrawnInOrder'
    BY <1>2 DEF Finish, DrawnInOrder
  <2>2. BusyInBatch'
    BY <1>2 DEF Finish, BusyInBatch
  <2>3. FoldInBatch'
    BY <1>2 DEF Finish, FoldInBatch
  <2> QED
    BY <2>1, <2>2, <2>3
<1>3. ASSUME NEW i \in Schedule, Lookup(i) PROVE Control'
  <2>1. DrawnInOrder'
    BY <1>3 DEF Lookup, Goto, DrawnInOrder, TypeOK, Outcomes
  <2>2. BusyInBatch' /\ FoldInBatch'
    BY <1>3, GoroutineStep DEF Lookup, Goto, Busy
  <2> QED
    BY <2>1, <2>2
<1>4. ASSUME NEW i \in Schedule, RunBase(i) PROVE Control'
  <2>1. DrawnInOrder'
    BY <1>4 DEF RunBase, Goto, DrawnInOrder, TypeOK
  <2>2. BusyInBatch' /\ FoldInBatch'
    BY <1>4, GoroutineStep DEF RunBase, Goto, Busy
  <2> QED
    BY <2>1, <2>2
<1>5. ASSUME NEW i \in Schedule, Put(i) PROVE Control'
  <2>1. DrawnInOrder'
    BY <1>5 DEF Put, Goto, DrawnInOrder, TypeOK
  <2>2. BusyInBatch' /\ FoldInBatch'
    BY <1>5, GoroutineStep DEF Put, Goto, Busy
  <2> QED
    BY <2>1, <2>2
<1>6. ASSUME NEW i \in Schedule, RunEdit(i) PROVE Control'
  <2>1. DrawnInOrder'
    BY <1>6 DEF RunEdit, Goto, DrawnInOrder, TypeOK
  <2>2. BusyInBatch' /\ FoldInBatch'
    BY <1>6, GoroutineStep DEF RunEdit, Goto, Busy
  <2> QED
    BY <2>1, <2>2
<1>7. ASSUME NEW i \in Schedule, RunnerError(i) PROVE Control'
  <2>1. DrawnInOrder'
    BY <1>7 DEF RunnerError, Goto, DrawnInOrder, TypeOK
  <2>2. BusyInBatch' /\ FoldInBatch'
    BY <1>7, GoroutineStep DEF RunnerError, Goto, Busy
  <2> QED
    BY <2>1, <2>2
<1>8. ASSUME NEW i \in Schedule, SiblingPut(i) PROVE Control'
  <2>1. Batch' = Batch
    BY <1>8 DEF SiblingPut, Others, Batch
  <2>2. DrawnInOrder'
    BY <1>8 DEF SiblingPut, DrawnInOrder
  <2>3. BusyInBatch'
    BY <1>8, <2>1 DEF SiblingPut, Others, BusyInBatch
  <2>4. FoldInBatch'
    BY <1>8 DEF SiblingPut, Others, FoldInBatch
  <2> QED
    BY <2>2, <2>3, <2>4
<1>9. CASE Join
  <2>1. Batch' = Batch
    BY <1>9 DEF Join, Batch
  <2>2. DrawnInOrder'
    BY <1>9 DEF Join, DrawnInOrder
  <2>3. phase' = "folding" => \A i \in Batch : worker[i] = "returned"
    BY <1>9 DEF Join, Ended
  <2>4. BusyInBatch'
    BY <1>9, <2>1, <2>3 DEF Join, BusyInBatch, Busy
  <2>5. start <= LastOfBatch
    BY <1>9, MeasureAssumption, ScheduleFacts DEF Join, FoldInBatch, LastOfBatch, TypeOK
  <2>6. FoldInBatch'
    BY <1>9, <2>1, <2>3, <2>5 DEF Join, FoldInBatch, LastOfBatch, TypeOK
  <2> QED
    BY <2>2, <2>4, <2>6
<1>10. CASE FoldCounted \/ FoldPending
  <2>1. /\ phase = "folding" /\ phase' = "folding" /\ pos \in Batch /\ due' = "edit"
        /\ UNCHANGED <<start, pos, worker, base, edit>>
    BY <1>10 DEF FoldCounted, FoldPending
  <2>2. Batch' = Batch
    BY <2>1 DEF Batch
  <2>3. DrawnInOrder'
    BY <2>1 DEF DrawnInOrder
  <2>4. BusyInBatch'
    BY <2>1, <2>2 DEF BusyInBatch
  <2>5. FoldInBatch'
    BY <2>1, <2>2, PairDrawn DEF FoldInBatch, LastOfBatch
  <2> QED
    BY <2>3, <2>4, <2>5
<1>11. CASE EditRow
  <2>1. Batch' = Batch /\ LastOfBatch' = LastOfBatch
    BY <1>11 DEF EditRow, Batch, LastOfBatch
  <2>2. DrawnInOrder'
    BY <1>11 DEF EditRow, DrawnInOrder
  <2>3. BusyInBatch'
    BY <1>11, <2>1 DEF EditRow, BusyInBatch
  <2>4. pos \in start..LastOfBatch /\ pos' = pos + 1
    BY <1>11 DEF EditRow, FoldInBatch, TypeOK
  <2>5. FoldInBatch'
    BY <1>11, <2>1, <2>4 DEF EditRow, FoldInBatch, TypeOK
  <2> QED
    BY <2>2, <2>3, <2>5
<1>12. CASE NextBatch
  <2>1. DrawnInOrder'
    BY <1>12 DEF NextBatch, DrawnInOrder
  <2>2. BusyInBatch'
    BY <1>12 DEF NextBatch, BusyInBatch
  <2>3. pos = LastOfBatch + 1
    BY <1>12 DEF NextBatch, FoldInBatch, TypeOK
  <2>4. Parallel \in Nat \ {0} /\ NPairs \in Nat
    BY MeasureAssumption, ScheduleFacts
  <2>5. pos = IF start + Parallel <= NPairs THEN start + Parallel ELSE NPairs + 1
    BY <2>3, <2>4 DEF LastOfBatch, TypeOK
  <2>6. FoldInBatch'
    BY <1>12, <2>5 DEF NextBatch, FoldInBatch
  <2> QED
    BY <2>1, <2>2, <2>6
<1>13. CASE Crash
  <2>1. DrawnInOrder'
    BY <1>13 DEF Crash, DrawnInOrder
  <2>2. BusyInBatch'
    BY <1>13 DEF Crash, BusyInBatch
  <2>3. FoldInBatch'
    BY <1>13 DEF Crash, FoldInBatch
  <2> QED
    BY <2>1, <2>2, <2>3
<1>14. CASE UNCHANGED vars
  <2>1. Batch' = Batch /\ LastOfBatch' = LastOfBatch
    BY <1>14 DEF vars, Batch, LastOfBatch
  <2>2. DrawnInOrder'
    BY <1>14 DEF vars, DrawnInOrder
  <2>3. BusyInBatch'
    BY <1>14, <2>1 DEF vars, BusyInBatch
  <2>4. FoldInBatch'
    BY <1>14, <2>1 DEF vars, FoldInBatch
  <2> QED
    BY <2>2, <2>3, <2>4
<1> QED
  BY <1>1, <1>2, <1>3, <1>4, <1>5, <1>6, <1>7, <1>8, <1>9, <1>10, <1>11, <1>12,
     <1>13, <1>14 DEF Next, PairStep

\* The types hold in every state, for every suite, cap, batch size and gate:
\* the cache only ever remembers answers, and every row carries an outcome
\* (measure.go, runPair and measure; trial.go, Cache.Put).
THEOREM TypeCorrect == Spec => []TypeOK
<1>1. Init => TypeOK /\ Control
  BY InitControl
<1>2. TypeOK /\ Control /\ [Next]_vars => TypeOK' /\ Control'
  BY StepType, StepControl
<1> QED
  BY <1>1, <1>2, PTL DEF Spec

-----------------------------------------------------------------------------
(***************************************************************************)
(* The evidence.  Each pair is counted when it is folded and its arms are  *)
(* never written again, so the counters stay the cardinalities of sets     *)
(* that grow by the pair being folded.                                     *)
(***************************************************************************)

\* The folded pairs are scheduled pairs, finitely many.
LEMMA FoldedFacts ==
  ASSUME TypeOK, Control
  PROVE  /\ Folded \subseteq Schedule
         /\ \A o : WithOutcome(o) \subseteq CountedPairs
         /\ CountedPairs \subseteq Schedule /\ IsFiniteSet(CountedPairs)
<1>1. Folded \subseteq Schedule
  BY ScheduleFacts DEF Folded, Schedule, TypeOK, Control, FoldInBatch
<1>2. CountedPairs \subseteq Schedule
  BY <1>1 DEF CountedPairs
<1>3. IsFiniteSet(CountedPairs)
  BY <1>2, ScheduleFacts, FS_Subset
<1>4. \A o : WithOutcome(o) \subseteq CountedPairs
  BY DEF WithOutcome
<1> QED
  BY <1>1, <1>2, <1>3, <1>4

\* Nothing but a fold touches the pairs read back so far.
LEMMA PairsKept ==
  ASSUME TypeOK, Control, [Next]_vars, ~FoldCounted, ~FoldPending
  PROVE  CountedPairs' = CountedPairs /\ \A o : WithOutcome(o)' = WithOutcome(o)
<1>1. Folded' = Folded /\ \A j \in Folded : base'[j] = base[j] /\ edit'[j] = edit[j]
  <2>1. CASE \E i \in Schedule : PairStep(i)
    <3>1. PICK i \in Schedule : PairStep(i)
      BY <2>1
    <3>2. phase = "running" /\ worker[i] \in Busy /\ UNCHANGED Others
      BY <3>1 DEF PairStep, Lookup, RunBase, Put, RunEdit, RunnerError, Busy
    <3>3. /\ \A j \in Schedule \ {i} : base'[j] = base[j] /\ edit'[j] = edit[j]
      BY <3>1 DEF PairStep, Lookup, RunBase, Put, RunEdit, RunnerError, TypeOK
    <3>4. i \in Batch /\ due = "base" /\ pos = start /\ start <= NPairs
      BY <3>2 DEF Control, BusyInBatch, FoldInBatch
    <3>5. i \notin Folded
      BY <3>4, BatchIs DEF Folded, TypeOK
    <3>6. Folded' = Folded
      BY <3>2 DEF Others, Folded
    <3> QED
      BY <3>3, <3>5, <3>6, FoldedFacts
  <2>2. CASE EditRow
    BY <2>2 DEF EditRow, Folded, TypeOK
  <2>3. CASE \/ StartBatch \/ Finish \/ Join \/ NextBatch \/ Crash
             \/ \E i \in Schedule : SiblingPut(i)
    <3>1. UNCHANGED <<pos, due, base, edit>>
      BY <2>3 DEF StartBatch, Finish, Join, NextBatch, Crash, SiblingPut, Others
    <3> QED
      BY <3>1 DEF Folded
  <2>4. CASE UNCHANGED vars
    BY <2>4 DEF vars, Folded
  <2> QED
    BY <2>1, <2>2, <2>3, <2>4 DEF Next
<1>2. CountedPairs' = CountedPairs
  BY <1>1 DEF CountedPairs
<1>3. \A o : WithOutcome(o)' = WithOutcome(o)
  BY <1>1, <1>2 DEF WithOutcome, CountedPairs
<1> QED
  BY <1>2, <1>3

\* A fold adds the pair being folded.
LEMMA PairFolded ==
  ASSUME TypeOK, Control, FoldCounted \/ FoldPending
  PROVE  /\ Folded' = Folded \cup {pos} /\ pos \notin Folded
         /\ UNCHANGED <<pos, base, edit>>
<1>1. /\ due = "base" /\ due' = "edit" /\ phase = "folding" /\ pos \in Batch
      /\ UNCHANGED <<pos, base, edit>>
  BY DEF FoldCounted, FoldPending
<1>2. pos \in Nat \ {0}
  BY DEF TypeOK
<1>3. 1..pos = (1..(pos - 1)) \cup {pos} /\ pos \notin 1..(pos - 1)
  BY <1>2
<1>4. Folded = 1..(pos - 1) /\ Folded' = 1..pos
  BY <1>1 DEF Folded
<1> QED
  BY <1>1, <1>3, <1>4

\* A pair that was not answered adds nothing to the counted pairs.
LEMMA PendingAddsNothing ==
  ASSUME TypeOK, Control, FoldPending
  PROVE  CountedPairs' = CountedPairs /\ \A o : WithOutcome(o)' = WithOutcome(o)
<1>1. ~Counted(base[pos], edit[pos])
  BY DEF FoldPending
<1>2. CountedPairs' = CountedPairs
  BY <1>1, PairFolded DEF CountedPairs
<1>3. \A o : WithOutcome(o)' = WithOutcome(o)
  BY <1>2, PairFolded DEF WithOutcome
<1> QED
  BY <1>2, <1>3

\* An answered pair joins the counted pairs, and those with its outcome.
LEMMA CountedAddsThePair ==
  ASSUME TypeOK, Control, FoldCounted
  PROVE  /\ CountedPairs' = CountedPairs \cup {pos}
         /\ pos \notin CountedPairs
         /\ \A o : WithOutcome(o)' = IF PairOutcome(base[pos], edit[pos]) = o
                                     THEN WithOutcome(o) \cup {pos}
                                     ELSE WithOutcome(o)
<1>1. Counted(base[pos], edit[pos])
  BY DEF FoldCounted
<1>2. CountedPairs' = CountedPairs \cup {pos} /\ pos \notin CountedPairs
  BY <1>1, PairFolded DEF CountedPairs
<1>3. ASSUME NEW o
      PROVE  WithOutcome(o)' = IF PairOutcome(base[pos], edit[pos]) = o
                               THEN WithOutcome(o) \cup {pos}
                               ELSE WithOutcome(o)
  BY <1>2, PairFolded DEF WithOutcome
<1> QED
  BY <1>2, <1>3

\* The outcome of a counted pair is one of the three, as the arms have it.
LEMMA OutcomeCases ==
  ASSUME NEW b \in Answers, NEW e \in Answers
  PROVE  \/ b = Fail /\ e = Pass /\ PairOutcome(b, e) = EditWon
         \/ b = Pass /\ e = Fail /\ PairOutcome(b, e) = BaselineWon
         \/ b = e /\ PairOutcome(b, e) = Tie
<1>1. Pass # Fail
  BY OutcomeAssumption
<1>2. CASE b = Pass /\ e = Pass
  BY <1>1, <1>2 DEF PairOutcome
<1>3. CASE b = Pass /\ e = Fail
  BY <1>1, <1>3 DEF PairOutcome
<1>4. CASE b = Fail /\ e = Pass
  BY <1>1, <1>4 DEF PairOutcome
<1>5. CASE b = Fail /\ e = Fail
  BY <1>1, <1>5 DEF PairOutcome
<1> QED
  BY <1>2, <1>3, <1>4, <1>5 DEF Answers

\* What folding an answered pair does to the three outcome counters.
LEMMA CountersMove ==
  ASSUME TypeOK, FoldCounted
  PROVE  LET outcome == PairOutcome(base[pos], edit[pos]) IN
         /\ outcome \in PairOutcomes
         /\ evidence'.wins = Plus(evidence.wins, outcome = EditWon)
         /\ evidence'.losses = Plus(evidence.losses, outcome = BaselineWon)
         /\ evidence'.ties = Plus(evidence.ties, outcome = Tie)
         /\ evidence'.lost = LostTasks(completed', lost')
<1> DEFINE outcome == PairOutcome(base[pos], edit[pos])
<1>1. outcome \in PairOutcomes
  BY OutcomeCases DEF FoldCounted, Counted, Answered, PairOutcomes
<1>2. evidence' = [Observe(evidence, outcome) EXCEPT !.lost = LostTasks(completed', lost')]
  BY DEF FoldCounted
<1>3. Observe(evidence, outcome) \in Evidence
  BY ObserveType DEF TypeOK
<1>4. /\ evidence'.wins = Observe(evidence, outcome).wins
      /\ evidence'.losses = Observe(evidence, outcome).losses
      /\ evidence'.ties = Observe(evidence, outcome).ties
      /\ evidence'.lost = LostTasks(completed', lost')
  BY <1>2, <1>3 DEF Evidence
<1>5. CASE outcome = EditWon
  <2>1. Observe(evidence, outcome) = [evidence EXCEPT !.wins = @ + 1]
    BY <1>5 DEF Observe, EditWon
  <2> QED
    BY <1>1, <1>4, <1>5, <2>1 DEF Plus, EditWon, BaselineWon, Tie, TypeOK, Evidence
<1>6. CASE outcome = BaselineWon
  <2>1. Observe(evidence, outcome) = [evidence EXCEPT !.losses = @ + 1]
    BY <1>6 DEF Observe, BaselineWon
  <2> QED
    BY <1>1, <1>4, <1>6, <2>1 DEF Plus, EditWon, BaselineWon, Tie, TypeOK, Evidence
<1>7. CASE outcome = Tie
  <2>1. Observe(evidence, outcome) = [evidence EXCEPT !.ties = @ + 1]
    BY <1>7 DEF Observe, Tie
  <2> QED
    BY <1>1, <1>4, <1>7, <2>1 DEF Plus, EditWon, BaselineWon, Tie, TypeOK, Evidence
<1> QED
  BY <1>1, <1>5, <1>6, <1>7 DEF PairOutcomes

-----------------------------------------------------------------------------
(***************************************************************************)
(* The two published rates and the pair outcomes tell the same story.      *)
(***************************************************************************)

\* Every step keeps the difference of the rates.
LEMMA StepRates ==
  TypeOK /\ Control /\ RatesAgreeWithPairs /\ [Next]_vars => RatesAgreeWithPairs'
<1> SUFFICES ASSUME TypeOK, Control, RatesAgreeWithPairs, [Next]_vars
             PROVE  RatesAgreeWithPairs'
  OBVIOUS
<1>1. CASE FoldCounted
  <2> DEFINE b == base[pos]
             e == edit[pos]
  <2>1. /\ evidence'.wins = Plus(evidence.wins, PairOutcome(b, e) = EditWon)
        /\ evidence'.losses = Plus(evidence.losses, PairOutcome(b, e) = BaselineWon)
    BY <1>1, CountersMove
  <2>2. basePass' = Plus(basePass, b = Pass) /\ editPass' = Plus(editPass, e = Pass)
    BY <1>1 DEF FoldCounted
  <2>3. b \in Answers /\ e \in Answers
    BY <1>1 DEF FoldCounted, Counted, Answered
  <2>4. /\ evidence.wins \in Nat /\ evidence.losses \in Nat
        /\ basePass \in Nat /\ editPass \in Nat
    BY DEF TypeOK, Evidence
  <2>5. EditWon # BaselineWon /\ EditWon # Tie /\ BaselineWon # Tie /\ Pass # Fail
    BY OutcomeAssumption DEF EditWon, BaselineWon, Tie
  <2>6. CASE b = Fail /\ e = Pass /\ PairOutcome(b, e) = EditWon
    <3>1. evidence'.wins = evidence.wins + 1 /\ evidence'.losses = evidence.losses
      BY <2>1, <2>5, <2>6 DEF Plus
    <3>2. basePass' = basePass /\ editPass' = editPass + 1
      BY <2>2, <2>5, <2>6 DEF Plus
    <3>3. (editPass + 1) - basePass = (evidence.wins + 1) - evidence.losses
      BY <2>4 DEF RatesAgreeWithPairs
    <3> QED
      BY <3>1, <3>2, <3>3 DEF RatesAgreeWithPairs
  <2>7. CASE b = Pass /\ e = Fail /\ PairOutcome(b, e) = BaselineWon
    <3>1. evidence'.wins = evidence.wins /\ evidence'.losses = evidence.losses + 1
      BY <2>1, <2>5, <2>7 DEF Plus
    <3>2. basePass' = basePass + 1 /\ editPass' = editPass
      BY <2>2, <2>5, <2>7 DEF Plus
    <3>3. editPass - (basePass + 1) = evidence.wins - (evidence.losses + 1)
      BY <2>4 DEF RatesAgreeWithPairs
    <3> QED
      BY <3>1, <3>2, <3>3 DEF RatesAgreeWithPairs
  <2>8. CASE b = e /\ PairOutcome(b, e) = Tie
    BY <2>1, <2>2, <2>4, <2>5, <2>8 DEF Plus, RatesAgreeWithPairs
  <2> QED
    BY <2>3, <2>6, <2>7, <2>8, OutcomeCases
<1>2. CASE ~FoldCounted
  <2>1. UNCHANGED <<evidence, basePass, editPass>>
    BY <1>2 DEF Next, PairStep, StartBatch, Finish, Lookup, RunBase, Put, RunEdit,
       RunnerError, SiblingPut, Others, Join, FoldPending, EditRow, NextBatch, Crash,
       measuring, vars
  <2> QED
    BY <2>1 DEF RatesAgreeWithPairs
<1> QED
  BY <1>1, <1>2

\* The pass rates the README table prints and the paired evidence are counted
\* over the same pairs, whatever the suite and however the goroutines answer
\* (measure.go, tally.observe).
THEOREM RatesCorrect == Spec => []RatesAgreeWithPairs
<1>1. Init => TypeOK /\ Control /\ RatesAgreeWithPairs
  BY InitControl DEF Init, RatesAgreeWithPairs, NoEvidence
<1>2. TypeOK /\ Control /\ RatesAgreeWithPairs /\ [Next]_vars
      => TypeOK' /\ Control' /\ RatesAgreeWithPairs'
  BY StepType, StepControl, StepRates
<1> QED
  BY <1>1, <1>2, PTL DEF Spec

-----------------------------------------------------------------------------
(***************************************************************************)
(* The evidence is the answered pairs.                                     *)
(***************************************************************************)

\* The pairs of one task among a set of them.
Of(pairs, t) == {i \in pairs : TaskOf(i) = t}

\* Adding the pair being folded to a set adds one, and one to its task.
LEMMA OneMore ==
  ASSUME NEW pairs \in SUBSET Schedule, NEW p, p \notin pairs
  PROVE  /\ Cardinality(pairs \cup {p}) = Cardinality(pairs) + 1
         /\ \A t : Cardinality(Of(pairs \cup {p}, t)) =
                     IF TaskOf(p) = t THEN Cardinality(Of(pairs, t)) + 1
                                      ELSE Cardinality(Of(pairs, t))
         /\ Cardinality(pairs) \in Nat
         /\ \A t : Cardinality(Of(pairs, t)) \in Nat
<1>1. IsFiniteSet(pairs)
  BY ScheduleFacts, FS_Subset
<1>2. \A t : IsFiniteSet(Of(pairs, t)) /\ Cardinality(Of(pairs, t)) \in Nat
  BY <1>1, FS_Subset, FS_CardinalityType DEF Of
<1>3. ASSUME NEW t
      PROVE  Cardinality(Of(pairs \cup {p}, t)) =
               IF TaskOf(p) = t THEN Cardinality(Of(pairs, t)) + 1
                                ELSE Cardinality(Of(pairs, t))
  <2>1. CASE TaskOf(p) = t
    <3>1. Of(pairs \cup {p}, t) = Of(pairs, t) \cup {p} /\ p \notin Of(pairs, t)
      BY <2>1 DEF Of
    <3>2. IsFiniteSet(Of(pairs, t)) /\ Cardinality(Of(pairs, t)) \in Nat
      BY <1>2
    <3>3. Cardinality(Of(pairs, t) \cup {p}) = Cardinality(Of(pairs, t)) + 1
      BY <3>1, <3>2, FS_AddElement
    <3> QED
      BY <2>1, <3>1, <3>3
  <2>2. CASE TaskOf(p) # t
    <3>1. Of(pairs \cup {p}, t) = Of(pairs, t)
      BY <2>2 DEF Of
    <3> QED
      BY <2>2, <3>1
  <2> QED
    BY <2>1, <2>2
<1> QED
  BY <1>1, <1>2, <1>3, FS_AddElement, FS_CardinalityType

\* Folding an answered pair moves every counter with its set.
LEMMA FoldEvidence ==
  ASSUME TypeOK, Control, EvidenceIsTheAnsweredPairs, FoldCounted
  PROVE  EvidenceIsTheAnsweredPairs'
<1> DEFINE outcome == PairOutcome(base[pos], edit[pos])
<1>1. /\ CountedPairs' = CountedPairs \cup {pos}
      /\ \A o : WithOutcome(o)' = IF outcome = o THEN WithOutcome(o) \cup {pos}
                                                 ELSE WithOutcome(o)
  BY CountedAddsThePair
<1>2. /\ pos \notin CountedPairs /\ CountedPairs \in SUBSET Schedule
      /\ \A o : pos \notin WithOutcome(o) /\ WithOutcome(o) \in SUBSET Schedule
  BY CountedAddsThePair, FoldedFacts
<1>3. ASSUME NEW o
      PROVE  /\ Cardinality(WithOutcome(o)') = Plus(Cardinality(WithOutcome(o)), outcome = o)
             /\ \A t : Cardinality(Of(WithOutcome(o)', t)) =
                  Plus(Cardinality(Of(WithOutcome(o), t)), outcome = o /\ TaskOf(pos) = t)
  <2>1. CASE outcome = o
    <3>1. WithOutcome(o)' = WithOutcome(o) \cup {pos}
      BY <1>1, <2>1
    <3>2. Cardinality(WithOutcome(o) \cup {pos}) = Cardinality(WithOutcome(o)) + 1
      BY <1>2, OneMore
    <3>3. \A t : Cardinality(Of(WithOutcome(o) \cup {pos}, t)) =
                   IF TaskOf(pos) = t THEN Cardinality(Of(WithOutcome(o), t)) + 1
                                      ELSE Cardinality(Of(WithOutcome(o), t))
      BY <1>2, OneMore
    <3> QED
      BY <2>1, <3>1, <3>2, <3>3 DEF Plus
  <2>2. CASE outcome # o
    <3>1. WithOutcome(o)' = WithOutcome(o)
      BY <1>1, <2>2
    <3> QED
      BY <2>2, <3>1 DEF Plus
  <2> QED
    BY <2>1, <2>2
<1>4. \A t : Cardinality(Of(CountedPairs', t)) =
               Plus(Cardinality(Of(CountedPairs, t)), TaskOf(pos) = t)
  BY <1>1, <1>2, OneMore DEF Plus
<1>5. /\ evidence'.wins = Cardinality(WithOutcome(EditWon)')
      /\ evidence'.losses = Cardinality(WithOutcome(BaselineWon)')
      /\ evidence'.ties = Cardinality(WithOutcome(Tie)')
  BY <1>3, CountersMove DEF EvidenceIsTheAnsweredPairs
<1>6. ASSUME NEW t \in TaskSet
      PROVE  /\ completed'[t] = Cardinality(Of(CountedPairs', t))
             /\ lost'[t] = Cardinality(Of(WithOutcome(BaselineWon)', t))
  <2>1. /\ completed[t] = Cardinality(Of(CountedPairs, t))
        /\ lost[t] = Cardinality(Of(WithOutcome(BaselineWon), t))
    BY DEF EvidenceIsTheAnsweredPairs, Of
  <2>2. /\ completed'[t] = Plus(completed[t], TaskOf(pos) = t)
        /\ lost'[t] = Plus(lost[t], outcome = BaselineWon /\ TaskOf(pos) = t)
    BY DEF FoldCounted, Plus, TypeOK
  <2> QED
    BY <1>3, <1>4, <2>1, <2>2
<1> QED
  BY <1>5, <1>6 DEF EvidenceIsTheAnsweredPairs, Of

\* Every step keeps the evidence and the answered pairs together.
LEMMA StepEvidence ==
  TypeOK /\ Control /\ EvidenceIsTheAnsweredPairs /\ [Next]_vars
  => EvidenceIsTheAnsweredPairs'
<1> SUFFICES ASSUME TypeOK, Control, EvidenceIsTheAnsweredPairs, [Next]_vars
             PROVE  EvidenceIsTheAnsweredPairs'
  OBVIOUS
<1>1. CASE FoldCounted
  BY <1>1, FoldEvidence
<1>2. CASE ~FoldCounted
  <2>1. UNCHANGED <<evidence, completed, lost>>
    BY <1>2 DEF Next, PairStep, StartBatch, Finish, Lookup, RunBase, Put, RunEdit,
       RunnerError, SiblingPut, Others, Join, FoldPending, EditRow, NextBatch, Crash,
       measuring, vars
  <2>2. CountedPairs' = CountedPairs /\ \A o : WithOutcome(o)' = WithOutcome(o)
    BY <1>2, PairsKept, PendingAddsNothing
  <2> QED
    BY <2>1, <2>2 DEF EvidenceIsTheAnsweredPairs
<1> QED
  BY <1>1, <1>2

\* At the start nothing is folded and every counter is zero.
LEMMA InitEvidence == Init => EvidenceIsTheAnsweredPairs
<1> SUFFICES ASSUME Init PROVE EvidenceIsTheAnsweredPairs
  OBVIOUS
<1>1. CountedPairs = {} /\ \A o : WithOutcome(o) = {}
  BY DEF Init, Folded, CountedPairs, WithOutcome
<1> QED
  BY <1>1, FS_EmptySet DEF Init, NoEvidence, EvidenceIsTheAnsweredPairs

\* Whatever the suite, the batch size and the order the goroutines answer in,
\* the counters the verdict is read from are exactly the answered pairs read
\* back so far (measure.go, measure).
THEOREM EvidenceCorrect == Spec => []EvidenceIsTheAnsweredPairs
<1>1. Init => TypeOK /\ Control /\ EvidenceIsTheAnsweredPairs
  BY InitControl, InitEvidence
<1>2. TypeOK /\ Control /\ EvidenceIsTheAnsweredPairs /\ [Next]_vars
      => TypeOK' /\ Control' /\ EvidenceIsTheAnsweredPairs'
  BY StepType, StepControl, StepEvidence
<1> QED
  BY <1>1, <1>2, PTL DEF Spec

-----------------------------------------------------------------------------
(***************************************************************************)
(* The count gate's statistic.  It is recomputed at every counted pair and *)
(* only there, so it is always tally.lostTasks of the maps as they stand.  *)
(***************************************************************************)
LostIsCurrent == evidence.lost = LostTasks(completed, lost)

\* At the start no scheduled task is finished.
LEMMA InitLost == Init => LostIsCurrent
<1> SUFFICES ASSUME Init PROVE LostIsCurrent
  OBVIOUS
<1>1. ASSUME NEW t \in TaskSet, Scheduled(t) > 0, completed[t] = Scheduled(t) PROVE FALSE
  BY <1>1, RepeatsNat DEF Init
<1>2. {t \in TaskSet : /\ Scheduled(t) > 0
                       /\ completed[t] = Scheduled(t)
                       /\ lost[t] = Scheduled(t)} = {}
  BY <1>1
<1> QED
  BY <1>2, FS_EmptySet DEF Init, NoEvidence, LostIsCurrent, LostTasks

\* Every step keeps it current.
LEMMA StepLost == TypeOK /\ LostIsCurrent /\ [Next]_vars => LostIsCurrent'
<1> SUFFICES ASSUME TypeOK, LostIsCurrent, [Next]_vars PROVE LostIsCurrent'
  OBVIOUS
<1>1. CASE FoldCounted
  BY <1>1, CountersMove DEF LostIsCurrent
<1>2. CASE ~FoldCounted
  <2>1. UNCHANGED <<evidence, completed, lost>>
    BY <1>2 DEF Next, PairStep, StartBatch, Finish, Lookup, RunBase, Put, RunEdit,
       RunnerError, SiblingPut, Others, Join, FoldPending, EditRow, NextBatch, Crash,
       measuring, vars
  <2> QED
    BY <2>1 DEF LostIsCurrent
<1> QED
  BY <1>1, <1>2

\* A task's two counters reach its number of repeats together exactly when
\* every repeat scheduled for it has been read and lost.
LEMMA LostMeansAll ==
  ASSUME TypeOK, Control, EvidenceIsTheAnsweredPairs, NEW t \in TaskSet
  PROVE  (Scheduled(t) > 0 /\ completed[t] = Scheduled(t) /\ lost[t] = Scheduled(t))
         <=> t \in OutrightLosses
<1> DEFINE All == Of(Schedule, t)
           Read == Of(CountedPairs, t)
           Losing == Of(WithOutcome(BaselineWon), t)
<1>1. Losing \subseteq Read /\ Read \subseteq All /\ IsFiniteSet(All)
  <2>1. IsFiniteSet(All)
    BY ScheduleFacts, FS_Subset DEF Of
  <2> QED
    BY <2>1, FoldedFacts DEF Of
<1>2. /\ Scheduled(t) = Cardinality(All)
      /\ completed[t] = Cardinality(Read) /\ lost[t] = Cardinality(Losing)
  BY DEF Of, Scheduled, EvidenceIsTheAnsweredPairs
<1>3. Cardinality(Losing) = Cardinality(All) <=> Losing = All
  BY <1>1, FS_Subset
<1>4. Cardinality(All) > 0 <=> All # {}
  BY <1>1, FS_EmptySet, FS_CardinalityType
<1>5. t \in OutrightLosses <=> All # {} /\ All \subseteq Losing
  BY DEF OutrightLosses, Of
<1>6. All \subseteq Losing <=> Losing = All
  BY <1>1
<1>7. Losing = All => Read = All
  BY <1>1
<1> QED
  BY <1>2, <1>3, <1>4, <1>5, <1>6, <1>7

\* So the statistic is the number of tasks lost outright.
LEMMA LostIsOutright ==
  TypeOK /\ Control /\ EvidenceIsTheAnsweredPairs /\ LostIsCurrent => GateCountsOutrightLosses
<1> SUFFICES ASSUME TypeOK, Control, EvidenceIsTheAnsweredPairs, LostIsCurrent
             PROVE  GateCountsOutrightLosses
  OBVIOUS
<1>1. OutrightLosses \subseteq TaskSet
  BY DEF OutrightLosses
<1>2. {t \in TaskSet : /\ Scheduled(t) > 0
                       /\ completed[t] = Scheduled(t)
                       /\ lost[t] = Scheduled(t)} = OutrightLosses
  BY <1>1, LostMeansAll
<1> QED
  BY <1>2 DEF LostIsCurrent, LostTasks, GateCountsOutrightLosses

\* For every suite, repeat count and cap, the number the count gate compares
\* with k is the number of tasks whose every scheduled repeat was measured and
\* went to the baseline (measure.go, tally.lostTasks).
THEOREM GateCorrect == Spec => []GateCountsOutrightLosses
<1> DEFINE IInv == TypeOK /\ Control /\ EvidenceIsTheAnsweredPairs /\ LostIsCurrent
<1>1. Init => IInv
  BY InitControl, InitEvidence, InitLost
<1>2. IInv /\ [Next]_vars => IInv'
  BY StepType, StepControl, StepEvidence, StepLost
<1>3. IInv => GateCountsOutrightLosses
  BY LostIsOutright
<1> QED
  BY <1>1, <1>2, <1>3, PTL DEF Spec

-----------------------------------------------------------------------------
(***************************************************************************)
(* The outage rule.  `infra` is the length of the run of uncounted pairs   *)
(* the fold has just read, and the longest one: the pair before it, if     *)
(* there is one, was counted.                                              *)
(***************************************************************************)
Last == IF due = "edit" THEN pos ELSE pos - 1

Streak ==
  /\ infra <= Last
  /\ \A i \in (Last - infra + 1)..Last : i \notin CountedPairs
  /\ infra < Last => (Last - infra) \in CountedPairs
  /\ due = "base" => (phase = "aborted" <=> infra >= ConsecutiveInfraLimit)

\* The last folded pair is also how many there are.
LEMMA LastIs ==
  ASSUME TypeOK
  PROVE  Last \in Nat /\ Folded = 1..Last /\ Cardinality(Folded) = Last
<1>1. Last \in Nat /\ Folded = 1..Last
  BY ScheduleFacts DEF Last, Folded, TypeOK
<1> QED
  BY <1>1, FS_Interval

\* A fold goes one pair further.
LEMMA LastMoves ==
  ASSUME TypeOK, FoldCounted \/ FoldPending
  PROVE  Last' = pos /\ Last = pos - 1 /\ pos \in Nat \ {0} /\ infra \in Nat
         /\ due' = "edit"
BY DEF FoldCounted, FoldPending, Last, TypeOK

\* Every step keeps the streak.
LEMMA StepStreak == TypeOK /\ Control /\ Streak /\ [Next]_vars => Streak'
<1> SUFFICES ASSUME TypeOK, Control, Streak, [Next]_vars PROVE Streak'
  OBVIOUS
<1>1. CASE FoldCounted
  <2>1. infra' = 0 /\ CountedPairs' = CountedPairs \cup {pos}
    BY <1>1, CountedAddsThePair DEF FoldCounted
  <2>2. Last' = pos /\ pos \in Nat \ {0} /\ due' = "edit"
    BY <1>1, LastMoves
  <2>3. (Last' - infra' + 1)..Last' = {} /\ Last' - infra' = pos /\ infra' <= Last'
    BY <2>1, <2>2
  <2> QED
    BY <2>1, <2>2, <2>3 DEF Streak
<1>2. CASE FoldPending
  <2>1. infra' = infra + 1 /\ CountedPairs' = CountedPairs
    BY <1>2, PendingAddsNothing DEF FoldPending
  <2>2. Last' = Last + 1 /\ Last \in Nat /\ infra \in Nat /\ due' = "edit" /\ pos = Last + 1
    BY <1>2, LastMoves
  <2>3. pos \notin CountedPairs
    BY <1>2, PairFolded DEF CountedPairs
  <2>4. \A i \in (Last' - infra' + 1)..Last' : i \notin CountedPairs'
    BY <2>1, <2>2, <2>3 DEF Streak
  <2>5. infra' <= Last' /\ (infra' < Last' => (Last' - infra') \in CountedPairs')
    BY <2>1, <2>2 DEF Streak
  <2> QED
    BY <2>2, <2>4, <2>5 DEF Streak
<1>3. CASE EditRow
  <2>1. Last' = Last /\ infra' = infra
    BY <1>3 DEF EditRow, Last, TypeOK, measuring
  <2>2. CountedPairs' = CountedPairs
    BY <1>3, PairsKept DEF EditRow, FoldCounted, FoldPending
  <2>3. phase' = "aborted" <=> infra' >= ConsecutiveInfraLimit
    BY <1>3 DEF EditRow, Outage, measuring
  <2> QED
    BY <2>1, <2>2, <2>3 DEF Streak
<1>4. CASE ~FoldCounted /\ ~FoldPending /\ ~EditRow
  <2>1. UNCHANGED <<pos, due, infra>> /\ (phase' = "aborted" <=> phase = "aborted")
    BY <1>4 DEF Next, PairStep, StartBatch, Finish, Lookup, RunBase, Put, RunEdit,
       RunnerError, SiblingPut, Others, Join, NextBatch, Crash, measuring, vars
  <2>2. CountedPairs' = CountedPairs
    BY <1>4, PairsKept
  <2> QED
    BY <2>1, <2>2 DEF Streak, Last
<1> QED
  BY <1>1, <1>2, <1>3, <1>4

\* The streak decides the outage rule.
LEMMA StreakDecides == TypeOK /\ Streak => OutageStops
<1> SUFFICES ASSUME TypeOK, Streak, due = "base"
             PROVE  phase = "aborted" <=> OutageTail
  BY DEF OutageStops
<1> DEFINE Limit == ConsecutiveInfraLimit
<1>1. Last \in Nat /\ Cardinality(Folded) = Last /\ infra \in Nat /\ Limit \in Nat \ {0}
  BY LastIs, MeasureAssumption DEF TypeOK
<1>2. OutageTail <=> /\ Last >= Limit
                     /\ \A i \in (Last - Limit + 1)..Last : i \notin CountedPairs
  BY <1>1 DEF OutageTail
<1>3. ASSUME infra >= Limit PROVE OutageTail
  <2>1. Last >= Limit
    BY <1>1, <1>3 DEF Streak
  <2>2. \A i \in (Last - Limit + 1)..Last : i \in (Last - infra + 1)..Last
    BY <1>1, <1>3
  <2> QED
    BY <1>2, <2>1, <2>2 DEF Streak
<1>4. ASSUME OutageTail, infra < Limit PROVE FALSE
  <2>1. Last - infra \in (Last - Limit + 1)..Last /\ infra < Last
    BY <1>1, <1>2, <1>4
  <2> QED
    BY <1>2, <1>4, <2>1 DEF Streak
<1> QED
  BY <1>1, <1>3, <1>4 DEF Streak

\* For every limit and wherever the batches end, the split is aborted exactly
\* when the last ConsecutiveInfraLimit pairs read all went unanswered
\* (measure.go, measure).
THEOREM OutageCorrect == Spec => []OutageStops
<1>1. Init => TypeOK /\ Control /\ Streak
  BY InitControl, MeasureAssumption DEF Init, Streak, Last
<1>2. TypeOK /\ Control /\ Streak /\ [Next]_vars => TypeOK' /\ Control' /\ Streak'
  BY StepType, StepControl, StepStreak
<1>3. TypeOK /\ Streak => OutageStops
  BY StreakDecides
<1> QED
  BY <1>1, <1>2, <1>3, PTL DEF Spec

-----------------------------------------------------------------------------
(***************************************************************************)
(* Refinement: SplitMeasure implements SplitTest for every suite, batch    *)
(* size, cap, gate and outage limit: goroutines, cache, journal and        *)
(* crashes notwithstanding, a split is measured one pair after the other.  *)
(***************************************************************************)
IInv == TypeOK /\ Control /\ EvidenceIsTheAnsweredPairs /\ LostIsCurrent /\ Streak

\* The invariants of the other theorems hold together.
LEMMA Together == Spec => []IInv
<1>1. Init => IInv
  BY InitControl, InitEvidence, InitLost, MeasureAssumption DEF IInv, Init, Streak, Last
<1>2. IInv /\ [Next]_vars => IInv'
  BY StepType, StepControl, StepEvidence, StepLost, StepStreak DEF IInv
<1> QED
  BY <1>1, <1>2, PTL DEF Spec

-----------------------------------------------------------------------------
(***************************************************************************)
(* The mapped state                                                        *)
(***************************************************************************)
Todo == IF TestStatus = "running" /\ phase \in {"running", "folding"}
        THEN Cardinality(Batch \ Folded) ELSE 0

Stays == infra < ConsecutiveInfraLimit

\* The mapped state in terms of the last pair read and the end of the batch.
Mapped ==
  /\ Last \in Nat /\ Cardinality(Folded) = Last
  /\ ~Stays => TestStatus = "aborted" /\ Todo = 0
  /\ Stays /\ phase \in {"running", "folding"} =>
       TestStatus = "running" /\ Todo = LastOfBatch - Last /\ Last <= LastOfBatch
  /\ phase = "running" => Last = start - 1
  /\ phase = "batch" =>
       /\ Stays /\ TestStatus = "running" /\ Todo = 0
       /\ Last = IF start <= NPairs THEN start - 1 ELSE NPairs
  /\ Stays /\ phase = "done" => TestStatus = "done" /\ Todo = 0
  /\ Stays /\ phase \in {"failed", "crashed"} => TestStatus = "failed" /\ Todo = 0

\* The invariant says where each phase is in the sequential test.
LEMMA MappedIs == TypeOK /\ Control /\ Streak => Mapped
<1> SUFFICES ASSUME TypeOK, Control, Streak PROVE Mapped
  OBVIOUS
<1>1. Last \in Nat /\ Folded = 1..Last /\ Cardinality(Folded) = Last
  BY LastIs
<1>2. /\ start \in Nat \ {0} /\ infra \in Nat /\ pos \in Nat \ {0}
      /\ NPairs \in Nat /\ Parallel \in Nat \ {0} /\ ConsecutiveInfraLimit \in Nat \ {0}
  BY ScheduleFacts, MeasureAssumption DEF TypeOK
<1>3. Batch = start..LastOfBatch /\ LastOfBatch \in Int
  BY <1>2, BatchIs
<1>4. start <= NPairs => start <= LastOfBatch
  BY <1>2 DEF LastOfBatch
<1>5. ASSUME phase \in {"running", "folding"}
      PROVE  /\ Last <= LastOfBatch /\ Cardinality(Batch \ Folded) = LastOfBatch - Last
             /\ phase = "running" => Last = start - 1
  <2>1. start - 1 <= Last /\ Last <= LastOfBatch /\ (phase = "running" => Last = start - 1)
    BY <1>2, <1>3, <1>4, <1>5 DEF Control, FoldInBatch, Last
  <2>2. Batch \ Folded = (Last + 1)..LastOfBatch
    BY <1>1, <1>2, <1>3, <2>1
  <2>3. Cardinality((Last + 1)..LastOfBatch) = LastOfBatch - Last
    <3>1. Last + 1 \in Int /\ Last + 1 <= LastOfBatch + 1 /\ LastOfBatch \in Int
      BY <1>1, <1>3, <2>1
    <3>2. Cardinality((Last + 1)..LastOfBatch) =
            IF Last + 1 > LastOfBatch THEN 0 ELSE LastOfBatch - (Last + 1) + 1
      BY <3>1, FS_Interval
    <3> QED
      BY <1>1, <3>1, <3>2
  <2> QED
    BY <2>1, <2>2, <2>3
<1>6. phase = "batch" => Stays /\ Last = IF start <= NPairs THEN start - 1 ELSE NPairs
  BY <1>2 DEF Control, FoldInBatch, Streak, Stays, Last
<1>7. TestStatus = IF ~Stays THEN "aborted"
                   ELSE IF phase = "done" THEN "done"
                   ELSE IF phase \in {"failed", "crashed"} THEN "failed" ELSE "running"
  BY <1>2 DEF TestStatus, Stays
<1> QED
  BY <1>1, <1>5, <1>6, <1>7 DEF Mapped, Todo

\* And it does so after a step.
LEMMA MappedNext == (TypeOK /\ Control /\ Streak)' => Mapped'
BY MappedIs, PTL

\* The test reads its evidence as the measurement does.
LEMMA SameTest ==
  /\ \A e : Test!Decided(e) <=> Decided(e)
  /\ \A e, o : Test!Observe(e, o) = Observe(e, o)
  /\ Test!NoEvidence = NoEvidence /\ Test!PairOutcomes = PairOutcomes
  /\ Test!BaselineWon = BaselineWon
  /\ \A a, b : Test!Min({a, b}) = Min({a, b})
<1>1. \A n, k : Test!choose(n, k) = choose(n, k)
  BY DEF Test!choose, choose, Test!factorial, factorial
<1>2. \A b, c, level : Test!EReaches(b, c, level) <=> EReaches(b, c, level)
  BY <1>1 DEF Test!EReaches, EReaches, Test!twoTo, twoTo
<1>3. \A b, c, t, level : Test!EReachesAt(b, c, t, level) <=> EReachesAt(b, c, t, level)
  BY <1>1 DEF Test!EReachesAt, EReachesAt
<1>4. /\ \A S : Test!Min(S) = Min(S)
      /\ \A S : Test!Max(S) = Max(S)
  BY DEF Test!Min, Min, Test!Max, Max
<1>5. ASSUME NEW b, NEW c, NEW level
      PROVE  Test!ThetaCS(b, c, level) = ThetaCS(b, c, level)
  <2> DEFINE Below(reaches(_)) == {t \in 0..Grid : t * (b + c) <= b * Grid /\ reaches(t)}
             Above(reaches(_)) == {t \in 0..Grid : t * (b + c) >= b * Grid /\ reaches(t)}
             Theirs(t) == Test!EReachesAt(b, c, t, level)
             Ours(t) == EReachesAt(b, c, t, level)
  <2>1. \A t : Theirs(t) <=> Ours(t)
    BY <1>3
  <2> HIDE DEF Theirs, Ours
  <2>2. Below(Theirs) = Below(Ours) /\ Above(Theirs) = Above(Ours)
    BY <2>1
  <2> QED
    BY <1>4, <2>2 DEF Test!ThetaCS, ThetaCS, Theirs, Ours
<1>6. \A e : Test!DeltaCorners(e) = DeltaCorners(e)
  BY <1>5 DEF Test!DeltaCorners, DeltaCorners, Test!Discordant, Discordant
<1>7. \A e : Test!DeltaLo(e) = DeltaLo(e)
  BY <1>4, <1>6 DEF Test!DeltaLo, DeltaLo, Test!Pairs, Pairs
<1>8. \A e : Test!NonInferior(e) <=> NonInferior(e)
  BY <1>7 DEF Test!NonInferior, NonInferior, Test!Pairs, Pairs
<1>9. \A e : Test!Gain(e) <=> Gain(e)
  BY <1>2 DEF Test!Gain, Gain
<1>10. \A e : Test!Harm(e) <=> Harm(e)
  BY <1>2 DEF Test!Harm, Harm
<1>11. \A e : Test!CountOK(e) <=> CountOK(e)
  BY DEF Test!CountOK, CountOK, Test!CountGateOff, CountGateOff
<1>12. \A e : Test!Decided(e) <=> Decided(e)
  BY <1>8, <1>9, <1>10, <1>11 DEF Test!Decided, Decided, Test!Verdict, Verdict, Test!Reading, Reading
<1> QED
  BY <1>4, <1>12 DEF Test!Observe, Observe, Test!NoEvidence, NoEvidence, Test!PairOutcomes, PairOutcomes,
     Test!EditWon, EditWon, Test!Tie, Tie, Test!BaselineWon, BaselineWon, Test!Min, Min

-----------------------------------------------------------------------------
(***************************************************************************)
(* Every step is one of the test, or none                                  *)
(***************************************************************************)
Refined == Test!TestNext \/ UNCHANGED Test!testVars

\* What a step that reads no pair leaves alone.
LEMMA NothingRead ==
  ASSUME TypeOK, UNCHANGED <<pos, due>>
  PROVE  Folded' = Folded /\ Cardinality(Folded)' = Cardinality(Folded)
BY DEF Folded

\* A batch is scheduled: the test asks for as many pairs.
LEMMA BatchStarts ==
  ASSUME Mapped, Mapped', TypeOK, StartBatch PROVE Test!StartBatch
<1>1. /\ NPairs \in Nat /\ Parallel \in Nat \ {0} /\ start \in Nat \ {0}
  BY ScheduleFacts, MeasureAssumption DEF TypeOK
<1>2. /\ TestStatus = "running" /\ Todo = 0 /\ Cardinality(Folded) = start - 1
      /\ start <= NPairs /\ ~Test!Decided(evidence) /\ Stays
  BY SameTest DEF StartBatch, Mapped
<1>3. UNCHANGED <<start, evidence, infra, pos, due>> /\ phase' = "running" /\ Stays' /\ LastOfBatch' = LastOfBatch
  BY <1>2 DEF StartBatch, measuring, Stays, LastOfBatch
<1>4. /\ TestStatus' = "running" /\ Todo' = LastOfBatch - (start - 1)
      /\ Cardinality(Folded)' = Cardinality(Folded)
  BY <1>3, NothingRead DEF Mapped
<1>5. Test!Min({Parallel, NPairs - (start - 1)}) = LastOfBatch - (start - 1)
  <2> DEFINE left == NPairs - (start - 1)
  <2>1. left \in Int
    BY <1>1
  <2>2. Test!Min({Parallel, left}) = Min({Parallel, left})
    BY SameTest
  <2>3. Min({Parallel, left}) = IF Parallel <= left THEN Parallel ELSE left
    BY <1>1, <2>1, MinOfTwo
  <2>4. LastOfBatch - (start - 1) = IF Parallel <= left THEN Parallel ELSE left
    BY <1>1 DEF LastOfBatch
  <2> QED
    BY <2>2, <2>3, <2>4
<1> QED
  BY <1>1, <1>2, <1>3, <1>4, <1>5 DEF Test!StartBatch, Todo

\* The loop ends: so does the test.
LEMMA TestEnds ==
  ASSUME Mapped, Mapped', TypeOK, Finish PROVE Test!Finish
<1>1. /\ NPairs \in Nat /\ start \in Nat \ {0}
  BY ScheduleFacts DEF TypeOK
<1>2. /\ TestStatus = "running" /\ Todo = 0 /\ Stays
      /\ Cardinality(Folded) = NPairs \/ Test!Decided(evidence)
  BY <1>1, SameTest DEF Finish, Mapped
<1>3. UNCHANGED <<evidence, infra, pos, due>> /\ phase' = "done" /\ Stays'
  BY <1>2 DEF Finish, measuring, Stays
<1>4. /\ TestStatus' = "done" /\ Todo' = 0
      /\ Cardinality(Folded)' = Cardinality(Folded)
  BY <1>3, NothingRead DEF Mapped
<1> QED
  BY <1>2, <1>3, <1>4 DEF Test!Finish, Todo

\* The statistic of the count gate moves by one at most, and only when the
\* pair just read was the last its task had left to lose.
LEMMA LostMovesByOne ==
  ASSUME IInv, FoldCounted
  PROVE  \E more \in {0, 1} :
           /\ more = 1 => PairOutcome(base[pos], edit[pos]) = BaselineWon
           /\ LostTasks(completed', lost') = evidence.lost + more
<1> DEFINE outcome == PairOutcome(base[pos], edit[pos])
           t == TaskOf(pos)
           Out(done, losses) == {u \in TaskSet : /\ Scheduled(u) > 0
                                                 /\ done[u] = Scheduled(u)
                                                 /\ losses[u] = Scheduled(u)}
           before == Out(completed, lost)
           after == Out(completed', lost')
<1> USE DEF IInv
<1>1. pos \in Schedule /\ t \in TaskSet /\ IsFiniteSet(TaskSet)
  <2>1. pos \in Schedule
    BY BatchIs DEF FoldCounted, TypeOK
  <2>2. IsFiniteSet(TaskSet)
    <3> DEFINE at == [k \in 1..Len(Tasks) |-> Tasks[k]]
    <3>1. IsFiniteSet(1..Len(Tasks))
      BY ScheduleFacts, FS_Interval
    <3>2. at \in Surjection(1..Len(Tasks), TaskSet)
      BY DEF TaskSet, Surjection
    <3> HIDE DEF at
    <3> QED
      BY <3>1, <3>2, FS_Surjection
  <2> QED
    BY <2>1, <2>2, ScheduleFacts
<1>2. /\ completed' = [completed EXCEPT ![t] = @ + 1]
      /\ lost' = [lost EXCEPT ![t] = Plus(@, outcome = BaselineWon)]
  BY DEF FoldCounted
<1>3. completed[t] < Scheduled(t) /\ lost[t] <= completed[t]
      /\ completed[t] \in Nat /\ lost[t] \in Nat /\ Scheduled(t) \in Nat
  <2>1. /\ Of(CountedPairs, t) \subseteq Of(Schedule, t) \ {pos} /\ pos \in Of(Schedule, t)
        /\ Of(WithOutcome(BaselineWon), t) \subseteq Of(CountedPairs, t)
    BY <1>1, FoldedFacts, CountedAddsThePair DEF Of
  <2>2. IsFiniteSet(Of(Schedule, t)) /\ IsFiniteSet(Of(CountedPairs, t))
    BY ScheduleFacts, FoldedFacts, FS_Subset DEF Of
  <2>3. /\ Cardinality(Of(CountedPairs, t)) <= Cardinality(Of(Schedule, t) \ {pos})
        /\ Cardinality(Of(WithOutcome(BaselineWon), t)) <= Cardinality(Of(CountedPairs, t))
        /\ Cardinality(Of(Schedule, t) \ {pos}) = Cardinality(Of(Schedule, t)) - 1
    <3>1. Cardinality(Of(Schedule, t) \ {pos}) = Cardinality(Of(Schedule, t)) - 1 /\ IsFiniteSet(Of(Schedule, t) \ {pos})
      BY <2>1, <2>2, FS_RemoveElement
    <3> QED
      BY <2>1, <2>2, <3>1, FS_Subset
  <2>4. /\ completed[t] = Cardinality(Of(CountedPairs, t))
        /\ lost[t] = Cardinality(Of(WithOutcome(BaselineWon), t))
        /\ Scheduled(t) = Cardinality(Of(Schedule, t))
    BY <1>1 DEF EvidenceIsTheAnsweredPairs, Of, Scheduled
  <2>5. completed[t] \in Nat /\ lost[t] \in Nat /\ Scheduled(t) \in Nat
    BY <1>1, RepeatsNat DEF TypeOK
  <2> QED
    BY <2>3, <2>4, <2>5
<1>4. t \notin before
  BY <1>3
<1>5. after = before \/ after = before \cup {t}
  <2>1. \A u \in TaskSet \ {t} : completed'[u] = completed[u] /\ lost'[u] = lost[u]
    BY <1>2 DEF TypeOK
  <2> QED
    BY <1>1, <1>4, <2>1
<1>6. t \in after => outcome = BaselineWon
  <2>1. lost'[t] = Plus(lost[t], outcome = BaselineWon)
    BY <1>1, <1>2 DEF TypeOK
  <2> QED
    BY <1>3, <2>1 DEF Plus
<1>7. IsFiniteSet(before) /\ Cardinality(before) \in Nat
  BY <1>1, FS_Subset, FS_CardinalityType
<1>8. evidence.lost = Cardinality(before) /\ LostTasks(completed', lost') = Cardinality(after)
  BY DEF LostIsCurrent, LostTasks
<1>9. after = before \/ (outcome = BaselineWon /\ Cardinality(after) = Cardinality(before) + 1)
  BY <1>4, <1>5, <1>6, <1>7, FS_AddElement
<1> HIDE DEF before, after, outcome
<1>10. CASE after = before
  <2>1. LostTasks(completed', lost') = evidence.lost + 0
    BY <1>7, <1>8, <1>10
  <2> QED
    BY <2>1
<1>11. CASE outcome = BaselineWon /\ Cardinality(after) = Cardinality(before) + 1
  <2>1. LostTasks(completed', lost') = evidence.lost + 1
    BY <1>7, <1>8, <1>11
  <2> QED
    BY <1>11, <2>1 DEF outcome
<1> QED
  BY <1>9, <1>10, <1>11

\* A pair both arms answered.
LEMMA CountedIsRead ==
  ASSUME IInv, Mapped, Mapped', TypeOK', FoldCounted PROVE Test!FoldCounted
<1> DEFINE outcome == PairOutcome(base[pos], edit[pos])
<1>1. Stays
  BY MeasureAssumption DEF FoldCounted, IInv, TypeOK, Streak, Stays
<1>2. /\ phase = "folding" /\ phase' = "folding" /\ infra' = 0 /\ UNCHANGED start
      /\ Last = pos - 1 /\ Last' = pos /\ pos \in Nat \ {0} /\ LastOfBatch' = LastOfBatch
  BY DEF FoldCounted, Last, LastOfBatch, IInv, TypeOK
<1>3. Stays' /\ pos <= LastOfBatch /\ LastOfBatch \in Int
  <2>1. Stays'
    BY <1>2, MeasureAssumption DEF Stays
  <2> QED
    BY <2>1, BatchIs DEF FoldCounted, IInv, TypeOK
<1>4. /\ TestStatus = "running" /\ Todo = LastOfBatch - (pos - 1) /\ Cardinality(Folded) = pos - 1
      /\ TestStatus' = "running" /\ Todo' = LastOfBatch - pos /\ Cardinality(Folded)' = pos
  BY <1>1, <1>2, <1>3 DEF Mapped
<1>5. outcome \in PairOutcomes
  BY OutcomeCases DEF FoldCounted, Counted, Answered, PairOutcomes
<1>6. PICK more \in {0, 1} : /\ more = 1 => outcome = BaselineWon
                             /\ LostTasks(completed', lost') = evidence.lost + more
  BY LostMovesByOne
<1>7. evidence' = [Observe(evidence, outcome) EXCEPT !.lost = @ + more]
  <2>1. Observe(evidence, outcome).lost = evidence.lost
    <3>1. evidence \in Evidence
      BY DEF IInv, TypeOK
    <3> QED
      BY <3>1, <1>5 DEF Observe, Evidence, PairOutcomes, EditWon, Tie, BaselineWon
  <2>2. evidence' = [Observe(evidence, outcome) EXCEPT !.lost = LostTasks(completed', lost')]
    BY DEF FoldCounted
  <2> QED
    BY <1>6, <2>1, <2>2
<1>8. \E o \in Test!PairOutcomes, more_1 \in {0, 1} :
        /\ more_1 = 1 => o = Test!BaselineWon
        /\ evidence' = [Test!Observe(evidence, o) EXCEPT !.lost = @ + more_1]
  BY <1>5, <1>6, <1>7, SameTest
<1> QED
  BY <1>2, <1>3, <1>4, <1>8 DEF Test!FoldCounted, Todo

\* A pair an arm did not answer, the last the outage rule allows or not.
LEMMA PendingIsRead ==
  ASSUME IInv, Mapped, Mapped', FoldPending PROVE Test!FoldPending
<1>1. Stays
  BY MeasureAssumption DEF FoldPending, IInv, TypeOK, Streak, Stays
<1>2. /\ phase = "folding" /\ phase' = "folding" /\ infra' = infra + 1 /\ UNCHANGED <<start, evidence>>
      /\ Last = pos - 1 /\ Last' = pos /\ pos \in Nat \ {0} /\ LastOfBatch' = LastOfBatch
      /\ infra \in Nat /\ ConsecutiveInfraLimit \in Nat
  BY MeasureAssumption DEF FoldPending, Last, LastOfBatch, IInv, TypeOK
<1>3. pos <= LastOfBatch /\ LastOfBatch \in Int
  BY BatchIs DEF FoldPending, IInv, TypeOK
<1>4. /\ TestStatus = "running" /\ Todo = LastOfBatch - (pos - 1) /\ Cardinality(Folded) = pos - 1
      /\ Cardinality(Folded)' = pos
  BY <1>1, <1>2 DEF Mapped
<1>5. IF infra + 1 >= ConsecutiveInfraLimit
      THEN TestStatus' = "aborted" /\ Todo' = 0
      ELSE TestStatus' = "running" /\ Todo' = LastOfBatch - pos
  BY <1>2 DEF Mapped, Stays
<1>6. IF infra' >= ConsecutiveInfraLimit
      THEN TestStatus' = "aborted" /\ Todo' = 0
      ELSE TestStatus' = TestStatus /\ Todo' = Todo - 1
  BY <1>2, <1>3, <1>4, <1>5
<1> QED
  BY <1>2, <1>3, <1>4, <1>6 DEF Test!FoldPending, Todo

\* A runner's error, or the end of the process: the test stops short, unless
\* the outage rule had spoken.
LEMMA StopsShort ==
  ASSUME IInv, Mapped, Mapped', Crash \/ (Join /\ phase' = "failed") PROVE Refined
<1>1. /\ UNCHANGED <<evidence, infra, pos, due, start>> /\ phase' \in {"failed", "crashed"}
      /\ phase \in {"batch", "running", "folding"}
  BY DEF Crash, Join, measuring
<1>2. Cardinality(Folded)' = Cardinality(Folded) /\ Stays' = Stays
  BY <1>1 DEF Folded, Stays
<1>3. CASE Stays
  <2>1. TestStatus = "running" /\ TestStatus' = "failed" /\ Todo' = 0
    BY <1>1, <1>2, <1>3 DEF Mapped
  <2> QED
    BY <1>1, <1>2, <2>1 DEF Refined, Test!TestNext, Test!StopShort, Todo
<1>4. CASE ~Stays
  <2>1. TestStatus' = TestStatus /\ Todo' = Todo
    BY <1>2, <1>4 DEF Mapped
  <2> QED
    BY <1>1, <1>2, <2>1 DEF Refined, Test!testVars, Todo
<1> QED
  BY <1>3, <1>4

\* What the goroutines, the journal's second row and the batch's end do, the
\* test does not see.
LEMMA Unseen ==
  ASSUME IInv, Mapped, Mapped', [Next]_vars,
         ~StartBatch, ~Finish, ~FoldCounted, ~FoldPending, ~Crash, ~(Join /\ phase' = "failed")
  PROVE  UNCHANGED Test!testVars
<1>1. CASE EditRow
  <2>1. /\ phase = "folding" /\ phase' \in {"folding", "aborted"} /\ UNCHANGED <<evidence, infra, start>>
        /\ Last' = Last /\ LastOfBatch' = LastOfBatch
        /\ Stays' = Stays /\ (Stays => phase' = "folding")
    BY <1>1, MeasureAssumption DEF EditRow, Outage, measuring, Last, LastOfBatch, Stays, IInv, TypeOK
  <2>2. TestStatus' = TestStatus /\ Todo' = Todo /\ Cardinality(Folded)' = Cardinality(Folded)
    BY <2>1 DEF Mapped
  <2> QED
    BY <2>1, <2>2 DEF Test!testVars, Todo
<1>2. CASE NextBatch
  <2>1. /\ phase = "folding" /\ phase' = "batch" /\ UNCHANGED <<evidence, infra, pos, due>>
        /\ pos \notin Batch /\ due = "base"
    BY <1>2 DEF NextBatch, measuring
  <2>2. Stays /\ Last = LastOfBatch
    <3>1. start <= pos /\ pos <= LastOfBatch + 1 /\ pos \in Nat \ {0} /\ start \in Nat \ {0}
      BY <2>1 DEF IInv, Control, FoldInBatch, TypeOK
    <3>2. Batch = start..LastOfBatch /\ LastOfBatch \in Int
      BY <3>1, BatchIs
    <3>3. pos = LastOfBatch + 1
      BY <2>1, <3>1, <3>2
    <3> QED
      BY <2>1, <3>1, <3>2, <3>3, MeasureAssumption DEF Last, Stays, IInv, TypeOK, Streak
  <2>3. Cardinality(Folded)' = Cardinality(Folded) /\ Last \in Nat
    BY <2>1 DEF Folded, Mapped
  <2>4. TestStatus' = TestStatus /\ Todo' = Todo
    BY <2>1, <2>2, <2>3 DEF Mapped
  <2> QED
    BY <2>1, <2>3, <2>4 DEF Test!testVars, Todo
<1>3. CASE ~EditRow /\ ~NextBatch
  <2>1. /\ UNCHANGED <<evidence, infra, pos, due, start>>
        /\ UNCHANGED phase \/ (phase = "running" /\ phase' = "folding")
    BY <1>3 DEF Next, PairStep, Lookup, RunBase, Put, RunEdit, RunnerError, SiblingPut, Others,
       Join, measuring, vars
  <2>2. Folded' = Folded /\ Batch' = Batch
    BY <2>1 DEF Folded, Batch
  <2>3. TestStatus' = TestStatus
    BY <2>1 DEF TestStatus
  <2> QED
    BY <2>1, <2>2, <2>3 DEF Test!testVars
<1> QED
  BY <1>1, <1>2, <1>3

\* For every suite, batch size, cap, gate, outage limit and whatever the cache
\* remembers: measuring a split with goroutines is measuring it one pair after
\* the other (measure.go, measure and runBatch).
THEOREM ImplementsTheTest == Spec => ImplementsSplitTest
<1>1. Init => Test!TestInit
  <2> SUFFICES ASSUME Init PROVE Test!TestInit
    OBVIOUS
  <2>1. Folded = {} /\ Cardinality(Folded) = 0
    BY FS_EmptySet DEF Init, Folded
  <2>2. TestStatus = "running"
    BY MeasureAssumption DEF Init, TestStatus
  <2> QED
    BY <2>1, <2>2, SameTest DEF Init, Test!TestInit
<1>2. IInv /\ IInv' /\ [Next]_vars => [Test!TestNext]_(Test!testVars)
  <2> SUFFICES ASSUME IInv, IInv', [Next]_vars PROVE Refined
    BY DEF Refined
  <2>1. Mapped /\ Mapped' /\ TypeOK /\ TypeOK'
    BY MappedIs, MappedNext DEF IInv
  <2>2. CASE StartBatch
    BY <2>1, <2>2, BatchStarts DEF Refined, Test!TestNext
  <2>3. CASE Finish
    BY <2>1, <2>3, TestEnds DEF Refined, Test!TestNext
  <2>4. CASE FoldCounted
    BY <2>1, <2>4, CountedIsRead DEF Refined, Test!TestNext
  <2>5. CASE FoldPending
    BY <2>1, <2>5, PendingIsRead DEF Refined, Test!TestNext
  <2>6. CASE Crash \/ (Join /\ phase' = "failed")
    BY <2>1, <2>6, StopsShort
  <2>7. CASE ~(StartBatch \/ Finish \/ FoldCounted \/ FoldPending \/ Crash \/ (Join /\ phase' = "failed"))
    BY <2>1, <2>7, Unseen DEF Refined
  <2> QED
    BY <2>2, <2>3, <2>4, <2>5, <2>6, <2>7
<1> QED
  BY <1>1, <1>2, Together, PTL DEF Spec, ImplementsSplitTest, Test!TestSpec
=============================================================================
