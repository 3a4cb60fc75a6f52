----------------------------- MODULE JudgeTrial ----------------------------
(***************************************************************************)
(* A judge trial and its resumed passes (internal/judge/trial.go: Trial;   *)
(* trialresume.go; trialreport.go: assemble).  One pass at a time runs     *)
(* over one output directory, which holds the identity (resume.json), the  *)
(* journal (results.jsonl) and the report (trial.json).  The clock, the    *)
(* operator's interrupt and a crash may come at any moment of a pass.      *)
(***************************************************************************)
EXTENDS TrialPlan

CONSTANTS
  Cards,     \* the experiments: [block, hooked, sameBuild, saved]
  Versions,  \* what the files a trial is measured on may hold
  Nothing,   \* no identity file, or no condition
  Longest    \* the manifests interleave is checked on

ASSUME TrialAssumption ==
  /\ \A card \in Cards :
       /\ card.block \in Nat /\ card.sameBuild \in BOOLEAN
       /\ card.hooked \subseteq Conditions
       /\ card.saved \subseteq Range(Dev \o Known \o Rest)
  /\ {Nothing, "torn"} \cap Versions = {} /\ Nothing # "torn"
  /\ Nothing \notin Conditions
  /\ Longest \in Nat

VARIABLES
  card,
  plan,      \* the card's fixed order
  inputs,    \* what the fingerprinted files hold now
  identity,  \* the fingerprint of resume.json: Nothing, "torn" or a version
  journal,
  report,
  fleet,     \* the condition the fleet is really in
  phase,     \* the pass: "idle" when none runs
  k,         \* its position in the plan
  done,      \* records the pass found in the journal
  current,   \* the condition it believes the fleet is in
  known,     \* items with a conversation digest of this pass's own
  resolved,  \* the base condition's key is known
  late,      \* the clock is past the deadline
  cancelled, \* the context is
  dropped,   \* overBudget
  entered,   \* switches that succeeded
  refused    \* some switch failed

setup == <<card, plan>>
disk  == <<identity, journal, report>>
pass  == <<phase, k, done, current, known, resolved, late, cancelled,
           dropped, entered, refused>>
vars  == <<setup, inputs, disk, fleet, pass>>

Step == plan[k]
Recorded(step, rows) == \E n \in DOMAIN rows : rows[n].step = step

NoReport == [kind |-> "none"]
\* The locals of a pass, gone when it ends.
NoPass ==
  /\ phase = "idle" /\ k = 1 /\ done = 0
  /\ current = Nothing /\ known = {} /\ resolved = FALSE
  /\ late = FALSE /\ cancelled = FALSE /\ dropped = FALSE
  /\ entered = 0 /\ refused = FALSE
EndPass ==
  /\ phase' = "idle" /\ k' = 1 /\ done' = 0
  /\ current' = Nothing /\ known' = {} /\ resolved' = FALSE
  /\ late' = FALSE /\ cancelled' = FALSE /\ dropped' = FALSE
  /\ entered' = 0 /\ refused' = FALSE

Init ==
  /\ card \in Cards /\ plan = PlanOf(card)
  /\ inputs \in Versions
  /\ identity = Nothing /\ journal = <<>> /\ report = NoReport
  /\ fleet = "down"
  /\ NoPass

-----------------------------------------------------------------------------
(***************************************************************************)
(* Starting a pass: the identity is checked, or created and then filled    *)
(* in, before the plan is preregistered.  A pass over a journal with       *)
(* records is given --resume.                                              *)
(***************************************************************************)
\* Mutant: whatever identity is there will do.
Resumable_Any == identity # "torn"

\* Mutant: only a fresh directory is ever started on.
Resumable_Fresh == identity = Nothing /\ journal = <<>>

\* ensureTrialResumeState, up to the creation of the file.
Resumable == identity = inputs \/ (identity = Nothing /\ journal = <<>>)

Claim ==
  /\ phase = "idle" /\ Resumable
  /\ IF identity = Nothing
     THEN identity' = "torn" /\ phase' = "identifying"
     ELSE identity' = identity /\ phase' = "planning"
  /\ done' = Len(journal)
  /\ UNCHANGED <<setup, inputs, journal, report, fleet, k, current, known, resolved,
                 late, cancelled, dropped, entered, refused>>

Identify ==
  /\ phase = "identifying"
  /\ identity' = inputs /\ phase' = "planning"
  /\ UNCHANGED <<setup, inputs, journal, report, fleet, k, done, current, known,
                 resolved, late, cancelled, dropped, entered, refused>>

Preregister ==
  /\ phase = "planning"
  /\ report' = [kind |-> "plan"] /\ phase' = "running"
  /\ UNCHANGED <<setup, inputs, identity, journal, fleet, k, done, current, known,
                 resolved, late, cancelled, dropped, entered, refused>>

-----------------------------------------------------------------------------
(***************************************************************************)
(* trialRun.step, and what Trial makes of its error                        *)
(***************************************************************************)
InPlan == phase = "running" /\ k <= Len(plan)

\* Mutant: a pass does not look at what earlier ones recorded.
Completed_Never(step) == FALSE

Completed(step) == \E n \in 1..done : journal[n].step = step

\* Mutant: the deadline is looked at before the saved runs.
Reusable_Paid ==
  /\ Step.condition = "base" /\ resolved /\ ~late
  /\ Step.item \in card.saved \cap known

\* trialRun.reuse finds a saved run with the base condition's key.
Reusable ==
  Step.condition = "base" /\ resolved /\ Step.item \in card.saved \cap known

\* trialRun.record.  `under` is what the step's reuse key digests.
Record(source, answer) ==
  journal' = Append(journal, [step |-> Step, source |-> source,
                              answer |-> answer, under |-> inputs])

Skip ==
  /\ InPlan /\ Completed(Step)
  /\ k' = k + 1
  /\ UNCHANGED <<setup, inputs, disk, fleet, phase, done, current, known, resolved,
                 late, cancelled, dropped, entered, refused>>

\* A saved answer costs nothing: neither the clock nor the context stops it.
Reuse ==
  /\ InPlan /\ ~Completed(Step) /\ Reusable
  /\ Record("reused", "answered")
  /\ k' = k + 1
  /\ UNCHANGED <<setup, inputs, identity, report, fleet, phase, done, current, known,
                 resolved, late, cancelled, dropped, entered, refused>>

\* Candidate texts, or a saved judgement, that do not read: a failed step.
Unreadable ==
  /\ InPlan /\ ~Completed(Step)
  /\ Record("measured", "none")
  /\ k' = k + 1
  /\ UNCHANGED <<setup, inputs, identity, report, fleet, phase, done, current, known,
                 resolved, late, cancelled, dropped, entered, refused>>

\* errBudget
Drop ==
  /\ InPlan /\ ~Completed(Step) /\ ~Reusable /\ late
  /\ dropped' = TRUE /\ k' = k + 1
  /\ UNCHANGED <<setup, inputs, disk, fleet, phase, done, current, known, resolved,
                 late, cancelled, entered, refused>>

Paid == InPlan /\ ~Completed(Step) /\ ~Reusable /\ ~late /\ ~cancelled

\* Mutant: entering one condition is entering the other.
NeedsSwitch_Once == Step.condition \in card.hooked /\ current = Nothing

\* enter: what the run believes decides whether the hook runs.
Believed(condition) == condition
NeedsSwitch == Step.condition \in card.hooked /\ current # Step.condition

Ask ==
  /\ Paid /\ ~NeedsSwitch
  /\ current' = Believed(Step.condition) /\ phase' = "asking"
  /\ UNCHANGED <<setup, inputs, disk, fleet, k, done, known, resolved, late,
                 cancelled, dropped, entered, refused>>

Switch ==
  /\ Paid /\ NeedsSwitch
  /\ fleet' = Step.condition /\ current' = Believed(Step.condition)
  /\ entered' = entered + 1 /\ phase' = "asking"
  /\ UNCHANGED <<setup, inputs, disk, k, done, known, resolved, late, cancelled,
                 dropped, refused>>

\* The command failed, or nothing answered in time: what it did to the fleet
\* before that is not known, and `current` is left alone.
SwitchFails ==
  /\ Paid /\ NeedsSwitch
  /\ fleet' \in Conditions \cup {"down"}
  /\ refused' = TRUE
  /\ Record("measured", "none") /\ k' = k + 1
  /\ UNCHANGED <<setup, inputs, identity, report, phase, done, current, known,
                 resolved, late, cancelled, dropped, entered>>

\* The harness answered.  Its trace may hold no key; the first candidate trace
\* that does is where the base condition's key comes from.
Answer ==
  /\ phase = "asking"
  /\ \E answer \in {"answered", "invalid_output"} : Record("measured", answer)
  /\ \E keyed \in BOOLEAN :
       /\ known' = IF keyed THEN known \cup {Step.item} ELSE known
       /\ resolved' = (resolved \/ (keyed /\ Step.condition = "candidate" /\ card.sameBuild))
  /\ k' = k + 1 /\ phase' = "running"
  /\ UNCHANGED <<setup, inputs, identity, report, fleet, done, current, late,
                 cancelled, dropped, entered, refused>>

\* The harness exited with an error, which is also how one killed by the
\* cancelled context exits.
Fail ==
  /\ phase = "asking"
  /\ Record("measured", "none")
  /\ k' = k + 1 /\ phase' = "running"
  /\ UNCHANGED <<setup, inputs, identity, report, fleet, done, current, known,
                 resolved, late, cancelled, dropped, entered, refused>>

\* An error that is the context's own ends the pass with no report.
Return ==
  /\ cancelled
  /\ \/ phase = "asking"
     \/ InPlan /\ ~Completed(Step) /\ ~Reusable /\ ~late
  /\ EndPass
  /\ UNCHANGED <<setup, inputs, disk, fleet>>

-----------------------------------------------------------------------------
(***************************************************************************)
(* assemble: the report, from every record of the journal                  *)
(***************************************************************************)
Answered(item, condition, rows) ==
  \E n \in DOMAIN rows : /\ rows[n].step = [item |-> item, condition |-> condition]
                         /\ rows[n].answer # "none"
Complete(rows) ==
  {item \in Range(PlanItems) : \A c \in Conditions : Answered(item, c, rows)}

\* speedOf: the items with a wall time on both sides.
Timed(rows) ==
  {item \in Complete(rows) :
     \A n \in DOMAIN rows : rows[n].step.item = item => rows[n].source = "measured"}

\* Candidate steps that produced no readable judgement.
Broken(rows) ==
  {n \in DOMAIN rows : /\ rows[n].step.condition = "candidate"
                       /\ rows[n].answer # "answered"}

\* Mutant: only what the clock dropped is interrupted.
StopReason_ClockOnly(rows) ==
  IF Broken(rows) # {} THEN "malfunction"
  ELSE IF dropped THEN "out_of_budget" ELSE "completed"

\* trialRun.stop
StopReason(rows) ==
  IF Broken(rows) # {} THEN "malfunction"
  ELSE IF dropped \/ Complete(rows) # Range(PlanItems) THEN "out_of_budget"
  ELSE IF Complete(rows) = {} THEN "undetermined"
  ELSE "completed"

Finish ==
  /\ phase = "running" /\ k > Len(plan)
  /\ report' = [kind |-> "result", stop |-> StopReason(journal),
                complete |-> Complete(journal), timed |-> Timed(journal)]
  /\ EndPass
  /\ UNCHANGED <<setup, inputs, identity, journal, fleet>>

-----------------------------------------------------------------------------
(***************************************************************************)
(* What happens to a pass                                                  *)
(***************************************************************************)
Deadline ==
  /\ phase # "idle" /\ ~late /\ late' = TRUE
  /\ UNCHANGED <<setup, inputs, disk, fleet, phase, k, done, current, known,
                 resolved, cancelled, dropped, entered, refused>>

\* SIGINT or SIGTERM
Interrupt ==
  /\ phase # "idle" /\ ~cancelled /\ cancelled' = TRUE
  /\ UNCHANGED <<setup, inputs, disk, fleet, phase, k, done, current, known,
                 resolved, late, dropped, entered, refused>>

Crash ==
  /\ phase # "idle" /\ EndPass
  /\ UNCHANGED <<setup, inputs, disk, fleet>>

\* Somebody edits an input between two passes.
Edit ==
  /\ phase = "idle"
  /\ inputs' \in Versions \ {inputs}
  /\ UNCHANGED <<setup, disk, fleet, pass>>

PassStep ==
  \/ Identify \/ Preregister \/ Skip \/ Reuse \/ Unreadable \/ Drop \/ Ask \/ Switch
  \/ SwitchFails \/ Answer \/ Fail \/ Return \/ Finish
Disturbance == Deadline \/ Interrupt \/ Crash \/ Edit
Next == Claim \/ PassStep \/ Disturbance

Spec == Init /\ [][Next]_vars

\* A pass runs on (the harness and the switch return), and the operator keeps
\* resuming the trial.
FairSpec == Spec /\ WF_vars(PassStep) /\ WF_vars(Claim)

-----------------------------------------------------------------------------
(***************************************************************************)
(* Properties                                                              *)
(***************************************************************************)
Rows ==
  [step : Range(plan), source : {"measured", "reused"},
   answer : {"answered", "invalid_output", "none"}, under : Versions]
Results ==
  [kind : {"result"}, stop : {"completed", "malfunction", "out_of_budget", "undetermined"},
   complete : SUBSET Range(PlanItems), timed : SUBSET Range(PlanItems)]

\* Every variable stays in its range.
TypeOK ==
  /\ card \in Cards /\ inputs \in Versions
  /\ Len(plan) = 2 * Len(PlanItems)
  /\ Range(plan) = [item : Range(PlanItems), condition : Conditions]
  /\ identity \in Versions \cup {Nothing, "torn"}
  /\ journal \in Seq(Rows) /\ Len(journal) <= Len(plan)
  /\ report \in {NoReport, [kind |-> "plan"]} \cup Results
  /\ fleet \in Conditions \cup {"down"}
  /\ phase \in {"idle", "identifying", "planning", "running", "asking"}
  /\ k \in 1..(Len(plan) + 1) /\ done \in 0..Len(journal)
  /\ current \in Conditions \cup {Nothing}
  /\ known \subseteq Range(PlanItems)
  /\ {resolved, late, cancelled, dropped, refused} \subseteq BOOLEAN
  /\ entered \in 0..Len(plan)

\* "A trial never re-runs a step it has recorded": however often it is
\* interrupted and resumed, a journal holds each step once (trial.go, Trial).
StepsRecordedOnce ==
  \A m, n \in DOMAIN journal : journal[m].step = journal[n].step => m = n

\* A journal is one measurement: every record in it was made from the files
\* the identity names (trialresume.go, ensureTrialResumeState).
JournalIsOneMeasurement == \A n \in DOMAIN journal : journal[n].under = identity

\* The records of this pass so far.
Fresh(item, condition) ==
  \E n \in (done + 1)..Len(journal) :
    /\ journal[n].step = [item |-> item, condition |-> condition]
    /\ journal[n].source = "measured" /\ journal[n].answer # "none"

\* A saved run answers for the base only once this pass has itself measured
\* that item under the candidate, with the base's own harness build
\* (trial.go, resolve and reuse).
ReuseFollowsAMeasurement ==
  [][\A n \in DOMAIN journal' \ DOMAIN journal :
       journal'[n].source = "reused" =>
         /\ card.sameBuild
         /\ Fresh(journal'[n].step.item, "candidate")]_vars

\* "A reused base still runs, so items stay paired": a pass that ends never
\* leaves a base it could have read without its record (README.md, Resuming).
ReusedItemsStayPaired ==
  [][Finish => \A item \in card.saved \cap known :
       resolved => Recorded([item |-> item, condition |-> "base"], journal)]_vars

\* Unless a switch failed in this pass, the harness is asked while the fleet
\* is in the condition the step names (trial.go, enter).
AskedInItsCondition ==
  phase = "asking" /\ Step.condition \in card.hooked /\ ~refused => fleet = Step.condition

\* The estimate a card is admitted on counts every switch a pass makes,
\* skipped, dropped and failed steps notwithstanding (trial.go, switchCount).
SwitchesWithinTheEstimate == entered <= SwitchCount(card, plan)

\* A pass that reports without the clock having dropped anything has recorded
\* every step, and `completed` is said only of a set measured whole
\* (trialreport.go, stop).
ReportSaysWhatIsMissing ==
  [][Finish =>
       /\ ~dropped => \A n \in DOMAIN plan : Recorded(plan[n], journal)
       /\ report'.stop = "completed" =>
            \A n \in DOMAIN plan : Answered(plan[n].item, plan[n].condition, journal)]_vars

\* The stretches of D between the known failures differ by one item at most.
Spread(d, r) ==
  LET mark(i) == IF i = 0 THEN 0 ELSE IF i > r THEN d ELSE Position(i, d, r)
      gap(i)  == mark(i + 1) - mark(i)
  IN  \A i, j \in 0..r : gap(i) \in 0..(gap(j) + 1)

\* The known failures are spread through set D, whatever the sizes of the two.
\* The plan a first pass writes down is that of its own sets: a known failure
\* is reached after as many D items as its mark says (trial.go, interleave).
FailuresAreSpread ==
  phase = "planning" /\ done = 0 =>
    /\ \A d \in 1..Longest, r \in 1..Longest : Spread(d, r)
    /\ \A i \in DOMAIN Known :
         LET first(item) == Min({n \in DOMAIN plan : plan[n].item = item})
         IN  Cardinality({n \in DOMAIN Dev : first(Dev[n]) < first(Known[i])})
               = Position(i, Len(Dev), Len(Known))

\* Once the clock, the operator and the machine leave a trial alone, and its
\* identity was written and still holds, resuming it records every step.
ResumedTrialEnds ==
  /\ <>[][~Disturbance]_vars
  /\ <>[](identity \in {Nothing, inputs})
  => <>(\A n \in DOMAIN plan : Recorded(plan[n], journal))

\* "A switch that fails is a failed step rather than a silent measurement of
\* whichever condition the fleet happened to be in" (trial_test.go).
MeasuredInItsCondition ==
  phase = "asking" /\ Step.condition \in card.hooked => fleet = Step.condition

\* "Comparable says both sides were measured in this run" (trialreport.go,
\* TrialSpeed): of a speed comparison, both times are this pass's.
SpeedFromOneSession ==
  [][Finish => \A item \in report'.timed : \A c \in Conditions : Fresh(item, c)]_vars

\* "TrialRecord is one completed step" (trial.go): the step an interrupt cut
\* short is not one.
InterruptedStepIsNotDone ==
  [][cancelled /\ phase = "asking" =>
       \A n \in DOMAIN journal' \ DOMAIN journal : journal'[n].answer # "none"]_vars
=============================================================================
