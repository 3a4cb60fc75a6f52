# A verification of uzushio in TLA+

`uzushio` improves an agent harness by evidence. It mines patterns of failure
from recorded trials, proposes an edit to the harness, measures the edited
harness against the baseline on two task splits with a sequential test, and
moves the edit's document in a vault of Markdown files to `accepted` or
`rejected`. Around that loop stand the judge (a panel of models asked about a
trial, with a calibration, a trial plan and a one-use holdout), the doctor (does
a verifier tell good from bad?), the mutant generator, the renderer and the
linter of the vault.

This directory holds specifications of that program, the model-checking runs,
and proofs. Line references in `PROJECT.json` say what every definition stands for.

## 1. Inventory

| component (source) | state | operations | what is hard | what makes it correct |
|---|---|---|---|---|
| split measurement (`loop/measure.go`, `loop/trial.go`) | running tally, per-task counts, unanswered pairs in a row, the shared baseline cache, `trials.jsonl` | `schedule`, `measure`, `runBatch`, `runPair`, `Cache.Get`, `Cache.Put`, `calibrate` | a goroutine per pair, sibling runs in the cache, a failing goroutine, an outage, a cap that cuts the schedule | the counters are the answered pairs in schedule order; the count gate means every repeat; an outage stops at five |
| sequential test (`stats/stats.go`) | none | `LogE`, `ThetaCS`, `DeltaCS`, `Read`, `Promote` | looking after every pair; corners of a product of intervals; order of the verdict cases | anytime-valid; the interval covers what was observed; a breached gate is final |
| run record and replay (`loop/loop.go`, `record.go`, `replay.go`) | the header, `run.json`, the journal | `Run`, `journal.pair`, `writeHeader`, `Replay` | replay recomputes from rows what the run knew in memory | the replay of a finished run finds nothing |
| edit decision (`loop/loop.go`, `record.go`, `vault/vault.go`) | the edit's document, run documents | `refuse`, `record`, `writeDocument`, `apply`, `write` | look-up then write, several processes, a person editing, death inside a write | documents before the transition; append-only; the outcome passes the rules |
| trial runner (`loop/trial.go`, `suite.go`) | none | `Run`, classification of how `cmoa` ended | timeouts, infrastructure errors | an infrastructure failure is never evidence |
| judge trial (`judge/trial.go`, `trialresume.go`, `trialreport.go`) | plan, `resume.json`, `results.jsonl`, `trial.json`; per pass: the condition it believes the fleet in, the reuse key, the keys of its own runs | `CheckPlan`, `TrialPlan`, `Trial`, `enter`, `step`, `reuse`, `record`, `ensureTrialResumeState`, `assemble` | a deadline only paid work sees; resume after a crash or interrupt; a failed switch; an edited input | every step recorded once, under one set of inputs and in its condition; resuming reaches the end |
| evaluation labels (`judge/evalpacket.go`, `evalmerge.go`, `evaldata.go`) | packets, answers, imported and merged label files, the suite's files | `WriteEvaluationPacket`, `ImportEvaluationPacket`, `MergeEvaluationLabels`, `Resolve` | shuffled letters; a suite edited between labelling and use; annotators who disagree | a label is what the person meant, on the files that are measured |
| judge assessment (`judge/assess.go`, `assessreport.go`) | a registry shared by all assessments, a file per claimed key; the trial's journal; the report | `checkFinalist`, `claimHoldout`, `Assess`, `assessReport` | claims made one file at a time by several passes; a crash between creating and filling one; resume on another build | a final set is opened by one assessment; a recommendation stands and is scored on what people judged |
| judge panel and calibration (`judge/calibrate.go`, `run.go`, `labels.go`, `bias.go`, `replay.go`, `rescore.go`, `status.go`; `cmd/uzushio/judge.go`) | items in flight, recorded runs, report directories, calibration documents | `runAll`, `assemble`, `Calibrate`, `Replay`, `Rescore`, `freeSlot`, `supersededBy`, `Status` | items that fail beside others; three files written one after the other; slots of a day; a validity period | the coefficients are those of the answers; a document keeps its evidence; one calibration in force |
| doctor (`doctor/doctor.go`, `environment.go`, `verifyrunner/`) | rows in memory, `result.json` per label, the report | `plan`, `reuse`, `runAll`, `aggregate`, `annotate`, `verdict`, `Fingerprint` | bounded concurrency, cancellation part-way, two checks in one directory, an environment edited under them | a row is the result on disk; healthy was measured; reuse names the instrument |
| mutant generator (`mutate/`) | diffs, the manifest `task.json` | `Generate`, `Write` | numbering over many generations; an interrupted generation rerun; hand-made mutants | no defect twice; what is declared is whole |
| miner (`mine/`) | pattern documents | `Load`, the rules, `Mine`, `Plan`, `Apply` | written from a vault read earlier; a person edits a pattern in between | evidence is earned by enough runs |
| proposer (`proposeedit/`) | edit documents, diffs, the topic | `Convert`, `Numbering`, `Plan`, `Apply` | two files, one failing; two passes numbering alike | a sidecar is its edit's; an edit refers to what is there |
| renderer (`render/`, `cmd/uzushio/harness.go`) | a scratch tree, the installed tree and its manifest | `Render`, `plan`, `build`, `inspect`, `install` | the vault changes between two renders of a comparison; remove then rename, or copy | a tree is the edits its manifest names; two trees differ by the edits in which they differ |
| vault rules, vocabulary, surfaces | none (functions of the documents) | `uzushioRules`, `extendProjections`, `Verdict.Improves` | rules spread over code, documents and Go | a decided edit has what the rules ask |
| pairwise rows (`pairwise/`, `calibrate/`) | page offset, retries | `All`, `page`, `fetch`, the suite it prepares | a page that keeps failing | (input conversion: section 8) |
| documents, tasks, worktrees, verifier process, fixtures, command line | none of their own | parsing, file and process I/O | (not concurrent) | section 8 |

Interactions: the loop calls the trial runner from its goroutines, the
statistics after each batch, the renderer for the two harnesses it compares, and
writes the record, then the vault. The proposer writes the edit the loop reads;
the miner writes the patterns the proposer reads; the renderer reads accepted
edits; the doctor reads the suite the generator writes; an assessment runs a
judge trial on labels people made. All of them meet in files, with no lock but
the registry's exclusive creation, and a person edits the same files.

## 2. Plan

Modules, most important behaviour first; all are written.

1. `AcceptanceRule`, `PairGate`, `SplitTest` - the test, and a split measured by
   it one pair at a time (abstract). `DecisionProofs`.
2. `TrialReplay`, `SplitMeasure` - the concurrent measurement; implements
   `SplitTest`. `SplitMeasureProofs`.
3. `RunRecord`, `RunRecordProofs` - both splits, the calibration, `run.json`.
4. `EditLifecycle` (abstract), `EditRuns` - the files and processes around a
   decision. `DecisionProofs`.
5. `TrialPlan`, `JudgeTrial`, `JudgeTrialProofs` - the judge trial.
6. `VerifierEnvironment`, `VerifyRunner`, `DoctorCheck`, `DoctorProofs` - the doctor.
7. `SequencePicks`, `MutantSuite`; `MineRules`, `ProposeEdit`, `Improve` - what
   feeds the loop. Proved in `DoctorProofs` and `HarnessProofs`, beside the
   readers of what they write.
8. `Harness`, `HarnessProofs` - the renderer.
9. `EvalLabels`, `Finalist`, `HoldoutLedger` (abstract), `Assessment`,
   `AssessmentProofs` - the final assessment.
10. `PanelReport`, `Panel`, `PanelProofs` - the calibrations of the judge.

Every property of a passing run but the two liveness properties is also a
theorem (section 7). What would extend this: `SplitMeasure` beside a sibling
that is a second instance of it, rather than an environment; an abstract
specification of the registry of calibrations, with the slots claimed; and the
journal write of a judge trial that fails or leaves half a line.

## 3. The modules

**`AcceptanceRule`** has no state. `Promote` is the acceptance rule of
`stats.go`; `StatusAfter` is the switch of `apply`. A split's result is a
verdict, `unmeasured` (no pair answered, hence no `validates` edge) or `not_run`.

**`PairGate`** has no state either. The code works with logarithms of
floating-point beta functions; for the prior `a = 1`, the only one the program
uses, `B(1+b, 1+c)/B(1, 1) = b! c!/(b+c+1)!`, so "the e-value reaches a level"
is an exact inequality between integers. `Reading` is `Read` of `stats.go`: a
verdict, or unmeasured. A confidence limit, found in the code
by sixty bisections, is rounded outwards to a multiple of `1/Grid`.

**`SplitTest`** is the abstract measurement: one pair at a time, batches of
`Parallel`, the reading consulted between batches, abort at
`ConsecutiveInfraLimit` unanswered pairs in a row.

**`TrialReplay`** holds the row vocabulary and the join of `replay.go`.

**`SplitMeasure`** is the code: `worker[i]` is the goroutine of pair `i`
(`lookup`, `base`, `put`, `edit`, `returned` or `error`), `phase` the measuring
goroutine, `pos` and `due` the next row to write. `Join` is the `WaitGroup`.
The cell of a pair in `cache` may change under it (`SiblingPut`: another run
remembering its own draw, or having only truncated the file). `Put` may fail to
write. `Crash` stops the process anywhere; what is on disk stays.

**`RunRecord`** follows `Run` through both splits or the A/A calibration, one
pair at a time (the interleavings are `SplitMeasure`'s), with `header` the
structure in memory and `runJSON` the file. `Anomalies` is what `--replay`
compares.

**`EditLifecycle`** is what the vault promises about an edit; **`EditRuns`** has
the processes and the files: `stat` then `write` of each document, the edit read
again, truncated and filled, the header truncated and filled, and `Crash`
between or inside any of them. `docs[split][n]` is the document of a split with
sequence number `n`, of the one day and pool the runs share. `PersonDecides` is a person at the same file.

**`TrialPlan`** has no state: `PlanOf` a card is `TrialPlan` of the code, items
interleaved by `Position`, in pairs or in alternating blocks; `SwitchCount` is
the number of switches the card's estimate is charged for.

**`JudgeTrial`** runs passes over one output directory. `identity`, `journal`
and `report` are its three files, `inputs` what the fingerprinted files hold
now, `fleet` the condition the fleet is really in. Everything in `pass` is a
local of `Trial` or a field of `trialRun`, and is gone when the pass returns or
dies (`EndPass`). `k` is the loop over the plan, `done` the records read at the
start, `current` what the pass believes of the fleet, `known` and `resolved`
what it knows of reuse keys. One iteration is one of `Skip`, `Reuse`,
`Unreadable`, `Drop`, `SwitchFails`, or `Ask`/`Switch` followed by `Answer`,
`Fail` or `Return`. A harness killed by the interrupt exits with an error, so
its end is `Fail`, as for any other failure; `Return` is the case where the
error is the context's own. `under` in a row stands for the digest of the
step's inputs.

**`VerifierEnvironment`** is the fingerprint of what a verifier runs in: compose
file, mounted volumes, configuration, images. Bytes are short strings and a
digest is the set of named parts it is taken over, so the module says which
edits a fingerprint can see; a part carries its place, for the code digests
them in order. **`VerifyRunner`** is how the end of one
`cmoa verify` process becomes a status. **`DoctorCheck`** runs checks over them:
`Begin` is everything up to the first verification (the directory, the reuse of
an earlier report, the plan), `Launch` gives out a ticket, `Answer` writes
`result.json` and the row in place, `Conclude` aggregates and writes the report,
`Cancel` is the interrupt and `Die` the death of the process. `fs` is shared:
two checks may be given one directory. The rows of a check are kept by label,
which no two of them share; `Before` is their order, which only decides who runs
first.

**`MutantSuite`** has the diffs and the manifest; a generation is `Start` (read,
plan), a `WriteDiff` for each, `Reread` of the manifest, `Truncate`, `Fill`, and
`GenerationDies` anywhere. The operators are predicates over syntax nodes. `ByHand` and
`PutBack` are a person at the suite: another defect, and a torn manifest restored.

**`MineRules`** is what the miner reads in a recorded run: a rule is a predicate
over one run, and what fires is clustered. **`ProposeEdit`** turns a proposer's
answer into an edit or a refusal. **`Improve`** composes them with the vault:
a pass plans (`StartPass`), writes patterns one by one (`Apply`), asks
(`Want`, `Round`), numbers, and writes an edit's document and then its diff,
each created and then filled. Other passes, the harness (`Record`) and people
(`Hand`) act between any two steps. **`SequencePicks`** is the loop both
generators are written as: the part of a list it keeps, in the order of the
list.

**`Harness`** renders. `Query` is the question which edits bind, `ReadEdits` the
reading of documents and diffs, `BuildEdit` one edit applied to the scratch
tree, `RemoveFile` and `Rename` the install, `CreateFile` and `FillFile` its way
across filesystems: `os.WriteFile` opens a file, which then holds some part of
its text (`torn` names it), and fills it. `InstallFails` and `Die` stop anywhere,
also between the two. A run of the loop is two renders one after the other. A file's text
is a set of passages: a diff needs some, removes some, adds some.

**`EvalLabels`** follows a label from the packet built for one person
(`Build`, with its own letters), over the answers, the import and the merge, to
`Resolved`. A version of the suite stands for the bytes of its files.
**`Finalist`** is what an assessment checks about the trial that chose its
finalist. **`HoldoutLedger`** is the promise of the registry: an assessment is
opened only if it shares no key with another. **`Assessment`** is the code: a
pass claims key by key (`Create`, then `Write`; `Accept` or `Refuse` what is
there), opens its items, appends one record of its trial at a time and
recommends. Several passes run at once and each may die anywhere. The trial
inside is `JudgeTrial`; here it is the journal it appends to. `opened` is a
history variable.

**`PanelReport`** is the arithmetic of a calibration: what people said, the
judge's runs, agreement in thousandths, position bias, the verdict.
**`Panel`** has the commands: `Calibrate` takes a slot, `Take`, `Answer` and
`Fail` are the goroutines of items behind a gate of `Parallel`, `Assemble` the
report. Each of its three files is opened and then filled (`OpenReport`,
`WriteReport` and so on), and between the two is in `torn`, where no reader can
make it out; a calibration is refused while a document is. A rescoring starts
from recorded calls, `Replay` rebuilds a directory, `Stop` is death or a failed
write.

The `MC...` modules only name constants and the symmetry set.

## 4. The runs

| run | outcome | question |
|---|---|---|
| `SplitTest` | passes | At the published `alpha = 1/20`, ten pairs: is the test anytime-valid from every reachable evidence, does the interval cover the observed difference, is a breached gate final? |
| `MeasureCache` | passes | Three of four pairs (the cap cuts the last pass), two at a time, with a cache shared with siblings and crashes: are the counters, gate and outage rule right, is the measurement the sequential one, and does it stop if the harness always answers? |
| `RunRecord` | passes | Does the replay of a finished run find nothing, does a promotion stand on the rows, is a calibration balanced? |
| `EditRuns` | passes | Two runs of one edit one after the other, with crashes, a person, and a free document name for both, one or none: do decisions pass the vault's rules, do the documents come first, is none overwritten? |
| `JudgeTrial` | passes | Two items, a clock, an interrupt, a crash or an edited input at any moment, any number of passes: is each step recorded once and under one set of inputs, are switches and reuse honest, does the report say what is missing, does resuming reach the end? |
| `DoctorCheck` | passes | Three checks, two of them at once in one directory, interrupts, deaths, an edited environment: is each row the result on disk, was a healthy verifier measured, does a reused run name the check that measured it on the same instrument? |
| `MutantSuite` | passes | Generations that die at any write, and mutants added by hand: is a defect declared once, and is what is declared on disk and whole? |
| `Improve` | passes | Two passes over one vault while runs are recorded and people edit: does a pattern's evidence have the support it claims, is a diff its own edit's, do edits refer to what is there? |
| `Harness` | passes | Runs and renders by hand over a vault people change: is a tree the edits its manifest names, wherever an install stops, and whole where it says it is done, do two trees differ only by the edits in which they differ, does a refused render touch nothing? |
| `Assessment` | passes | Passes of two cards with related items, two at once, dying and resumed, while people label, edit the suite and rebuild: is the final set opened once, does a recommendation stand, is it scored on what people judged? |
| `Panel` | passes | Two commands over three days, items that fail or disagree, deaths between and inside the writes: can a report be rebuilt, is what can be read of a document's evidence its own, is the verdict what the answers make it, is the same call rescored, does the warning come on its day? A report can be rebuilt in every state, also while another command writes. |
| `PanelFourth` | violated | Is one calibration of a judge in force? Not from the fourth of a day on. |

### Finding

`supersededBy` answers the first of the documents with the newest window, in the
order of their file names, where `@day-1` precedes `@day-2` and both precede
`@day`. From the third calibration of a day on the answer is `@day-1`, whether
or not it was superseded already, so the fourth replaces it again and `@day-2`
goes on binding beside it. The comment on `supersededBy` says it returns the most
recent measurement still in force (`judge.go:452`). `PanelFourth` shows it.

### Known disagreements without a run

These definitions stand in the modules and do not hold of the code. Adding one
as an invariant or property to a configuration of its module, with the instance
named, shows it.

* `ReplayCountsOutrightLosses` (`SplitMeasure`, a cap that cuts the schedule):
  `schedule` returns at the cap before it fills in `taskRepeats`, so every row
  of a capped split says 0 repeats, and a replay cannot recompute the gate.
* `DecisionHasItsDocuments` (`EditRuns`, runs at once): `writeDocument` looks a
  free name up and then writes over whatever holds it.
* `DecidedOnce` (`EditRuns`): `write` rewrites the edit without looking at the
  status it now has.
* `MeasuredInItsCondition` (`JudgeTrial`): `enter` keeps its belief when a switch
  fails, so a step is asked of a fleet the failed command may have changed.
* `SpeedFromOneSession` (`JudgeTrial`): `speedOf` averages the wall times of
  every record, also those of earlier passes.
* `InterruptedStepIsNotDone` (`JudgeTrial`): a step whose harness the interrupt
  killed is journalled as failed and never asked again.
* `CoveredMeansDeclared` (`MutantSuite`): diffs a dead generation left and did
  not declare count as covered for the next one, which then writes nothing.
* `HealthyOnEveryReferenceRun` (`DoctorCheck`): the program's README
  (`README.md:151-155`) lets no flag lower the number of reference runs under a
  verdict; `--only` naming some of them does.
* `ProposesAgainstOpenPatterns` (`Improve`): only a pattern that a person named is
  asked whether it is open; one the pass mined is proposed against though the
  vault has it closed.
* `BlamedBindingEditsDiverge` (`Harness`): the candidate is put among the binding
  edits by its number; a binding edit that no longer applies after it is blamed
  for diverging from the seed, although the baseline renders.
* `InterruptedMayContinue` (`Assessment`): a claim file that was created and not
  filled refuses `--resume` for ever.

What the runs show and no property forbids:

* An install that copies writes `render.json` before `skills/` and
  `system-prompt.md`, each file emptied and then filled (`render.go:386`, `:400`).
  A death or a full disk in between leaves a manifest beside files that are
  missing or torn. Nothing marks it as unfinished. `TreeIsTheEdits` says what then stands:
  nothing the manifest does not name, and of one file a part.
* A `--replay` rewrites the report and the journal a document names
  (`judge.go:347`). One that dies inside a write leaves the document with one
  file nobody can read, and no replay repairs it, for a replay reads both first
  (`replay.go:52`). A document a death has torn stops `Calibrations`
  (`status.go:214`), and with it every calibration and every status of the
  vault, until somebody removes it.

From reading alone, and not modelled or no property of a run:

* `Reading.Decided` can be lost in the rest of a batch (`stats.go:366`); a crash
  between two rows leaves a pair with one (`record.go:248`); a calibration
  writes the candidate's digest on arms that read the baseline
  (`record.go:292`); a row that cannot be written is dropped in silence
  (`record.go:321`); a run given a dead run's directory appends to its rows
  (`record.go:226`); the edit is rewritten by truncating it (`record.go:543`).
* A trial's identity is created and then filled in (`trialresume.go:236`); a
  process that dies inside a journal write leaves half a line, which every later
  pass refuses (`trial.go:1497`); a record that cannot be written is in the
  report and not in the journal (`trial.go:2027`); an input edited during a pass
  is read under the old identity (`trialresume.go:207`); two passes over one
  directory share its journal (`trial.go:1518`, and `assess.go:542` for
  `--resume` beside a live pass); a failed base step makes a trial say
  `out_of_budget` when the clock dropped nothing (`trialreport.go:911`).
* An adjudicator's ruling names its item and not the votes it was made from
  (`evalmerge.go:97`). Two pattern names that differ only in what a slug drops
  share a document (`mine.go:113`). `--out` named again on another day
  overwrites the report an older calibration quotes, and two calibrations at
  once find the same free slot (`judge.go:423`). The comment on `firstLabel`
  says that the order of the lines does not move kappa (`calibrate.go:580`); of
  two lines by one labeler on one item the first in the file is taken (`People`).

## 5. Bounds, and why they are enough

* **Pairs**: three over two tasks, repeats 2. A task needs two repeats
  for "every repeat" to differ from "one repeat", two tasks for the schedule to
  be round-robin, and a cap of 3 for a truncated pass. Batches of 2 do not divide
  the schedule, so the last batch is cut.
* **`ConsecutiveInfraLimit`**: 2 (5 in the code and in `SplitTest`), so that a
  streak fits inside a batch and across a batch boundary.
* **`AlphaInv`, `Grid`, `Margin`**: the real alpha of 1/20 in `SplitTest`. The
  runs with few pairs use 1 or 2, at which two or three pairs already decide, so
  that every verdict and an early stop are reached; nothing in those properties
  depends on the number. `Grid = 4` rounds outwards, that is, conservatively.
* **`CountGate`**: 0, the published `k`.
* **`RunRecord`**: two tasks held in and three held out, one repeat, a cap that
  does not truncate (`Uncut`), five calibration pairs, which uses both splits up.
* **`EditRuns`**: two runs, two document names per split, and 0, 1 or 2 of them
  used by earlier runs, so each run finds a name, or only the first, or none.
  The runs are interchangeable (`RunSymmetry`).
* **`JudgeTrial`**: one item of set D and one known failure, so four steps, under
  two cards: both conditions with a switch and a saved base for the known
  failure, steps in pairs; and blocks of one with two harness builds, where no
  saved run may be read. Two items are what a switch back, a belief left over
  from the item before, and an item that ends paired or not need. Two versions
  of the inputs, of which the identity holds one. The number of passes is not
  bounded: the journal never shrinks and holds each step once, which makes the
  state space finite. `Longest = 8`: sets D and R of up to eight items each for
  the spread of the known failures.
* **`DoctorCheck`**: three checks, of which the third begins when the others are
  over (so it can reuse either report); three directories, interchangeable; two
  environments that differ in what a mounted file holds, and in a mount by an
  absolute path, which no fingerprint follows; one reference run, a mutant to kill, an equivalent one
  and one that does not apply; a threshold of 4/5. The instance explores the
  endings `pass`, `fail` and no answer; the others are mapped by `VerifyRunner`.
* **`MutantSuite`**: six syntax sites, of which some are refused, unchanged or do
  not compile; at most two mutants per generation, so that one generation never
  covers the task; four generations; one mutant added by hand.
* **`Improve`**: two interchangeable passes, four recorded runs - a support of two
  reached by the third, one of an unknown schema, one with a single proposer -,
  one open pattern mined before and one written by hand, two edit numbers, so
  that they run out, and one edit by a person.
* **`Harness`**: nine edits over three paths: creating, rewording and extending one
  file, two descriptions of one note, a skill with and without more than a
  heading, a diff that carries in a second file, a link. Two jobs, one change by
  a person: the first tree is there when the second render fails.
* **`Assessment`**: two cards of two items; an item of one and both of the other
  are turns of one task. Three passes, two alive at once, over three
  directories; two annotators who disagree on one item of each version; one
  edit of the suite or one rebuild. 562,647 states. The card that may be resumed
  tolerates no regression, so its first item alone can reject it; the pass may
  stop there, and the resumed one measures the other item and recommends again.
  `Scale`, the margins and the interval's width are small numbers at which it is
  adopted, rejected by the interval, and left open while a side is missing; the
  other card has too few clusters for an interval.
* **`Panel`**: three items (agreeing with the person, drawn, without a derived
  label), five lines of labels of which two people gave two on one item and one
  person two on another, changing the answer, up to two seeds, an answer that times out; two commands one after the
  other on days 1, 31 and 62 with a period of 30 days, so that the last day of a
  period, the day after, and one long after occur; a loss budget of 30 %, which
  one lost item of three exceeds. `PanelFourth`: one item, four commands on one
  day - the least number that shows it.

`CHECK_DEADLOCK FALSE`: every one of these processes ends.

## 6. Fairness

`MeasureCache` uses it for `Terminates`. Its `FairSpec` asks weak fairness of
every step of the measuring goroutine and of a pair's goroutine but its calls of
the harness: Go schedules every goroutine that can run. That a call returns is
not fairness the code gives. The context of a run is that of the interrupt alone
(`root.go:89`) and the child is started without a deadline (`trial.go:310`), so a
`cmoa` that hangs blocks `wait.Wait()` (`measure.go:257`) and the run with it.
It is therefore a hypothesis of the property, `EveryCallReturns`, with an
answer or an error; without it `Terminates` fails, as it should. Nothing is
asked of `Crash` or of a sibling's writes.

`JudgeTrial` uses it for `ResumedTrialEnds`. Its `FairSpec` asks weak fairness of
`PassStep` as a whole - a pass is one thread, a switch runs under a timeout, and
of the harness it is assumed that it returns or is killed - and of `Claim`: the
operator starts another pass as long as the trial can be resumed. The property
promises an end only when the clock, the interrupt, crashes and edits eventually
stop, and when the identity was written whole and still matches; both are stated
in it, and neither is fairness. A pass that the clock stopped is otherwise
simply resumed: no fairness is asked of an answer rather than a failure.

The other specifications are safety only. Nothing makes the operator run a
check, a pass, an assessment or a calibration again, a person's part (labels,
rulings, a repair) may never come, and each command is one straight sequence of
steps that ends; weak fairness of its steps would promise what no code does.

## 7. What is proved

`SplitMeasureProofs` proves for every suite, number of repeats, cap, batch size,
outage limit and gate, from `GateAssumption`, `OutcomeAssumption` and
`MeasureAssumption`:

* `TypeCorrect`: `Spec => []TypeOK`;
* `RatesCorrect`: the two pass rates differ by wins minus losses;
* `EvidenceCorrect`: the counters are exactly the answered pairs read back;
* `GateCorrect`: the count gate's statistic is the number of tasks lost outright;
* `OutageCorrect`: the split is aborted exactly when the last
  `ConsecutiveInfraLimit` pairs went unanswered.

None of these is inductive alone. `TypeOK` fails to be so because a row is
written from `base[pos]` and `edit[pos]`, which must by then be outcomes and not
`NoEntry`. `Control` supplies this: `DrawnInOrder` (a goroutine past an arm has
that arm's outcome), `BusyInBatch` (a goroutine at work belongs to the batch
while it is run) and `FoldInBatch` (while folding, every goroutine of the batch
has returned and `pos` is in the batch or just past it). Every other theorem
adds to `TypeOK /\ Control`: the evidence itself, `LostIsCurrent` (the gate's
statistic is `lostTasks` of the counters), `Streak` (`infra` is the length of
the unanswered tail). The folded pairs' outcomes never change afterwards
(`PairsKept`), so a step changes a counter by the pair it folds (`PairFolded`,
`CountersMove`), and a finite set's cardinality by one (`OneMore`).

And, for the same constants and whatever siblings leave in the cache:

* `ImplementsTheTest`: measuring a split with goroutines, a shared cache, a
  journal and deaths is `SplitTest`, one pair read after the other.

`Mapped` says where each phase is in the sequential test: what is read is
`1..Last`, a batch under way has `LastOfBatch - Last` pairs to go, and the test's
status is a function of the phase and of `infra`. It follows from `TypeOK`,
`Control` and `Streak`. Then there is one lemma per step. `FoldCounted` is
`FoldCounted` of the test only if the gate's statistic, which the code
recomputes from the counters, moves as the test lets it: by one at most, and on
a lost pair only (`LostMovesByOne`, from `LostIsCurrent`). What the goroutines
do, the second row of a pair and the end of a batch, the test does not see.

`DecisionProofs` proves of `SplitTest`, for every error rate, resolution, margin, gate, schedule
and batch size:

* `CertifiedCorrect`: the interval contains the observed difference, and a split
  observed to be worse than the margin is never read as held or improved;
* `BreachIsFinal`: a breached count gate stays breached, and the split regresses;
* `LookingIsFree`: from whatever was seen so far, the chance under the null of
  ever reaching `1/alpha` in the pairs left is at most `alpha` times the e-value
  held - Ville's inequality, the reason the run may look after every pair.

The first needs no law of the e-value: both limits of `ThetaCS` are searched
outwards from the observed rate, so the rate is between them whatever the
e-value does (`ThetaBounds`), and the observed difference is a product of two
points of the two intervals, hence no less than the lowest corner
(`CornerBelowObserved`). The second holds because no step takes a lost task
back. `MinIs` and `MaxIs` are what the two say of sets of integers.

The third is a count: of the sequences of wins and losses that can still come,
how many cross. `CrossingsIs` unfolds the function that counts them, a row for
every number of pairs left, and `FewBefore` is the induction over that number.
At or past the threshold every continuation crosses and the bound is what
crossing means (`FewAtLevel`); before it the next pair is a win or a loss, and the
bound for `b, c` is the sum of those for `b+1, c` and `b, c+1`, as the mixture
is a martingale: `1/((b+c+1) C(b+c,b))` is the sum of the same with one more win
and one more loss, for the binomial coefficient is an exact quotient of factorials
(`OrdersIs`, `OrdersGrow`). What the state adds is `Scheduled`, that no more pairs
are read than there are. The powers of two are a recursive function of
`PairGate`, for the prover knows nothing of `^`.

`DecisionProofs` proves of `EditRuns`, for every set of runs and number of document names, from
`EditRunsAssumption`, under the hypothesis `~Overlap` - runs and people at work
one after the other, with deaths at any step:

* `DecisionsPass`: a status a run writes is one the vault's rules allow;
* `AppendOnly`: no run document is written over;
* `ImplementsTheLifecycle`: the files implement `EditLifecycle`.

The hypothesis is needed: the program takes no lock, and with `Overlap` the last
two do not hold (section 4). The invariant says what a run at work has behind
it. `Alone`: no other is at work. `Fresh`: a run that has not measured has no
document. `Working`: the name it found is still free; of the splits that ran,
each is still owed a document or has one that says what the run says
(`OnFile`); a run that moves the edit owes nothing. Documents only grow, so the
decision's grounds stay where a later reader finds them (`ValidatingStays`). In
the refinement the last document is `File`, `Fill` is `RunDecides`, a death
between `Truncate` and `Fill` is `Damage`, and everything else stutters.

`RunRecordProofs` proves for every pair of task lists, number of repeats and of
calibration pairs, cap and gate, and whatever the arms answer, from
`RecordAssumption` and those of the modules it is built on:

* `RecordInvariant`: the header and the journal of a run say the same, `IInv`;
* `RecordReplays`: replaying the rows a finished run wrote finds nothing, where
  the cap leaves both schedules whole (`Uncut`);
* `PromotionStands`: a promotion stands on the rows of both splits - neither
  shows harm, both are non-inferior, one gains, and no held-out task was lost
  outright -, where the gate lets no task be lost;
* `CalibrationBalanced`: a calibration takes from the two splits in turn, and
  leaves one behind only when that one is used up.

The argument goes from one split's rows to the run. The rows of one split are
read wherever in the file they are: a journal grows by the two rows of one pair,
which add one identifier and leave every other pair as it was (`PairAdded`), so
what a replay joins moves by one pair too. While a split is measured, `Live`
says that the tally in memory is the one a replay would compute from the rows so
far: the answered pairs by outcome, and the gate's statistic as the number of
tasks whose every pair is lost (`LiveCounted`, `LostCounted`). It rests on the
schedule having each pair once (`SchedulePlanned`), whose round-robin is
a division with remainder (`Division`). When the split ends this becomes `Books`,
of rows no later step touches, and a verdict in the header is the reading of a
tally with `Books` behind it (`Entry`). A calibration's rows all belong to
neither split, and its turns are shown to be distinct pairs of the two
schedules' beginnings (`TurnIs`, `CalibrationPlanned`).

The two hypotheses stand where the code needs them. A capped schedule returns
before it fills in how many repeats a task has, so its rows cannot say which
tasks were lost outright (section 4, `ReplayCountsOutrightLosses`). And a gate
that tolerates lost tasks would let a promotion stand beside one; the
published gate for the held-out split is 0.

`HarnessProofs` proves for every finite set of numbered documents and headings,
any number of jobs and of changes by people, from `HarnessAssumption`:

* `TreeCorrect`: a tree with a manifest holds only files the manifest's edits own,
  each on its surface, what is not the prompt being what its one owner wrote, and
  of the file a write stopped in a part; where a render says it is done, every
  file of the manifest is there and whole;
* `RefusalKeeps`: a refused render leaves the directory as it found it;
* `DifferencesOwned`: two trees differ in a file only where an edit in which their
  manifests differ owns it.

A tree is built from edits read some steps earlier, while people go on editing
the vault, so the invariant cannot speak of what is readable now: `Separate`
keeps what cannot change under the render - the documents' surfaces and paths
are as they were read, no file has two owners - and `ScratchOwned` says the
scratch tree is made of those edits only. A memory or a skill has one owner; the
prompt's files are the ones several diffs may touch, and a diff touches its own
edit's paths only. `PartCopied` covers the install that copies file by file and
may die between two files or inside one: what is there is `PartOf` the scratch
tree, and `OutOwned` keeps this of every directory with a manifest once the
scratch tree is gone. `Untouched` says that up to the install nothing in the
directory moved. That a finished render is whole needs more: a copy ends with
nothing left to copy (`CopiedStands`), every path of an edit being in the walk
(`PlanKnown`), and the render of a candidate is the second of its run and in
another directory than the first (`JobOrder`). `TreeCorrect` and only it is under
`NoneIsNoTree`, that `None` is no record of a directory or a manifest, as TLC's
model value is not.

`DifferencesOwned` compares trees built at different times, so it needs to know
what a tree is, and not only who owns it. `Makes(edits, path, seen)` says that
applying those of `edits` that own `path`, in the order of their numbers and to
nothing, gives `seen`: a function over the numbers that starts with nothing and
moves only at an owner. It is inductive because a render applies edits in
ascending order (`Ascending`, `Beyond`) and because the digest in a document
freezes what an edit does to its paths (`Digested`): a sidecar rewritten
between the renders is refused, not applied. Two sets with the same owners of a
path make the same text (`SameOwnersSameText`, by induction on the numbers), and
what differs has an owner in one manifest only.

The same module proves of `Improve`, for every set of passes, answers and
recorded runs, and any number of changes by people, from `ImproveAssumption`:

* `EvidenceEarned`: if what the vault has at the start is earned (`EarnedBefore`),
  a pattern cites only runs in which its own rule fired, enough of them;
* `SidecarsFit`: a diff is of the edit whose number it has;
* `EditsRefer`: an edit that is there names a pattern that is there, and there is
  a topic.

A pass plans from a vault read earlier and writes it step by step while others
write too, so evidence has to be followed while it is carried: `EarnedInv` says
that a document in a plan cites what it has earned - by itself, whatever the
vault has meanwhile. A person may close, reword or spoil a document and leaves
its evidence as it was. The
other two hold by the order in which a pass writes (`VaultInv`): the
topic before any edit (`TopicFirst`), the pattern an edit predicts before the
edit (`MinedIsPlanned`, `WantedIsThere`), the document before its diff, with no
other write between (`EditsInOrder`); and by exclusive creation, for a file that
is being filled was created by the pass that fills it and by no other
(`FillsItsOwn`). So two passes that chose one number never mix their edits.

`JudgeTrialProofs` proves for every set of cards, any three disjoint sets of
items, any number of passes and of versions of the inputs, from
`TrialAssumption` and `PlanAssumption`:

* `RecordedOnce`: the journal holds each step once;
* `OneMeasurement`: every record was made from the inputs the identity names;
* `AskedRight`: unless a switch failed in the pass, a step is asked while the
  fleet is in its condition;
* `ReuseFounded`: a saved run is read only after the same pass has measured that
  item under the candidate;
* `ItemsStayPaired`: a pass that ends leaves no base it could have read from a
  saved run without its record, the clock notwithstanding;
* `ReportWhole`: a pass that reports and has dropped nothing has every step of
  the plan on record, and `completed` is said only of a set answered whole;
* `FailuresSpread`: the plan of a first pass reaches a known failure after
  exactly as many D items as its mark says, and, by `SpreadEvenly`, for all sizes
  of D and R the stretches of D between the marks differ by one item at most
  (each is `d` divided by `r + 1`, or one more: `GapIs`).

`StepsRecordedOnce` is not inductive: a pass looks a step up only among the
records it found at its start, not among its own. What closes the gap is
`FreshIsBehind` - its own records are of steps at positions it is past -, that no
step has two positions (`PlanIs`), and `AskedIsOpen`, which carries the lookup
across the time the harness runs. `IdentityHolds` says that a pass
that can record was started under the identity of the inputs and that nothing
is recorded before there is one; `BeliefHolds`, that only a failed switch makes
`current` and `fleet` differ; `KnownIsMeasured`, that what a pass can compare by
it measured itself: for a base step it must have been under the candidate, or
the base would be behind. `PassedHolds` is the other side: a step behind the pass
is recorded, or the clock dropped it, and from then on the pass asks for nothing,
so that no saved run becomes readable for it. At the end of a pass every step is behind it. The hypothesis of
`AskedRight` is needed: `MeasuredInItsCondition`, without it, does not hold.

What a plan is made of is proved from `PlanOf` itself. `FlattenHas`, by the least
counterexample among the lengths, says of a list of lists laid end to end whose
elements it has, in which order, and that it repeats none if they do not. From it
come the items (`ItemsAre`), each pair and each block (`GroupsAre`, `BlocksAre`),
and `PlanIs`: every item's two steps, once each. Where one item stands
before another in the interleaving, one of its steps stands before both of the other's
(`Leads`), whether the card asks for pairs or blocks, so the first steps of the
plan stand as the items do (`LeadsFirst`, `ReachedAtItsMark`).

`AssessmentProofs` proves for every set of cards, sources, requests and builds,
from `AssessmentAssumption` and `RegistryAssumption`, and with any number of
passes alive:

* `TypeCorrect`: the registry, the passes and what was opened stay in range;
* `HoldoutOnce`: two assessments that were opened share no conversation, source
  or task cluster;
* `ImplementsTheLedger`: the assessment implements `HoldoutLedger`, the initial
  state and every step;
* `VerdictFinal`: a recommendation to adopt or to reject never changes;
* `ScoredAsJudged`: a recommendation rests on rows measured on the finalist's
  builds and on the files the labels were made from, and its labels say what
  those who agreed thought of these files.

`HoldoutUsedOnce` speaks of opened sets and is preserved only because the
registry holds their claims. `IInv` adds three facts: `PassesHold` - every key a
pass is past is claimed by its assessment -, `WritersOwn` - an empty file being
filled belongs to one pass, so filling it overwrites nobody's claim -, and
`OpenedHold` - an opened assessment holds every key of its items. A whole claim
never changes, so what was held stays held; a second assessment on a related
item would have to hold a key (`RelatedShareKey`) that the first one holds. The
refinement follows from the same invariant: the step that opens is `Open` of
the ledger, for a key held twice would name one assessment; every other step
stutters.

`VerdictFinal` adds that the report is what the journal of today says
(`VerdictStands`), which a journal that grows would break. It cannot: while a
step of the plan is missing, only too many regressions give a verdict
(`UndecidedShort`), rows are never taken back, so those regressions stay, and a
whole journal has no step left. It needs `ScoreAssumption`: the mark of a
missing score is not a score. `ScoredAsJudged` follows a label through packet,
answers, import, merge and pin (`LabelsTrue`, `PinnedTrue`: shuffled letters
translate back to what the person thought, `TranslatedIsThought`) and a row from
the pass to the journal (`PassesRunOn`, `RowsRanOn`). A label file that exists
at the start is assumed made as the others are (`GivenAssumption`).

`DoctorProofs` proves for every number of checks, directories, selectors,
mutants, workers and edits of the verifier, from `DoctorAssumption`:

* `RowsAreTheResults`: a pass or a fail in a report is a result on disk, in the
  directory of the report;
* `HealthyMeasured`: a healthy verdict has a reference run that passed, no
  hand-written mutant that survived, no row without an answer, and a rejection
  rate that reaches the threshold;
* `ReuseTraced`: a reused row names the check that measured it, which began with
  the same verifier.

The first speaks of reports and is about checks that have none yet: `Agree` says
the same of a check that verifies, and is kept because `result.json` is never
written over (`Grown`), not even by the check beside it - that is the lookup in
`EndingsOf`. `Traced` is carried through chains of reuse: a reused row keeps the
name it has, so that every name is of a check that verified it. From equal
fingerprints to the same instrument is `SameInstrument`, where docker answered
and the compose file could be read. `HealthyMeasured` follows from the verdict
being that of the rows (`WrittenTrue`) by counting: a sum of failures and
unknowns that is zero has empty sets behind it, and a mutant with an outcome
is one of `killed`, `survived` or `inconclusive`.

The same module proves of `MutantSuite`, for every list of syntax nodes, maximum
and number of generations, whatever compiles and whatever is added by hand, from
`SuiteAssumption`:

* `DefectsOnce`: no two diffs on disk are the same defect;
* `DeclaredStands`: what the manifest declares is on disk, whole, and what its
  path says.

A generation's plan is new when it is made, but other hands write before it is
through. `SuiteInv` has the plan distinct, undeclared and, from the place it has
reached on, unwritten (`PlanHolds`); every file torn or the site of its path
(`HoldsItsSite`); and both the manifest and what a generation is about to write
there injective lists of whole diffs (`DeclaredOnce`). That a plan names a site
once is `SitesOnce` and `MutationsOnce`, on what `Picked` returns. The assumption
that no defect made by hand is a torn one only keeps `Torn` from naming a defect.

`PanelProofs` proves for every suite, harness, set of requests and days, number of
commands and of workers, and for any number of deaths, from `PanelAssumption`
and `ReportAssumption`:

* `ReplaysReproduce`: where a report and a journal of one calibration are in a
  directory, the traces give that report again;
* `WarnedInTime`: the warning comes on the day the last comparison with people
  leaves its period, and not before;
* `CallsKept`: if the harness's rule keeps the calls it reads
  (`ResettleKeepsCalls`), a rescoring is over its source's calls;
* `VerdictFollows`: what a calibration writes is what the answers and the labels
  make it, counted item by item and apart from the tables of the code;
* `OwnEvidence`: with one command at a time (`OneAtATime`) and no directory named
  on two days (`NamedOnOneDay`), what can be read of the report and the journal a
  document names is its command's and says its numbers, one of the two can be
  read, the other was being written when a command died, and no other document
  names that directory.

All but the last hold of commands that run at once. `ReplayReproduces` speaks of
directories only; `Consistent` says it of every report and journal there is,
those about to be written included, and a replay or a rescoring makes another
pair of the kind. What it reads stays: a command that is done asking changes no
trace (`DoneAsking`), and a journal names one command (`Settled`). For
`OwnEvidence`, `Backed` is the property and `Calibrates` and `Rewrites` are what
the command at work owes it: a calibration writes to a slot no document has, in
a directory that belongs to that slot alone (`OwnedOnce`), and a replay writes
over a report what no document can tell from it. `Holds` is the part about one
directory that survives a death inside a write: a file that cannot be read is
one that was opened (`torn`), and a replay that has emptied one file has not
touched the other or has filled it (`FileOwns`). Its two hypotheses stand where the
code takes no lock and looks at the slots of one day only: what section 4 says
of `freeSlot` is what they exclude. `NoneIsNothing`, that
`None` is no pair and no record, is what TLC's model value is.

`VerdictFollowsTheAnswers` counts items, and the code counts rows and sums over
labels. A table has a row for each item on which people and a measured run both
spoke (`HumanTable`), so its parts are as many as the items they come from
(`RowsOfTable`, `SameSize`). Kappa's chance agreement is a sum, over the labels,
of products of two counts; it is the number of pairs of items crossed by a label
(`Among`, `AddsCount`), which is what `KappaIs` turns the coefficient into.
`RoundedReaches` says when a coefficient rounded to three places, half up,
reaches the threshold. `PeopleAre` is the label that counts on an item: that of
the labeler first by name, and the first line of that labeler. `AllTold` carries
it to the state: a command keeps its labels, and what it writes is the `Report`
of these labels and its own traces, which nobody else changes (`OthersTraces`).
Its hypothesis, `NoneIsNoNumber`, says that a coefficient without a value is not
an integer.

**Only model-checked.** Of what the runs check, the two liveness properties,
`Terminates` and `ResumedTrialEnds`: the prover has no rule for fairness over
`ENABLED`. And `OneInForce`, which is refuted. The proofs that speak of what a
recursive definition returns (the crossings, the flattened plan, the text of a
tree) do so for the function as it is unfolded, by the least counterexample;
no theorem takes an operator as a parameter.

## 8. Not modelled, and why

* A dry run measures nothing; its journal is empty.
* Priors other than 1 (unused), and the rounding of the floating-point e-value.
* The `cmoa`, `git`, `docker` and `docdag` child processes: any outcome they can
  report, or an error, comes back from them.
* Reuse of another run's output directory by the loop: the README of the program
  asks for a separate one and the default makes one.
* A row the loop's journal cannot write is dropped by the code in silence; the
  model writes every row.
* Of a judge trial: the price check of `CheckPlan` and the quality arithmetic of
  the report; two passes over one directory at once (the code takes no lock); an
  input edited while a pass runs; a journal write that fails, or leaves half a
  line.
* Of an assessment: every card is frozen before a pass starts; `--resume` is given
  only when no other pass over that directory is alive; builds are replaced only
  while nothing runs and the suite is edited never during a trial; the width of
  the empirical-Bernstein interval is a constant. An inadmissible start and a dry
  run change nothing and are stutters.
* Of the calibrations: one command at a time, hence no file that two commands
  write at once; `--out` is named on one day; one
  judge; intervals, latencies, strata and wording; traces stay where they were
  recorded. The protocol inside one run, which turns calls into an answer, is
  the harness's.
* Of the doctor: the vault document of a check and the printed summary. Of the
  renderer: the recorded revision. Of the proposer: the instruction and its
  task directory.
* Parsing and rendering of documents, flags, printing, fixtures: functions of
  text with no state.
* `pairwise` and `internal/calibrate`: an HTTP pager over a public dataset and the
  preparation of suites from it, run once by a person who sees it fail.

## 9. Running it

    tlc -workers 2 -config MeasureCache.cfg MCSplitMeasure
    tlc -workers 2 -config EditRuns.cfg MCEditRuns
    tlc -workers 2 -config Assessment.cfg MCAssessment
    tlapm SplitMeasureProofs.tla
    tlapm DecisionProofs.tla
    tlapm RunRecordProofs.tla
    tlapm JudgeTrialProofs.tla
    tlapm HarnessProofs.tla
    tlapm AssessmentProofs.tla
    tlapm DoctorProofs.tla
    tlapm PanelProofs.tla

For every property of a passing run `PROJECT.json` names a definition marked
`Mutant:`, a plausible mistake under which the run must fail.
