-------------------------------- MODULE Panel --------------------------------
(***************************************************************************)
(* Judge calibrations (internal/judge: calibrate.go, replay.go, rescore.go,*)
(* status.go; internal/doc/calibration.go; cmd/uzushio/judge.go).  A       *)
(* calibration takes a slot of the vault, asks the harness about every     *)
(* item at every seed, a few items at a time, and writes a report, a       *)
(* journal and a document.  A rescoring asks nothing: the harness settles  *)
(* the recorded calls again.  A replay rebuilds a report and its journal   *)
(* from the traces.  A file is opened, which empties it, and then filled;  *)
(* any command may die between two steps.  The arithmetic is PanelReport.  *)
(***************************************************************************)
EXTENDS PanelReport

CONSTANTS
  Harness,      \* item -> seed -> the runs the harness may come back with
  Resettle(_),  \* a recorded run -> what the harness's rule makes of it now
  Requests,     \* seeds, label lines, --out or None, days, traces in the vault
  Days,         \* the days on which anything is asked, in order
  ValidityDays, \* days a calibration binds after its own
  Parallel,     \* items judged at once
  MaxJobs,      \* bound: commands in a behaviour
  MaxLive       \* bound: commands running at once

ASSUME PanelAssumption ==
  /\ Days \in Seq(Nat) /\ \A m, n \in DOMAIN Days : m < n => Days[m] < Days[n]
  /\ Days # <<>> /\ ValidityDays \in Nat /\ Parallel \in Nat \ {0}
  /\ MaxJobs \in Nat /\ MaxLive \in Nat
  /\ \A r \in Requests :
       /\ r.seeds \in Nat \ {0} /\ r.days \subseteq Range(Days) /\ r.near \in BOOLEAN
       /\ r.labels \in Seq(Range(r.labels)) /\ \A line \in Range(r.labels) : line.by \in Nat

VARIABLES
  today,
  jobs,    \* the commands so far
  traces,  \* command -> item -> the runs it left on disk, seed by seed
  dirs,    \* report directory -> its report and its journal, None where
           \* there is none that can be read
  vault,   \* day and sequence number -> the calibration document
  torn     \* files opened to be written and not filled since

vars == <<today, jobs, traces, dirs, vault, torn>>

Live(j) == j \in DOMAIN jobs /\ jobs[j].stage # "ended"
Stage(j, stage) == j \in DOMAIN jobs /\ jobs[j].stage = stage
To(j, stage) == jobs' = [jobs EXCEPT ![j].stage = stage]
End(j) == jobs' = [jobs EXCEPT ![j] = [stage |-> "ended"]]
Writing == {"report", "report_open", "journal", "journal_open", "document", "document_open"}
Room ==
  Len(jobs) < MaxJobs /\ Cardinality({j \in DOMAIN jobs : Live(j)}) < MaxLive

Init ==
  /\ today = Days[1] /\ jobs = <<>> /\ traces = <<>>
  /\ dirs = [d \in {} |-> None] /\ vault = [id \in {} |-> None]
  /\ torn = {}

Tomorrow ==
  /\ \E n \in 1..(Len(Days) - 1) : today = Days[n] /\ today' = Days[n + 1]
  /\ UNCHANGED <<jobs, traces, dirs, vault, torn>>

-----------------------------------------------------------------------------
(***************************************************************************)
(* Where a calibration goes, and what it replaces                          *)
(***************************************************************************)
\* freeSlot: the first number of the day whose document does not exist yet.
FreeSeq == Min({n \in 0..Cardinality(DOMAIN vault) : <<today, n>> \notin DOMAIN vault})

\* Mutant: the directory a caller names is the report's, whatever the number.
Target_Named(out, seq) == IF out = None THEN <<today, seq>> ELSE <<out, 0>>

Target(out, seq) == IF out = None THEN <<today, seq>> ELSE <<out, seq>>

\* doc.Calibration.LastDay, and the exclusive day the frontmatter writes.
LastDay(id) == vault[id].day + ValidityDays

\* Mutant: the engine's convention is forgotten.
InForceUntil_Inclusive(id) == LastDay(id)

InForceUntil(id) == LastDay(id) + 1

\* Calibrations reads them in the order of their file names, and "@day-1.md"
\* comes before "@day.md".  (Bound: fewer than ten in a day.)
Before(id, other) == IF other[2] = 0 THEN id[2] # 0 ELSE id[2] # 0 /\ id[2] < other[2]

\* supersededBy: of those still in force, the newest window; the first file
\* among equals.
SupersededBy ==
  LET standing == {id \in DOMAIN vault : LastDay(id) >= today}
      newest == {id \in standing : \A other \in standing : vault[other].day <= vault[id].day}
  IN {id \in newest : \A other \in newest : other = id \/ Before(id, other)}

-----------------------------------------------------------------------------
(***************************************************************************)
(* Starting a calibration, and asking the harness (runAll)                 *)
(***************************************************************************)
\* OpenRescore and Check: every item has a recorded run at every seed.
Seeds(journal) == Max({Len(journal.entries[i].runs) : i \in Items})
Rescorable(d) ==
  /\ dirs[d].report # None /\ dirs[d].journal # None
  /\ Seeds(dirs[d].journal) > 0
  /\ \A i \in Items : Len(dirs[d].journal.entries[i].runs) = Seeds(dirs[d].journal)

\* Calibrations parses every document of the vault, or refuses them all.
Parsable == \A file \in torn : file[1] # "document"

Calibrate(r, source) ==
  /\ Room /\ today \in r.days /\ Parsable
  /\ source # None => Rescorable(source)
  /\ LET recorded == IF source = None THEN None ELSE dirs[source].journal
     IN jobs' = Append(jobs,
          [stage |-> "judging", id |-> <<today, FreeSeq>>, target |-> Target(r.out, FreeSeq),
           replaces |-> SupersededBy, labels |-> r.labels, near |-> r.near,
           from |-> source, recorded |-> recorded,
           seeds |-> IF source = None THEN r.seeds ELSE Seeds(recorded),
           items |-> [i \in Items |-> "waiting"], result |-> None])
  /\ traces' = Append(traces, [i \in Items |-> <<>>])
  /\ UNCHANGED <<today, dirs, vault, torn>>

Put(j, i, state) == jobs' = [jobs EXCEPT ![j].items[i] = state]

\* One place of the gate.
Take(j, i) ==
  /\ Stage(j, "judging") /\ jobs[j].items[i] = "waiting"
  /\ Cardinality({k \in Items : jobs[j].items[k] = "judging"}) < Parallel
  /\ Put(j, i, "judging")
  /\ UNCHANGED <<today, traces, dirs, vault, torn>>

\* Mutant: a rescoring replays the first run of the item at every seed.
Possible_FirstSeed(j, i) ==
  IF jobs[j].recorded = None THEN Harness[i][Len(traces[j][i]) + 1]
  ELSE {Resettle(traces[run.at.job][run.at.item][run.at.seed]) :
          run \in {r \in {jobs[j].recorded.entries[i].runs[1]} : r.near}}

\* What the harness may come back with: a trace it cannot find it refuses.
Possible(j, i) ==
  IF jobs[j].recorded = None THEN Harness[i][Len(traces[j][i]) + 1]
  ELSE {Resettle(traces[run.at.job][run.at.item][run.at.seed]) :
          run \in {r \in {jobs[j].recorded.entries[i].runs[Len(traces[j][i]) + 1]} : r.near}}

Answer(j, i) ==
  /\ Stage(j, "judging") /\ jobs[j].items[i] = "judging"
  /\ \E run \in Possible(j, i) :
       /\ traces' = [traces EXCEPT ![j][i] = Append(@, run)]
       /\ IF Len(traces[j][i]) + 1 = jobs[j].seeds THEN Put(j, i, "judged") ELSE UNCHANGED jobs
  /\ UNCHANGED <<today, dirs, vault, torn>>

\* The harness fails: the item keeps the runs it has, and leaves the gate.
Fail(j, i) ==
  /\ Stage(j, "judging") /\ jobs[j].items[i] = "judging"
  /\ Put(j, i, "failed")
  /\ UNCHANGED <<today, traces, dirs, vault, torn>>

-----------------------------------------------------------------------------
(***************************************************************************)
(* What it comes to                                                        *)
(***************************************************************************)
\* checkSweep: where a sweep settled a run, both rules read the same calls.
Swept(j) ==
  LET runs == UNION {{<<i, s>> : s \in DOMAIN traces[j][i]} : i \in Items}
      sweeps == {at \in runs : traces[j][at[1]][at[2]].rule = "condorcet"}
      agree == {at \in sweeps :
        LET was == jobs[j].recorded.entries[at[1]].runs[at[2]]
        IN was.kind = "selected" /\ was.category = traces[j][at[1]][at[2]].candidate}
  IN IF jobs[j].recorded = None THEN None
     ELSE <<Cardinality(agree), Cardinality(sweeps \ agree)>>

\* An item's line of the journal, with where each trace is: RecordPath names
\* it relative to the vault where it is in there, and is no use otherwise.
Entry(j, i, measurement) ==
  [gold |-> measurement.gold, label |-> measurement.label, human |-> measurement.human,
   runs |-> [s \in DOMAIN measurement.runs |->
     [kind |-> measurement.runs[s].kind, category |-> Category(measurement.runs[s]),
      near |-> jobs[j].near, at |-> [job |-> j, item |-> i, seed |-> s]]]]

Assemble(j) ==
  /\ Stage(j, "judging") /\ \A i \in Items : jobs[j].items[i] \in {"judged", "failed"}
  /\ LET items == [i \in Items |-> Measurement(jobs[j].labels, i, traces[j][i])]
         carried == [allBad |-> AllBad(jobs[j].labels), ceiling |-> Ceiling(jobs[j].labels),
                     swept |-> Swept(j), seeds |-> jobs[j].seeds, from |-> jobs[j].from]
     IN jobs' = [jobs EXCEPT ![j].stage = "report", ![j].result =
          [report  |-> [by |-> j, numbers |-> Report(items, carried)],
           journal |-> [by |-> j, entries |-> [i \in Items |-> Entry(j, i, items[i])]]]]
  /\ UNCHANGED <<today, traces, dirs, vault, torn>>

-----------------------------------------------------------------------------
(***************************************************************************)
(* Replay                                                                  *)
(***************************************************************************)
\* Mutant: what measured nothing is left out.
Reread_Answers(entry) ==
  LET there == SelectSeq(entry.runs, LAMBDA run : run.kind \in {"selected", "no_candidate"})
  IN [gold |-> entry.gold, label |-> entry.label, human |-> entry.human,
      runs |-> [s \in DOMAIN there |-> traces[there[s].at.job][there[s].at.item][there[s].at.seed]]]

\* reread: the labels are the journal's, the runs are the traces'.
Reread(entry) ==
  [gold |-> entry.gold, label |-> entry.label, human |-> entry.human,
   runs |-> [s \in DOMAIN entry.runs |->
     traces[entry.runs[s].at.job][entry.runs[s].at.item][entry.runs[s].at.seed]]]

Written(d) == d \in DOMAIN dirs /\ dirs[d].report # None /\ dirs[d].journal # None
Found(d) ==
  \A i \in Items : \A s \in DOMAIN dirs[d].journal.entries[i].runs :
    dirs[d].journal.entries[i].runs[s].near
Rebuilt(d) ==
  Report([i \in Items |-> Reread(dirs[d].journal.entries[i])], dirs[d].report.numbers.carried)

\* What it rebuilds is written only where a document could not tell.
Replay(d) ==
  /\ Room /\ Written(d) /\ Found(d)
  /\ Published(Rebuilt(d)) = Published(dirs[d].report.numbers)
  /\ jobs' = Append(jobs,
       [stage |-> "report", id |-> None, target |-> d,
        result |-> [report |-> [by |-> dirs[d].journal.by, numbers |-> Rebuilt(d)],
                    journal |-> dirs[d].journal]])
  /\ traces' = Append(traces, [i \in Items |-> <<>>])
  /\ UNCHANGED <<today, dirs, vault, torn>>

-----------------------------------------------------------------------------
(***************************************************************************)
(* Result.Write and writeDocument: os.WriteFile opens each file, which     *)
(* empties or creates it, and then fills it.  A report, a journal or a     *)
(* document that is not filled is one that every reader refuses: it does   *)
(* not parse, or lacks items the report or the suite has (agreesWith,      *)
(* Rescore.Check).                                                         *)
(***************************************************************************)
Bind(f, key, value) == [x \in DOMAIN f \cup {key} |-> IF x = key THEN value ELSE f[x]]

Content(d) == IF d \in DOMAIN dirs THEN dirs[d] ELSE [report |-> None, journal |-> None]

OpenReport(j) ==
  /\ Stage(j, "report")
  /\ dirs' = Bind(dirs, jobs[j].target, [Content(jobs[j].target) EXCEPT !.report = None])
  /\ torn' = torn \cup {<<"report", jobs[j].target>>}
  /\ To(j, "report_open")
  /\ UNCHANGED <<today, traces, vault>>

WriteReport(j) ==
  /\ Stage(j, "report_open")
  /\ dirs' = Bind(dirs, jobs[j].target, [Content(jobs[j].target) EXCEPT !.report = jobs[j].result.report])
  /\ torn' = torn \ {<<"report", jobs[j].target>>}
  /\ To(j, "journal")
  /\ UNCHANGED <<today, traces, vault>>

OpenJournal(j) ==
  /\ Stage(j, "journal")
  /\ dirs' = Bind(dirs, jobs[j].target, [Content(jobs[j].target) EXCEPT !.journal = None])
  /\ torn' = torn \cup {<<"journal", jobs[j].target>>}
  /\ To(j, "journal_open")
  /\ UNCHANGED <<today, traces, vault>>

WriteJournal(j) ==
  /\ Stage(j, "journal_open")
  /\ dirs' = Bind(dirs, jobs[j].target, [Content(jobs[j].target) EXCEPT !.journal = jobs[j].result.journal])
  /\ torn' = torn \ {<<"journal", jobs[j].target>>}
  /\ IF jobs[j].id = None THEN End(j) ELSE To(j, "document")
  /\ UNCHANGED <<today, traces, vault>>

OpenDocument(j) ==
  /\ Stage(j, "document")
  /\ vault' = Restrict(vault, DOMAIN vault \ {jobs[j].id})
  /\ torn' = torn \cup {<<"document", jobs[j].id>>}
  /\ To(j, "document_open")
  /\ UNCHANGED <<today, traces, dirs>>

WriteDocument(j) ==
  /\ Stage(j, "document_open")
  /\ vault' = Bind(vault, jobs[j].id,
       [by |-> j, day |-> jobs[j].id[1], report |-> jobs[j].target, replaces |-> jobs[j].replaces,
        says |-> Published(jobs[j].result.report.numbers), from |-> jobs[j].from])
  /\ torn' = torn \ {<<"document", jobs[j].id>>}
  /\ End(j)
  /\ UNCHANGED <<today, traces, dirs>>

\* The process is cancelled, dies, or cannot write.
Stop(j) ==
  /\ Live(j) /\ End(j)
  /\ UNCHANGED <<today, traces, dirs, vault, torn>>

Step(j) ==
  \/ \E i \in Items : Take(j, i) \/ Answer(j, i) \/ Fail(j, i)
  \/ Assemble(j) \/ OpenReport(j) \/ WriteReport(j) \/ OpenJournal(j) \/ WriteJournal(j)
  \/ OpenDocument(j) \/ WriteDocument(j)

Next ==
  \/ Tomorrow
  \/ \E r \in Requests, source \in DOMAIN dirs \cup {None} : Calibrate(r, source)
  \/ \E d \in DOMAIN dirs : Replay(d)
  \/ \E j \in DOMAIN jobs : Step(j) \/ Stop(j)

Spec == Init /\ [][Next]_vars

-----------------------------------------------------------------------------
(***************************************************************************)
(* What the vault says on a day (StatusOf)                                 *)
(***************************************************************************)
Compared == {id \in DOMAIN vault : vault[id].says[3] # None}

\* No comparison with people, or the last one too many days ago.
Warned ==
  \/ Compared = {}
  \/ today - Max({vault[id].day : id \in Compared}) > ValidityDays

-----------------------------------------------------------------------------
(***************************************************************************)
(* Properties                                                              *)
(***************************************************************************)

\* A report can be rebuilt: when a report and a journal are of one calibration
\* and its traces are where they say, the traces give that report again,
\* whatever failed, timed out or needed no judge, and whatever else is running
\* (replay.go, Replay; judge_test.go, TestReplayRebuildsAReportFromItsTraces).
ReplayReproduces ==
  \A d \in DOMAIN dirs :
    Written(d) /\ Found(d) /\ dirs[d].report.by = dirs[d].journal.by
      => Rebuilt(d) = dirs[d].report.numbers

\* A document's evidence is its own, through later calibrations, rescorings,
\* replays and deaths: whatever can be read in the directory it names is the
\* report and the journal it was written about, or a replay of them, and no
\* other document names that directory.  A replay that dies inside a write
\* leaves one of the two unreadable, and never both: without both no other
\* replay begins (report.go, Write; judge.go, freeSlot and replayCalibration).
EvidenceIsItsOwn ==
  \A id \in DOMAIN vault :
    LET d == vault[id].report
        held == Content(d)
    IN /\ held.report # None =>
            held.report.by = vault[id].by /\ Published(held.report.numbers) = vault[id].says
       /\ held.journal # None => held.journal.by = vault[id].by
       /\ held.report # None \/ held.journal # None
       /\ held.report = None => <<"report", d>> \in torn
       /\ held.journal = None => <<"journal", d>> \in torn
       /\ \A other \in DOMAIN vault : vault[other].report = d => other = id

\* Who speaks for people on an item: of those who labelled it the first by
\* name, the first time, and the corpus where nobody did.
People(labels, item) ==
  LET who == {n \in DOMAIN labels : labels[n].item = item}
      n == CHOOSE m \in who : \A other \in who :
             \/ labels[m].by < labels[other].by
             \/ labels[m].by = labels[other].by /\ m <= other
  IN IF who = {} THEN Gold[item]
     ELSE IF labels[n].choice \in Positions THEN labels[n].choice ELSE Abstain

\* The numbers that these labels and these runs leave, counted apart from the
\* tables: people and judge are compared on the items with a label whose first
\* run was a judgement, and the judge is calibrated exactly when few enough
\* items were lost and the agreement clears the threshold.
FollowFrom(says, labels, runs) ==
  LET kept == {i \in Items : runs[i] # <<>> /\ runs[i][1].kind \in {"selected", "no_candidate"}}
      people == [i \in Items |-> People(labels, i)]
      chosen == [i \in kept |-> IF runs[i][1].kind = "selected" THEN runs[i][1].candidate ELSE Abstain]
      both == {i \in kept : people[i] # None}
      n == Cardinality(both)
      agree == Cardinality({i \in both : chosen[i] = people[i]})
      chance == Cardinality({at \in both \X both : chosen[at[1]] = people[at[2]]})
      space == n * n - chance
  IN /\ says.nHuman = n
     /\ says.verdict = "calibrated" <=>
          /\ 100 * Cardinality(Items \ kept) <= Budget * Cardinality(Items)
          /\ space > 0
          /\ 2000 * (n * agree - chance) + space >= 2 * MinKappa * space

\* The verdict that a calibration writes down is the one that people and the
\* harness gave, counted item by item (calibrate.go, assemble and verdict).
VerdictFollowsTheAnswers ==
  \A j \in DOMAIN jobs : jobs[j].stage \in Writing /\ jobs[j].id # None =>
    FollowFrom(jobs[j].result.report.numbers, jobs[j].labels, traces[j])

\* A rescoring settles the recorded calls and nothing else: every run it left
\* is over the calls that its source recorded for that item at that seed
\* (rescore.go; README.md, "the rule and nothing else").
SameCallsRescored ==
  \A j \in DOMAIN jobs : jobs[j].stage = "judging" /\ jobs[j].recorded # None =>
    \A i \in Items : \A s \in DOMAIN traces[j][i] :
      LET at == jobs[j].recorded.entries[i].runs[s].at
      IN traces[j][i][s].pairs = traces[at.job][at.item][at.seed].pairs

\* Where the documents can be read, the warning that nobody compared the judge
\* with people lately comes on the very day the last such document leaves its
\* period (status.go, StatusOf; calibration.go, InForceUntil).
WarnedOnTheDay ==
  Parsable => (Warned <=> ~\E id \in Compared : today < InForceUntil(id))

\* doc/calibration.go, Supersedes: a new document replaces the last one that
\* was still binding, so one binds at most.
OneInForce ==
  (\A j \in DOMAIN jobs : ~Live(j)) =>
    Cardinality({id \in DOMAIN vault :
      today < InForceUntil(id) /\ \A other \in DOMAIN vault : id \notin vault[other].replaces}) <= 1
=============================================================================
