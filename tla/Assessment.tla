----------------------------- MODULE Assessment -----------------------------
(***************************************************************************)
(* The fixed-H assessment (internal/judge/assess.go, assessreport.go): a   *)
(* finalist of a D/R trial is measured once on a final set that nothing    *)
(* else may open.  Before a pass opens the set it claims every item of it  *)
(* in a shared registry, a file per key, each created and then filled in.  *)
(* Passes of several assessments run at once, and each may die anywhere;   *)
(* an interrupted one is continued with --resume.  The trial inside is     *)
(* JudgeTrial: here it appends one record of its plan at a time.  Labels   *)
(* are made by EvalLabels, and pinned by the card.                         *)
(***************************************************************************)
EXTENDS EvalLabels, Finalist, Integers, FiniteSetsExt

CONSTANTS
  Cards,      \* name -> its card
  Sources,    \* item -> where it comes from: conversation, source, id, cluster
  Requests,   \* what people ask for: a card, an output directory, --resume
  BuildSets,  \* builds that may be installed for the two conditions
  Given,      \* cards whose labels exist already -> their label file
  Answers,    \* side (0 or 1) -> what measuring it may come to
  Scale,      \* scores are counted in 1/Scale
  Width(_),   \* half-width of the empirical Bernstein interval of some values
  MaxPasses,  \* bound: passes in a behaviour
  MaxLive,    \* bound: passes alive at once
  Free, Torn, \* registry: no file, and a file with nothing in it
  None        \* nothing there

ASSUME AssessmentAssumption ==
  /\ Scale \in Nat \ {0} /\ MaxPasses \in Nat /\ MaxLive \in Nat
  /\ DOMAIN Given \subseteq DOMAIN Cards
  /\ \A r \in Requests : r.card \in DOMAIN Cards /\ r.resume \in BOOLEAN
  /\ \A c \in DOMAIN Cards :
       /\ Cards[c].items \in Seq(DOMAIN Sources) /\ IsInjective(Cards[c].items)
       /\ Cards[c].clusters \in Nat /\ Cards[c].serious \in Nat

\* What is missing is no score, and no recommendation.
ASSUME ScoreAssumption == None \notin {0, 1} /\ None \notin {"adopt", "reject"}

\* A label file that exists already holds what its annotators thought of what
\* they saw, where that is known: it was made as EvalLabels makes them.
ASSUME GivenAssumption ==
  \A name \in DOMAIN Given :
    LET file == Given[name] IN
      \A by \in DOMAIN file.votes : \A item \in DOMAIN file.votes[by] :
        item \in DOMAIN Opinion[by][file.saw] =>
          file.votes[by][item] = Opinion[by][file.saw][item]

VARIABLES
  builds,    \* the builds installed now
  pinned,    \* card -> the label file it pins
  registry,  \* key -> Free, Torn or the claim in it
  pass,      \* the passes so far
  opened,    \* history: assessments that have opened their items
  journal,   \* assessment -> the records of its trial
  report     \* assessment -> what its report recommends

assessVars == <<builds, pinned, registry, pass, opened, journal, report>>
disk == <<registry, journal, report>>
vars == <<labelVars, assessVars>>

Names == DOMAIN Cards
ItemsOf(name) == Range(Cards[name].items)

\* An assessment: the runtime fingerprint digests the card, both builds and
\* the output directory.
Uses == [card : Names, out : {r.out : r \in Requests}, builds : BuildSets]

-----------------------------------------------------------------------------
(***************************************************************************)
(* What an item is claimed under                                           *)
(***************************************************************************)
KeyKinds == <<"conversation", "source", "source_cluster">>

\* holdoutKeys
Key(item, kind) ==
  [kind |-> kind,
   name |-> CASE kind = "conversation"   -> <<Sources[item].conversation>>
              [] kind = "source"         -> <<Sources[item].source, Sources[item].id>>
              [] kind = "source_cluster" -> <<Sources[item].source, Sources[item].cluster>>]

\* The claims of a card in the order they are made: item by item, kind by kind.
Claims(name) == 3 * Len(Cards[name].items)
ItemAt(name, n) == Cards[name].items[((n - 1) \div 3) + 1]
KindAt(n) == KeyKinds[((n - 1) % 3) + 1]
KeyAt(name, n) == Key(ItemAt(name, n), KindAt(n))
KeysOf == [use \in Uses |-> {KeyAt(use.card, n) : n \in 1..Claims(use.card)}]
AllKeys == {Key(item, kind) : item \in DOMAIN Sources, kind \in Range(KeyKinds)}

\* What a registry file says.
Claim == [use : Uses, item : DOMAIN Sources]

ASSUME RegistryAssumption == Free # Torn /\ {Free, Torn} \cap Claim = {}

-----------------------------------------------------------------------------
Init ==
  /\ LabelInit
  /\ builds \in BuildSets
  /\ pinned = [name \in Names |-> IF name \in DOMAIN Given THEN Given[name] ELSE None]
  /\ registry = [key \in AllKeys |-> Free]
  /\ pass = <<>>
  /\ opened = {}
  /\ journal = [use \in Uses |-> <<>>]
  /\ report = [use \in Uses |-> None]

Stage(p, stage) == p \in DOMAIN pass /\ pass[p].stage = stage
Live(p) == p \in DOMAIN pass /\ pass[p].stage # "ended"
To(p, stage) == pass' = [pass EXCEPT ![p].stage = stage]
\* Nothing of a pass that ended is left but what it wrote.
End(p) == pass' = [pass EXCEPT ![p] = [stage |-> "ended"]]
Advance(p) == pass' = [pass EXCEPT ![p].n = @ + 1, ![p].stage = "claiming"]

\* The coordinator freezes the card: it pins the labels.
Freeze(name, file) ==
  /\ pinned[name] = None
  /\ pinned' = [pinned EXCEPT ![name] = file]
  /\ UNCHANGED <<labelVars, builds, disk, pass, opened>>

\* Assess, up to the claim: nothing of H is read yet.
Admissible(name) ==
  LET card == Cards[name]
      f == card.finalist
  IN /\ IsFinalist(f.report)
     /\ SameExperiment(card, f.report, f.identity, builds)
     /\ OneTrial(f.report, f.identity, f.rows)
     /\ Unseen({Sources[item].conversation : item \in ItemsOf(name)}, f.identity)

\* docs/p1-evaluation.md: --resume only continues an interrupted assessment.
Interrupted(r) == \A p \in DOMAIN pass : Live(p) => pass[p].use.out # r.out

Start(r) ==
  /\ Len(pass) < MaxPasses /\ Cardinality({p \in DOMAIN pass : Live(p)}) < MaxLive
  /\ \A name \in Names : pinned[name] # None   \* bound: every card is frozen first
  /\ r.resume => Interrupted(r)
  /\ Admissible(r.card)
  /\ pass' = Append(pass, [use |-> [card |-> r.card, out |-> r.out, builds |-> builds],
                           resume |-> r.resume, stage |-> "claiming", n |-> 1])
  /\ UNCHANGED <<labelVars, builds, pinned, disk, opened>>

-----------------------------------------------------------------------------
(***************************************************************************)
(* claimHoldout                                                            *)
(***************************************************************************)
Target(p) == KeyAt(pass[p].use.card, pass[p].n)
Claiming(p) == Stage(p, "claiming") /\ pass[p].n <= Claims(pass[p].use.card)

\* Keys this pass has claimed already: turns of one task share theirs.
Here(p) == {KeyAt(pass[p].use.card, m) : m \in 1..(pass[p].n - 1)}

\* O_EXCL
Create(p) ==
  /\ Claiming(p) /\ registry[Target(p)] = Free
  /\ registry' = [registry EXCEPT ![Target(p)] = Torn]
  /\ To(p, "writing")
  /\ UNCHANGED <<labelVars, builds, pinned, opened, journal, report>>

Write(p) ==
  /\ Stage(p, "writing")
  /\ registry' = [registry EXCEPT ![Target(p)] =
       [use |-> pass[p].use, item |-> ItemAt(pass[p].use.card, pass[p].n)]]
  /\ Advance(p)
  /\ UNCHANGED <<labelVars, builds, pinned, opened, journal, report>>

\* Mutant: a claim of the same card will do, whatever it ran on.
Ours_SameCard(p, claim) ==
  /\ claim.use.card = pass[p].use.card
  /\ pass[p].resume \/ Target(p) \in Here(p)

\* The claim found is of this assessment, on these builds, in this directory,
\* and this pass resumes it or made it.
Ours(p, claim) ==
  /\ claim.use = pass[p].use
  /\ pass[p].resume \/ Target(p) \in Here(p)
  /\ \/ KindAt(pass[p].n) = "source_cluster"
     \/ claim.item = ItemAt(pass[p].use.card, pass[p].n)

Found(p) == Claiming(p) /\ registry[Target(p)] # Free
Resumes(p) == registry[Target(p)] # Torn /\ Ours(p, registry[Target(p)])

Accept(p) ==
  /\ Found(p) /\ Resumes(p)
  /\ Advance(p)
  /\ UNCHANGED <<labelVars, builds, pinned, disk, opened>>

Refuse(p) ==
  /\ Found(p) /\ ~Resumes(p)
  /\ End(p)
  /\ UNCHANGED <<labelVars, builds, pinned, disk, opened>>

-----------------------------------------------------------------------------
(***************************************************************************)
(* Opening H, the trial, and the recommendation                            *)
(***************************************************************************)
Claimed(p) == Stage(p, "claiming") /\ pass[p].n > Claims(pass[p].use.card)

\* Mutant: the files people labelled are not compared with the suite's.
Consistent_Labels(name) == Resolvable(pinned[name], ItemsOf(name))

\* Labels, suite and manifest are those of the items.
Consistent(name) ==
  Resolvable(pinned[name], ItemsOf(name)) /\ SameBodies(pinned[name])

OpenItems(p) ==
  /\ Claimed(p)
  /\ opened' = opened \cup {pass[p].use}
  /\ IF Consistent(pass[p].use.card) THEN To(p, "trial") ELSE End(p)
  /\ UNCHANGED <<labelVars, builds, pinned, disk>>

Steps(name) == 2 * Len(Cards[name].items)

\* One step of the trial's plan: a side of an item.
Measure(p) ==
  /\ Stage(p, "trial") /\ Len(journal[pass[p].use]) < Steps(pass[p].use.card)
  /\ \E answer \in Answers[Len(journal[pass[p].use]) % 2] :
       journal' = [journal EXCEPT ![pass[p].use] =
         Append(@, [answer |-> answer, shown |-> shown, builds |-> builds])]
  /\ UNCHANGED <<labelVars, builds, pinned, registry, pass, opened, report>>

\* assessmentScore: choosing nothing is wrong, saying nothing is missing.
Score(answer, acceptable) ==
  IF answer \in {"failed", "invalid_output"} THEN None
  ELSE IF answer \in acceptable THEN 1 ELSE 0

\* What side s (0 or 1) of the i-th item scored by a label file.
Side(name, file, rows, i, s) ==
  IF 2 * i - 1 + s > Len(rows) THEN None
  ELSE Score(rows[2 * i - 1 + s].answer, Resolved(file, Cards[name].items[i]))

Missing(name, file, rows) ==
  {i \in DOMAIN Cards[name].items : Side(name, file, rows, i, 0) = None \/ Side(name, file, rows, i, 1) = None}

\* Mutant: a candidate not measured yet counts as a regression.
Regressions_Unmeasured(name, file, rows) ==
  {i \in DOMAIN Cards[name].items : Side(name, file, rows, i, 0) = 1 /\ Side(name, file, rows, i, 1) # 1}

Regressions(name, file, rows) ==
  {i \in DOMAIN Cards[name].items : Side(name, file, rows, i, 0) = 1 /\ Side(name, file, rows, i, 1) = 0}

\* The independent unit: the items of one task cluster, averaged.
Clusters(name) == {Sources[item].cluster : item \in ItemsOf(name)}
Turns(name, cluster) ==
  {i \in DOMAIN Cards[name].items : Sources[Cards[name].items[i]].cluster = cluster}
Mean(name, file, rows, cluster, s) ==
  (Scale * Cardinality({i \in Turns(name, cluster) : Side(name, file, rows, i, s) = 1}))
    \div Cardinality(Turns(name, cluster))

Total(values) == MapThenSumSet(LAMBDA c : values[c], DOMAIN values)

\* A bound of the interval, times the number of clusters.
Lower(values, least) ==
  Max({least * Cardinality(DOMAIN values), Total(values) - Width(values)})
Upper(values) ==
  Min({Scale * Cardinality(DOMAIN values), Total(values) + Width(values)})

\* assessReport: observed regressions may reject alone; otherwise nothing is
\* said while a side is missing or the clusters are too few.
Recommended(name, file, rows) ==
  LET card == Cards[name]
      n == Cardinality(Clusters(name))
      quality == [c \in Clusters(name) |-> Mean(name, file, rows, c, 1)]
      delta == [c \in Clusters(name) |-> Mean(name, file, rows, c, 1) - Mean(name, file, rows, c, 0)]
  IN IF Cardinality(Regressions(name, file, rows)) > card.serious THEN "reject"
     ELSE IF Missing(name, file, rows) # {} \/ n < card.clusters THEN "inconclusive"
     ELSE IF Lower(delta, -Scale) >= -card.margin * n /\ Lower(quality, 0) >= card.floor * n
          THEN "adopt"
     ELSE IF Upper(delta) < -card.margin * n \/ Upper(quality) < card.floor * n
          THEN "reject"
     ELSE "inconclusive"

\* The plan is done, or the clock is past its deadline and drops the rest.
Report(p) ==
  /\ Stage(p, "trial")
  /\ report' = [report EXCEPT ![pass[p].use] =
       Recommended(pass[p].use.card, pinned[pass[p].use.card], journal[pass[p].use])]
  /\ End(p)
  /\ UNCHANGED <<labelVars, builds, pinned, registry, opened, journal>>

-----------------------------------------------------------------------------
\* A pass dies, is cancelled, or cannot write.
Die(p) ==
  /\ Live(p) /\ End(p)
  /\ UNCHANGED <<labelVars, builds, pinned, disk, opened>>

\* Another build is installed, while nothing runs.
Rebuild ==
  /\ \A p \in DOMAIN pass : ~Live(p)
  /\ edits < MaxEdits /\ edits' = edits + 1
  /\ builds' \in BuildSets \ {builds}
  /\ UNCHANGED <<shown, labelFiles, pinned, disk, pass, opened>>

\* The suite is edited, while no trial measures on it.
Edit ==
  /\ \A p \in DOMAIN pass : ~Stage(p, "trial")
  /\ EditSuite
  /\ UNCHANGED assessVars

\* People label until the card is frozen.
Label ==
  /\ \E name \in Names : pinned[name] = None
  /\ LabelStep
  /\ UNCHANGED assessVars

PassStep(p) ==
  \/ Create(p) \/ Write(p) \/ Accept(p) \/ Refuse(p)
  \/ OpenItems(p) \/ Measure(p) \/ Report(p) \/ Die(p)

Next ==
  \/ \E r \in Requests : Start(r)
  \/ \E p \in DOMAIN pass : PassStep(p)
  \/ \E name \in Names, file \in merged : Freeze(name, file)
  \/ Rebuild \/ Edit \/ Label

Spec == Init /\ [][Next]_vars

-----------------------------------------------------------------------------
(***************************************************************************)
(* Properties                                                              *)
(***************************************************************************)

\* Every variable of the protocol stays in its range.
TypeOK ==
  /\ builds \in BuildSets
  /\ registry \in [AllKeys -> {Free, Torn} \cup Claim]
  /\ pass \in Seq([stage : {"ended"}] \cup
                  [stage : {"claiming", "writing", "trial"}, use : Uses, resume : BOOLEAN, n : Nat \ {0}])
  /\ opened \subseteq Uses

Related(a, b) ==
  \/ Sources[a].conversation = Sources[b].conversation
  \/ /\ Sources[a].source = Sources[b].source
     /\ Sources[a].id = Sources[b].id \/ Sources[a].cluster = Sources[b].cluster

\* Two assessments that were both opened share no conversation, no source and
\* no task cluster, however their claims interleaved and whichever of their
\* passes died and were resumed (assess.go, claimHoldout).
HoldoutUsedOnce ==
  \A one, other \in opened :
    one = other \/ \A a \in ItemsOf(one.card), b \in ItemsOf(other.card) : ~Related(a, b)

\* A recommendation to adopt or to reject stands: no resumed pass of the same
\* assessment, with what was missing now measured, recommends anything else
\* (assessreport.go, assessReport).
VerdictIsFinal ==
  [][\A use \in Uses :
       report[use] \in {"adopt", "reject"} => report'[use] = report[use]]_vars

\* What a recommendation scored is what people judged: every record was made
\* by the finalist's builds on the very files the labels are about, and where
\* the annotators agree, an answer counts as right exactly when they, reading
\* those files under letters of their own, found it acceptable
\* (evalpacket.go, evalmerge.go, evaldata.go, assess.go).
ScoredOnWhatPeopleJudged ==
  \A use \in Uses : report[use] \in {"adopt", "reject"} =>
    LET file == pinned[use.card] IN
      \A n \in DOMAIN journal[use] :
        LET row == journal[use][n]
            item == Cards[use.card].items[(n + 1) \div 2]
        IN /\ row.shown = file.saw
           /\ row.builds = Cards[use.card].finalist.identity.builds
           /\ (/\ \A by \in DOMAIN file.votes : item \in DOMAIN Opinion[by][row.shown]
               /\ \A a, b \in DOMAIN file.votes :
                    Opinion[a][row.shown][item] = Opinion[b][row.shown][item])
              => \A by \in DOMAIN file.votes :
                   Resolved(file, item) = Opinion[by][row.shown][item]

\* The registry keeps what it promises.
Ledger == INSTANCE HoldoutLedger
ImplementsLedger == Ledger!LedgerSpec

\* docs/p1-evaluation.md: a partial claim leaves H claimed, and --resume of the
\* same assessment may continue.
InterruptedMayContinue ==
  \A key \in AllKeys :
    registry[key] = Torn => \E p \in DOMAIN pass : Stage(p, "writing") /\ Target(p) = key
=============================================================================
