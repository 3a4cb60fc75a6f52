------------------------------ MODULE Improve ------------------------------
(***************************************************************************)
(* `uzushio improve` (cmd/uzushio/improve.go; internal/mine/write.go;      *)
(* internal/proposeedit/write.go): passes that read recorded runs, plan    *)
(* what they make of the vault's patterns, write them one by one, and then *)
(* ask for edits against them and write those.  Nothing is locked: the     *)
(* harness records runs, people edit patterns and other passes write       *)
(* between any two steps, and a pass may die at any of them.               *)
(***************************************************************************)
EXTENDS MineRules, ProposeEdit, SequencePicks, FiniteSetsExt, SequencesExt

CONSTANTS
  Passes,
  Recorded,       \* the runs the harness records, in the order it does
  Existing,       \* the vault's pattern documents at the start
  Answers,        \* what a proposal round can bring back: sets of sequences
  Asks,           \* what a pass is asked to propose against
  EditNumberMax,  \* 9999 in the code
  ABSENT, Torn,   \* a file that is not there; one created and not yet filled
  MaxHands        \* how often people edit patterns

VARIABLES
  recorded,  \* how many of the runs are on disk
  patterns,  \* the vault's pattern documents
  files,     \* the vault's topic, edit documents and sidecar diffs
  pass,      \* the passes
  hands      \* how often people have edited patterns

improveVars == <<recorded, patterns, files, pass, hands>>

Traces(n) == {Recorded[i] : i \in 1..n}
Everything == Observations(Traces(Len(Recorded)))
PatternIDs == {PatternID(o.signature) : o \in Everything} \cup DOMAIN Existing

\* A pattern document: what it says of itself, and the runs it cites.
Cited == {o.run : o \in Everything} \cup UNION {Existing[id].evidence : id \in DOMAIN Existing}
PatternDocs ==
  [status : {"open", "resolved", "unreadable"}, reading : {"mined", "sharpened"},
   evidence : SUBSET Cited]

\* A file of the vault holds what was written to it: an edit, or the content
\* of one (or its digest), which is told from every other by who proposed it,
\* against what, and when.
Contents == Passes \X PatternIDs \X Nat
EditDocs ==
  [predicts : PatternIDs, component : Injectable, approval : {"auto", "human"},
   digest : Contents \cup {<<>>}]

ASSUME ImproveAssumption ==
  /\ {EditNumberMax, MaxHands, MinRuns} \subseteq Nat
  /\ Recorded \in Seq(Range(Recorded)) /\ IsFiniteSet(Everything)
  /\ \A id \in DOMAIN Existing : Existing[id] \in PatternDocs
  /\ \A answers \in Answers : answers \in Seq(Range(answers))
  /\ \A ask \in Asks : IsFiniteSet(ask.ids)
  /\ \A other \in {ABSENT, Torn} : other \notin PatternDocs \cup EditDocs \cup Contents \cup {"subject"}
  /\ ABSENT # Torn


Topic == <<"topic", 0>>
Doc(n) == <<"edit", n>>
Diff(n) == <<"diff", n>>
FileNames == {Topic} \cup {Doc(n) : n \in 1..EditNumberMax} \cup {Diff(n) : n \in 1..EditNumberMax}

Nothing == [kind |-> "nothing", ids |-> {}]
Fresh == [at |-> "idle", dry |-> FALSE, ask |-> Nothing, plan |-> <<>>, mined |-> <<>>,
          wanted |-> <<>>, next |-> 0, queue |-> <<>>, alone |-> FALSE]

ImproveInit ==
  /\ recorded \in 0..Len(Recorded)
  /\ patterns = [id \in PatternIDs |-> IF id \in DOMAIN Existing THEN Existing[id] ELSE ABSENT]
  /\ files = [f \in FileNames |-> ABSENT]
  /\ pass = [p \in Passes |-> Fresh]
  /\ hands = 0

Over == {"idle", "done", "failed", "dead"}
Working(p) == pass[p].at \notin Over
Becomes(p, at) == pass' = [pass EXCEPT ![p] = [Fresh EXCEPT !.at = at]]

-----------------------------------------------------------------------------
(***************************************************************************)
(* Mining.                                                                 *)
(***************************************************************************)
\* What a pass makes of one pattern it mined: it creates it, adds the runs an
\* open one does not cite yet, and leaves any other as it is.
Planned(runs, there) ==
  CASE there = ABSENT -> [status |-> "open", evidence |-> runs, reading |-> "mined"]
    [] there # ABSENT /\ there.status = "open" /\ ~ runs \subseteq there.evidence ->
         [there EXCEPT !.evidence = @ \cup runs]
    [] OTHER -> there

\* The patterns the runs on disk support, in one order, each with its runs.
Support == [n \in 0..Len(Recorded) |->
  LET order == SetToSeq(Mined(Traces(n)))
  IN [i \in DOMAIN order |->
        [id |-> PatternID(order[i]), runs |-> RunsOf(Bucket(Traces(n), order[i]))]]]

\* Load, Mine and Plan: every pattern is planned from the document as it is
\* now, two of one identifier from the same one.
StartPass(p, dry, ask) ==
  /\ pass[p].at = "idle"
  /\ LET mined == Support[recorded]
         Writes(c) == c.doc # patterns[c.id]
         changes == [i \in DOMAIN mined |->
           LET m == mined[i] IN [id |-> m.id, doc |-> Planned(m.runs, patterns[m.id])]]
     IN IF Decodes(Traces(recorded))
        THEN pass' = [pass EXCEPT ![p] =
               [Fresh EXCEPT !.at = "apply", !.dry = dry, !.ask = ask, !.alone = TRUE,
                             !.plan = IF dry THEN <<>> ELSE Picked(changes, {i \in DOMAIN changes : Writes(changes[i])}),
                             !.mined = [i \in DOMAIN mined |-> mined[i].id]]]
        ELSE Becomes(p, "failed")
  /\ UNCHANGED <<recorded, patterns, files, hands>>

\* Somebody wrote a pattern between this pass's plan and its writing of it.
Disturbed(pp, p) == [q \in Passes |-> IF q = p THEN pp[q] ELSE [pp[q] EXCEPT !.alone = FALSE]]

\* One pattern, by a rename over whatever is there.
Apply(p) ==
  /\ pass[p].at = "apply" /\ pass[p].plan # <<>>
  /\ LET change == Head(pass[p].plan)
     IN patterns' = [patterns EXCEPT ![change.id] = change.doc]
  /\ pass' = Disturbed([pass EXCEPT ![p].plan = Tail(@)], p)
  /\ UNCHANGED <<recorded, files, hands>>

-----------------------------------------------------------------------------
(***************************************************************************)
(* Proposing.                                                              *)
(***************************************************************************)
Named(p) == IF pass[p].ask.kind = "mined" THEN ToSet(pass[p].mined) ELSE pass[p].ask.ids
FromMining(p) ==
  LET mined == pass[p].mined IN Picked(mined, {i \in DOMAIN mined : mined[i] \in Named(p)})
FromVault(p) == Named(p) \ ToSet(pass[p].mined)

\* A pattern named on the command line and not mined by this pass has to be
\* in the vault and open.
Open(id) == id \in PatternIDs /\ patterns[id] # ABSENT /\ patterns[id].status = "open"

Want(p) ==
  /\ pass[p].at = "apply" /\ pass[p].plan = <<>>
  /\ LET wanted == FromMining(p) \o SetToSeq(FromVault(p))
     IN IF \E id \in FromVault(p) : ~ Open(id) THEN Becomes(p, "failed")
        ELSE IF pass[p].ask = Nothing \/ wanted = <<>> THEN Becomes(p, "done")
        ELSE pass' = [pass EXCEPT ![p].at = "topic", ![p].wanted = wanted]
  /\ UNCHANGED <<recorded, patterns, files, hands>>

\* The topic is written where it is not there yet.
NeedsTopic_Never(p) == FALSE
NeedsTopic(p) == ~ pass[p].dry /\ files[Topic] = ABSENT

WriteTopic(p) ==
  /\ pass[p].at = "topic"
  /\ pass' = [pass EXCEPT ![p].at = "number",
                          ![p].queue = IF NeedsTopic(p) THEN <<<<<<Topic, "subject">>>>>> ELSE <<>>]
  /\ UNCHANGED <<recorded, patterns, files, hands>>

\* The numbering is read once; it goes by names, whole or torn.
NextEditNumber == Max({0} \cup {n \in 1..EditNumberMax : files[Doc(n)] # ABSENT}) + 1
NewNumbering(p) ==
  /\ pass[p].at = "number" /\ pass[p].queue = <<>>
  /\ pass' = [pass EXCEPT ![p].at = "round", ![p].next = NextEditNumber]
  /\ UNCHANGED <<recorded, patterns, files, hands>>

\* The edits of one round are numbered in the order of the proposers, and each
\* is the files it is written to.
Content(p, pattern, i) == <<p, pattern, i>>
EditAt(p, pattern, proposals, i) ==
  LET it == proposals[i]
  IN [predicts |-> pattern, component |-> it.component, approval |-> it.approval,
      digest |-> IF it.sidecar THEN Content(p, pattern, i) ELSE <<>>]
WritesOf(p, pattern, proposals) ==
  [i \in DOMAIN proposals |->
    LET n == pass[p].next + i - 1
        document == <<Doc(n), EditAt(p, pattern, proposals, i)>>
    IN IF proposals[i].sidecar THEN <<document, <<Diff(n), Content(p, pattern, i)>>>>
       ELSE <<document>>]

\* A round of cmoa propose over the first pattern still wanted.
Round(p, answers) ==
  /\ pass[p].at = "round" /\ pass[p].queue = <<>> /\ pass[p].wanted # <<>>
  /\ LET kept == Picked(answers, {i \in DOMAIN answers : Converts(answers[i])})
         proposals == [i \in DOMAIN kept |-> Proposal(kept[i])]
     IN IF pass[p].next + Len(proposals) - 1 > EditNumberMax
        THEN Becomes(p, "failed")
        ELSE pass' = [pass EXCEPT
               ![p].wanted = Tail(@), ![p].next = @ + Len(proposals),
               ![p].queue = IF pass[p].dry THEN <<>> ELSE WritesOf(p, Head(pass[p].wanted), proposals)]
  /\ UNCHANGED <<recorded, patterns, files, hands>>

\* The render or the proposers fail, and the pass with them.
RoundFails(p) ==
  /\ pass[p].at \in {"topic", "round"} /\ pass[p].queue = <<>>
  /\ Becomes(p, "failed")
  /\ UNCHANGED <<recorded, patterns, files, hands>>

\* writeUnder: a file is created where there is none, then filled.
MayCreate_Any(f) == TRUE
MayCreate(f) == files[f] = ABSENT

\* The file written next, its name and its content; and what is left then.
File(p) == Head(Head(pass[p].queue))
Rest(p) ==
  LET edit == Head(pass[p].queue)
  IN IF Len(edit) = 1 THEN Tail(pass[p].queue) ELSE <<Tail(edit)>> \o Tail(pass[p].queue)

Create(p) ==
  /\ pass[p].at \in {"number", "round"} /\ pass[p].queue # <<>>
  /\ LET name == File(p)[1]
     IN IF MayCreate(name)
        THEN /\ files' = [files EXCEPT ![name] = Torn]
             /\ pass' = [pass EXCEPT ![p].at = IF @ = "number" THEN "fill topic" ELSE "fill"]
        ELSE Becomes(p, "failed") /\ UNCHANGED files
  /\ UNCHANGED <<recorded, patterns, hands>>

Fill(p) ==
  /\ pass[p].at \in {"fill topic", "fill"}
  /\ files' = [files EXCEPT ![File(p)[1]] = File(p)[2]]
  /\ pass' = [pass EXCEPT ![p].at = IF @ = "fill" THEN "round" ELSE "number", ![p].queue = Rest(p)]
  /\ UNCHANGED <<recorded, patterns, hands>>

Finish(p) ==
  /\ pass[p].at = "round" /\ pass[p].queue = <<>> /\ pass[p].wanted = <<>>
  /\ Becomes(p, "done")
  /\ UNCHANGED <<recorded, patterns, files, hands>>

-----------------------------------------------------------------------------
PassDies(p) ==
  /\ Working(p)
  /\ Becomes(p, "dead")
  /\ UNCHANGED <<recorded, patterns, files, hands>>

Record ==
  /\ recorded < Len(Recorded)
  /\ recorded' = recorded + 1
  /\ UNCHANGED <<patterns, files, pass, hands>>

\* People close a pattern, sharpen its reading, or spoil the document.
ByHand(id, doc) ==
  /\ hands < MaxHands
  /\ patterns[id] # ABSENT /\ doc # patterns[id]
  /\ patterns' = [patterns EXCEPT ![id] = doc]
  /\ pass' = [p \in Passes |-> [pass[p] EXCEPT !.alone = FALSE]]
  /\ hands' = hands + 1
  /\ UNCHANGED <<recorded, files>>
Hand(id) ==
  patterns[id] # ABSENT /\
  \/ ByHand(id, [patterns[id] EXCEPT !.status = "resolved"])
  \/ ByHand(id, [patterns[id] EXCEPT !.reading = "sharpened"])
  \/ ByHand(id, [patterns[id] EXCEPT !.status = "unreadable"])

PassStep(p) ==
  \/ \E dry \in BOOLEAN, ask \in Asks : StartPass(p, dry, ask)
  \/ Apply(p) \/ Want(p) \/ WriteTopic(p) \/ NewNumbering(p)
  \/ \E answers \in Answers : Round(p, answers)
  \/ RoundFails(p) \/ Create(p) \/ Fill(p) \/ Finish(p) \/ PassDies(p)

ImproveNext == (\E p \in Passes : PassStep(p)) \/ Record \/ \E id \in PatternIDs : Hand(id)
ImproveSpec == ImproveInit /\ [][ImproveNext]_improveVars

-----------------------------------------------------------------------------
(***************************************************************************)
(* Properties.                                                             *)
(***************************************************************************)
Observed(id) == {o \in Everything : PatternID(o.signature) = id}
Earned(id, runs) ==
  /\ Cardinality(runs) >= MinRuns
  /\ \A r \in runs : \E o \in Observed(id) : o.run = r /\ o.pool >= MinPool(o.signature[1])

\* What the vault has at the start cites nothing, or what it has earned.
EarnedBefore ==
  \A id \in DOMAIN Existing : Existing[id].evidence = {} \/ Earned(id, Existing[id].evidence)

\* A pattern cites only runs in which its own rule fired, enough of them,
\* and for a claim about the pool only runs that had one: whatever was
\* appended to it, by how many passes, and whoever else wrote it
\* (internal/mine/mine.go: "One occurrence is noise, and a vault full of
\* singletons is a vault nobody reads").
EvidenceIsEarned ==
  \A id \in PatternIDs : patterns[id] # ABSENT /\ patterns[id].evidence # {} =>
    Earned(id, patterns[id].evidence)

\* While nobody else writes between its plan and its writes, a pass only adds
\* sightings to open patterns: it never reopens one that was closed, nor
\* touches what a person made of it, nor a document it could not read.
AddsSightings(was, is) ==
  was.status = "open" /\ is.status = "open" /\ is.reading = was.reading /\ was.evidence \subseteq is.evidence

PassesOnlyAdd ==
  [][\A p \in Passes : pass[p].alone /\ Apply(p) =>
       \A id \in PatternIDs : patterns[id] \in {ABSENT, patterns'[id]}
                              \/ AddsSightings(patterns[id], patterns'[id])]_improveVars

\* A sidecar diff is the content of the edit whose number it carries, whoever
\* else was numbering at the time.
SidecarIsItsOwn ==
  \A n \in 1..EditNumberMax : files[Diff(n)] \notin {ABSENT, Torn} =>
    files[Doc(n)] \notin {ABSENT, Torn} /\ files[Doc(n)].digest = files[Diff(n)]

\* An edit predicts a pattern the vault has and is about a topic that is
\* there, wherever the pass that wrote it stopped.
EditsReferToWhatIsThere ==
  \A n \in 1..EditNumberMax : files[Doc(n)] \notin {ABSENT, Torn} =>
    patterns[files[Doc(n)].predicts] # ABSENT /\ files[Topic] # ABSENT

\* What cmd/uzushio/improve.go:309 says of a closed pattern: an edit can
\* only be proposed against an open one.  Here no pattern changes while the
\* pass is at work, so there is nothing it could have missed.
ProposesAgainstOpenPatterns ==
  [][\A n \in 1..EditNumberMax : files[Doc(n)] = Torn /\ files'[Doc(n)] # Torn =>
       Open(files'[Doc(n)].predicts)]_improveVars
=============================================================================
