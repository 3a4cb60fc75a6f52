------------------------------ MODULE EditRuns ------------------------------
(***************************************************************************)
(* Several `uzushio run`s of one edit, and the vault they write to         *)
(* (internal/loop/loop.go: Run, unmeasurable; internal/loop/record.go:     *)
(* writeHeader, record, writeDocument, apply, write): the run's header,    *)
(* one run document per split, then the edit's own document.  Each run is  *)
(* a process; it may die between any two of its writes, and inside one,    *)
(* because os.WriteFile truncates the file before it fills it.             *)
(***************************************************************************)
EXTENDS AcceptanceRule, Integers, Sequences, FiniteSetsExt

CONSTANTS
  Runs,
  LastSeq,  \* the last sequence number of a run document; 999 in the code
  Overlap   \* may two runs, or a run and a person, be at work at once?

ASSUME EditRunsAssumption ==
  /\ LastSeq \in Nat /\ Overlap \in BOOLEAN
  /\ \A other \in {"nobody", "person", "earlier"} : other \notin Runs

VARIABLES
  edit,     \* the edit's document
  docs,     \* the run documents of one day and pool: by split and sequence
  header,   \* per run: run.json
  pc,       \* per run: its next step
  results,  \* per run: what became of its splits
  due,     \* per run: the splits it has still to document
  seq,      \* per run: the sequence number it found free
  approval, \* per run: the approval of the edit as it read it
  author    \* who moved the edit last

vars == <<edit, docs, header, pc, results, due, seq, approval, author>>

NoDocument == [by |-> "nobody", verdict |-> "none", validates |-> FALSE]
Earlier    == [by |-> "earlier", verdict |-> "inconclusive", validates |-> TRUE]
NoHeader   == [state |-> "absent", promote |-> FALSE]
Nothing    == [split \in SplitNames |-> "none"]

\* proposeedit writes approval auto for an auto-accept surface, and a person
\* writing an edit by hand is given approval human.  Runs that could not tell
\* may have used the day's first names up, or all of them.
Init ==
  /\ \E autonomy \in Autonomies, word \in {"human", "auto"} :
       /\ word = "auto" => autonomy = "auto-accept"
       /\ edit = [autonomy |-> autonomy, status |-> "proposed", approval |-> word]
  /\ \E used \in 0..(LastSeq + 1) :
       docs = [split \in SplitNames |->
                 [n \in 0..LastSeq |-> IF n < used THEN Earlier ELSE NoDocument]]
  /\ header = [r \in Runs |-> NoHeader]
  /\ pc = [r \in Runs |-> "idle"]
  /\ results = [r \in Runs |-> Nothing]
  /\ due = [r \in Runs |-> <<>>]
  /\ seq = [r \in Runs |-> 0]
  /\ approval = [r \in Runs |-> "human"]
  /\ author = "nobody"

Stopped == {"done", "refused", "failed", "crashed"}
Active(r) == pc[r] \notin Stopped \cup {"idle"}
Goto(r, step) == pc' = [pc EXCEPT ![r] = step]

-----------------------------------------------------------------------------
(***************************************************************************)
(* Run: the gate, the measurement, and the header that is written first.   *)
(***************************************************************************)

\* readEdit and refuse.
Start(r) ==
  /\ pc[r] = "idle"
  /\ Overlap \/ \A q \in Runs : ~Active(q)
  /\ IF edit.status = "proposed"
     THEN Goto(r, "measure") /\ approval' = [approval EXCEPT ![r] = edit.approval]
     ELSE Goto(r, "refused") /\ UNCHANGED approval
  /\ UNCHANGED <<edit, docs, header, results, due, seq, author>>

\* The splits that ran: a document is owed for each.
Ran(outcome) == IF outcome["held_out"] = "not_run" THEN <<"held_in">> ELSE Splits

\* Both splits measured, or held-in alone when it regressed.
Measurements ==
  {outcome \in [SplitNames -> Results] :
     /\ outcome["held_in"] # "not_run"
     /\ outcome["held_out"] = "not_run" <=> outcome["held_in"] = "regress"}

Measure(r) ==
  /\ pc[r] = "measure"
  /\ \E outcome \in Measurements :
       /\ results' = [results EXCEPT ![r] = outcome]
       /\ due' = [due EXCEPT ![r] = Ran(outcome)]
       /\ header' = [header EXCEPT ![r] =
                       [state |-> "complete", promote |-> Promoted(outcome)]]
  /\ Goto(r, "stat")
  /\ UNCHANGED <<edit, docs, seq, approval, author>>

\* An outage: the header is written and the run ends in error.
Abort(r) ==
  /\ pc[r] = "measure"
  /\ header' = [header EXCEPT ![r] = [state |-> "complete", promote |-> FALSE]]
  /\ Goto(r, "failed")
  /\ UNCHANGED <<edit, docs, results, due, seq, approval, author>>

\* unmeasurable: the candidate does not apply to the baseline.  Its documents
\* come before its header, and it decides nothing.
Unmeasurable(r) ==
  /\ pc[r] = "measure"
  /\ results' = [results EXCEPT ![r] = [split \in SplitNames |-> "unmeasured"]]
  /\ due' = [due EXCEPT ![r] = Splits]
  /\ Goto(r, "stat")
  /\ UNCHANGED <<edit, docs, header, seq, approval, author>>

-----------------------------------------------------------------------------
(***************************************************************************)
(* record and writeDocument: the first free sequence number is looked up,  *)
(* and then the file of that name is written, over whatever is there.      *)
(***************************************************************************)
\* Mutant: the directory is not looked at.
FreeSeqs_Unchecked(split) == 0..LastSeq

FreeSeqs(split) == {n \in 0..LastSeq : docs[split][n] = NoDocument}

StatDocument(r) ==
  /\ pc[r] = "stat" /\ due[r] # <<>>
  /\ LET free == FreeSeqs(Head(due[r]))
     IN  IF free = {}
         THEN Goto(r, "failed") /\ UNCHANGED seq
         ELSE Goto(r, "document") /\ seq' = [seq EXCEPT ![r] = Min(free)]
  /\ UNCHANGED <<edit, docs, header, results, due, approval, author>>

WriteDocument(r) ==
  /\ pc[r] = "document"
  /\ LET split  == Head(due[r])
         result == results[r][split]
     IN  docs' = [docs EXCEPT ![split][seq[r]] =
                    [by |-> r, verdict |-> VerdictOf(result),
                     validates |-> result # "unmeasured"]]
  /\ due' = [due EXCEPT ![r] = Tail(@)]
  /\ Goto(r, "stat")
  /\ UNCHANGED <<edit, header, results, seq, approval, author>>

-----------------------------------------------------------------------------
(***************************************************************************)
(* apply and write: the status transition.                                 *)
(***************************************************************************)
Target(r) ==
  LET status == StatusAfter(results[r], edit.autonomy, "proposed")
  IN  [status |-> status, approval |-> IF status = "accepted" THEN "auto" ELSE approval[r]]
Moves(r) == Target(r).status # "proposed"

LeaveEdit(r) ==
  /\ pc[r] = "stat" /\ due[r] = <<>> /\ ~Moves(r)
  /\ Goto(r, "header")
  /\ UNCHANGED <<edit, docs, header, results, due, seq, approval, author>>

\* Mutant: the edit is moved before the run's documents are written.
ReadEdit_BeforeDocuments(r) ==
  /\ pc[r] = "stat" /\ Moves(r)
  /\ Goto(r, IF edit.status = "torn" THEN "failed" ELSE "truncate")
  /\ UNCHANGED <<edit, docs, header, results, due, seq, approval, author>>

\* The document is read again for its text: its status is not looked at.
ReadEdit(r) ==
  /\ pc[r] = "stat" /\ due[r] = <<>> /\ Moves(r)
  /\ Goto(r, IF edit.status = "torn" THEN "failed" ELSE "truncate")
  /\ UNCHANGED <<edit, docs, header, results, due, seq, approval, author>>

Truncate(r) ==
  /\ pc[r] = "truncate"
  /\ edit' = [edit EXCEPT !.status = "torn"]
  /\ Goto(r, "fill")
  /\ UNCHANGED <<docs, header, results, due, seq, approval, author>>

Fill(r) ==
  /\ pc[r] = "fill"
  /\ edit' = [edit EXCEPT !.status = Target(r).status, !.approval = Target(r).approval]
  /\ author' = r
  /\ Goto(r, "header")
  /\ UNCHANGED <<docs, header, results, due, seq, approval>>

\* The last writeHeader, with the transition; unmeasurable's only one.
TruncateHeader(r) ==
  /\ pc[r] = "header"
  /\ header' = [header EXCEPT ![r].state = "torn"]
  /\ Goto(r, "refill")
  /\ UNCHANGED <<edit, docs, results, due, seq, approval, author>>

FillHeader(r) ==
  /\ pc[r] = "refill"
  /\ header' = [header EXCEPT ![r].state = "complete"]
  /\ Goto(r, "done")
  /\ UNCHANGED <<edit, docs, results, due, seq, approval, author>>

\* The process dies, or a call of its own fails.
Crash(r) ==
  /\ Active(r)
  /\ Goto(r, "crashed")
  /\ UNCHANGED <<edit, docs, header, results, due, seq, approval, author>>

\* A person edits the document.
PersonDecides ==
  /\ edit.status = "proposed"
  /\ Overlap \/ \A q \in Runs : ~Active(q)
  /\ \E status \in {"accepted", "rejected", "withdrawn"} :
       edit' = [edit EXCEPT !.status = status, !.approval = "human"]
  /\ author' = "person"
  /\ UNCHANGED <<docs, header, pc, results, due, seq, approval>>

RunStep(r) ==
  \/ Start(r) \/ Measure(r) \/ Abort(r) \/ Unmeasurable(r)
  \/ StatDocument(r) \/ WriteDocument(r)
  \/ LeaveEdit(r) \/ ReadEdit(r) \/ Truncate(r) \/ Fill(r)
  \/ TruncateHeader(r) \/ FillHeader(r) \/ Crash(r)

Next == (\E r \in Runs : RunStep(r)) \/ PersonDecides

Spec == Init /\ [][Next]_vars

-----------------------------------------------------------------------------
(***************************************************************************)
(* Properties                                                              *)
(***************************************************************************)

Steps == {"idle", "measure", "stat", "document", "truncate", "fill", "header",
          "refill"} \cup Stopped
EditStatuses == {"proposed", "accepted", "rejected", "withdrawn", "torn"}
Documents == [by : Runs, verdict : Verdicts, validates : BOOLEAN] \cup {NoDocument, Earlier}

\* Every variable stays in its range.
TypeOK ==
  /\ edit \in [autonomy : Autonomies, status : EditStatuses, approval : {"human", "auto"}]
  /\ docs \in [SplitNames -> [0..LastSeq -> Documents]]
  /\ header \in [Runs -> [state : {"absent", "complete", "torn"}, promote : BOOLEAN]]
  /\ pc \in [Runs -> Steps]
  /\ results \in [Runs -> [SplitNames -> Results] \cup {Nothing}]
  /\ due \in [Runs -> {<<>>, <<"held_in">>, <<"held_out">>, Splits}]
  /\ seq \in [Runs -> 0..LastSeq]
  /\ approval \in [Runs -> {"human", "auto"}]
  /\ author \in Runs \cup {"nobody", "person"}

\* What the vault's projections read off the validates edges.
Validating(split, verdicts) ==
  \E n \in 0..LastSeq : /\ docs[split][n].validates
                        /\ docs[split][n].verdict \in verdicts
NotRegressed(split) == Validating(split, {"improve", "hold"})
Improved == \E split \in SplitNames : Validating(split, {"improve"})

\* The status a run writes never breaks the vault's rules: an accepted edit
\* has a non-regressing run on each split and a strict gain on one, is no
\* propose-only surface, and names a person unless the surface accepts
\* itself; a rejected one has a run that says why (vault.go, uzushioRules).
DecisionsPassTheVault ==
  author \in Runs =>
    /\ edit.status = "accepted" =>
         /\ \A split \in SplitNames : NotRegressed(split)
         /\ Improved
         /\ edit.autonomy = "auto-accept"
         /\ header[author].promote
    /\ edit.status = "rejected" =>
         \E split \in SplitNames : Validating(split, {"regress"})

\* "A run may not be retargeted or deleted": no run document is ever written
\* over (vault.go, the append-only kinds; record.go, writeDocument).
DocumentsAreAppendOnly ==
  [][\A split \in SplitNames, n \in 0..LastSeq :
       docs[split][n] # NoDocument => docs'[split][n] = docs[split][n]]_vars

\* The history of the edit's document is one of EditLifecycle's: a run files
\* its documents first and decides once, on what it filed.
Documented(r) ==
  /\ results[r] # Nothing
  /\ \A split \in SplitNames : results[r][split] # "not_run" =>
       \E n \in 0..LastSeq : docs[split][n].by = r
Lifecycle == INSTANCE EditLifecycle WITH
  autonomy <- edit.autonomy,
  status   <- IF edit.status # "torn" THEN edit.status
              ELSE IF \E r \in Runs : pc[r] = "fill" THEN "proposed" ELSE "damaged",
  filed    <- [r \in Runs |-> IF Documented(r) THEN results[r] ELSE Nothing]
ImplementsLifecycle == Lifecycle!LifeSpec

\* "[...] never accepted or rejected with no record behind it" (README, run):
\* whatever a run decided, the documents it decided on are in the vault.
DecisionHasItsDocuments == author \in Runs => Documented(author)

\* "A run measures a proposal, and a decision that has already been made is
\* not one" (loop.go, refuse): a decided edit is not decided again.
DecidedOnce ==
  [][edit.status \in {"accepted", "rejected", "withdrawn"} => edit' = edit]_vars
=============================================================================
