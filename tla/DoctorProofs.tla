---------------------------- MODULE DoctorProofs ----------------------------
(***************************************************************************)
(* Theorems about DoctorCheck, for any number of checks and directories,   *)
(* whatever their selectors, however their verifications end and however   *)
(* often the verifier is edited.                                           *)
(***************************************************************************)
EXTENDS DoctorCheck, MutantSuite, FiniteSetTheorems, TLAPS

Labels == References \cup MutantLabels
Results == UNION {[labels -> Statuses] : labels \in SUBSET Labels}

\* What a check is from its beginning to its report.
Idle == [pc : {"idle", "refused", "dead"}]
Running == [pc : {"verifying"}, dir : Dirs, at : DOMAIN Environments, running : SUBSET Labels,
            cancelled : BOOLEAN, rows : Rows]
Reported == [pc : {"written"}, at : DOMAIN Environments, rows : Rows, running : {{}},
             verdict : {"healthy", "unhealthy", "inconclusive"}, noted : SUBSET Labels]

Typed ==
  /\ env \in DOMAIN Environments /\ edits \in 0..MaxEdits
  /\ fs \in [Dirs -> [results : Results, report : Checks \cup {NoCheck}]]
  /\ chk \in [Checks -> Idle \cup Running \cup Reported]

Waiting(rows) == {label \in DOMAIN rows : rows[label].status = Unanswered}

\* What these rows say passed or failed is in these results.
Agree(rows, results) ==
  \A label \in DOMAIN rows :
    rows[label].from = NoCheck /\ rows[label].status \in {"pass", "fail"} =>
      label \in DOMAIN results /\ results[label] = rows[label].status

\* The rows a check reuses are those of written checks of the same verifier.
Traced(checks, rows, at) ==
  \A label \in DOMAIN rows : rows[label].from # NoCheck =>
    LET by == rows[label].from
    IN /\ by \in Checks /\ checks[by].pc = "written" /\ label \in DOMAIN checks[by].rows
       /\ checks[by].rows[label] = [rows[label] EXCEPT !.from = NoCheck]
       /\ Fingerprint(Environments[checks[by].at]) = Fingerprint(Environments[at])

\* A check that verifies works on rows that wait, and its answers are on disk.
RunningTrue ==
  \A c \in Checks : chk[c].pc = "verifying" =>
    /\ chk[c].running \subseteq Waiting(chk[c].rows)
    /\ Agree(chk[c].rows, fs[chk[c].dir].results)

\* A written check is answered, and concluded what its rows say.
WrittenTrue ==
  \A c \in Checks : chk[c].pc = "written" =>
    Waiting(chk[c].rows) = {} /\ chk[c].verdict = Verdict(chk[c].rows)

\* A report is of a written check, and its answers are on disk.
ReportsTrue ==
  \A d \in Dirs : fs[d].report # NoCheck =>
    /\ chk[fs[d].report].pc = "written"
    /\ Agree(chk[fs[d].report].rows, fs[d].results)

ReuseTrue ==
  \A c \in Checks : chk[c].pc \in {"verifying", "written"} => Traced(chk, chk[c].rows, chk[c].at)

\* Results are only added, and where a report is replaced it is by that of c,
\* which answers for it.
Files == [Dirs -> [results : Results, report : Checks \cup {NoCheck}]]
Grown(old, now) ==
  \A d \in Dirs : \A label \in DOMAIN old[d].results :
    label \in DOMAIN now[d].results /\ now[d].results[label] = old[d].results[label]
Replaced(old, now, c, new) ==
  \A d \in Dirs : \/ now[d].report = old[d].report
                 \/ /\ now[d].report = c /\ new.pc = "written"
                    /\ Agree(new.rows, now[d].results)

\* What the invariant asks of one check.
Sound(checks, dirs, new) ==
  /\ new.pc = "verifying" => /\ new.running \subseteq Waiting(new.rows)
                             /\ Agree(new.rows, dirs[new.dir].results)
  /\ new.pc = "written" => Waiting(new.rows) = {} /\ new.verdict = Verdict(new.rows)
  /\ new.pc \in {"verifying", "written"} => Traced(checks, new.rows, new.at)

IInv == Typed /\ RunningTrue /\ WrittenTrue /\ ReportsTrue /\ ReuseTrue

-----------------------------------------------------------------------------
(***************************************************************************)
(* The invariant                                                           *)
(***************************************************************************)

\* Nothing has begun.
LEMMA InitIInv == Init => IInv
<1> SUFFICES ASSUME Init PROVE IInv
  OBVIOUS
<1>1. <<>> \in Results
  <2>1. <<>> \in [{} -> Statuses]
    OBVIOUS
  <2> QED
    BY <2>1 DEF Results
<1>2. env \in DOMAIN Environments /\ edits \in 0..MaxEdits
  BY DoctorAssumption DEF Init
<1>3. Typed
  BY <1>1, <1>2 DEF Init, Typed, NotStarted, Idle
<1> QED
  BY <1>3 DEF Init, NotStarted, IInv, RunningTrue, WrittenTrue, ReportsTrue, ReuseTrue

\* One check moves on, as long as it is not written yet, and results are only
\* added: what the invariant says of the others stays.
LEMMA CheckMoves ==
  ASSUME IInv, NEW c \in Checks, chk[c].pc # "written",
         NEW new \in Idle \cup Running \cup Reported, chk' = [chk EXCEPT ![c] = new],
         UNCHANGED <<env, edits>>, fs' \in Files, Grown(fs, fs'),
         Replaced(fs, fs', c, new), Sound(chk, fs', new)
  PROVE  IInv'
<1>1. /\ chk \in [Checks -> Idle \cup Running \cup Reported]
      /\ fs \in [Dirs -> [results : Results, report : Checks \cup {NoCheck}]]
  BY DEF IInv, Typed
<1>2. /\ chk' \in [Checks -> Idle \cup Running \cup Reported] /\ chk'[c] = new
      /\ \A b \in Checks : b # c => chk'[b] = chk[b]
  BY <1>1
<1>3. Typed'
  BY <1>2 DEF IInv, Typed, Files
<1>4. \A d \in Dirs : \A rows : Agree(rows, fs[d].results) => Agree(rows, fs'[d].results)
  BY DEF Agree, Grown
<1>5. \A b \in Checks : chk[b].pc = "written" => chk'[b] = chk[b]
  BY <1>2
<1>6. \A rows, at : Traced(chk, rows, at) => Traced(chk', rows, at)
  BY <1>5 DEF Traced
<1>7. RunningTrue'
  <2> SUFFICES ASSUME NEW b \in Checks, chk'[b].pc = "verifying"
               PROVE  /\ chk'[b].running \subseteq Waiting(chk'[b].rows)
                      /\ Agree(chk'[b].rows, fs'[chk'[b].dir].results)
    BY DEF RunningTrue, Waiting, Agree
  <2>1. CASE b = c
    BY <1>2, <2>1 DEF Sound
  <2>2. CASE b # c
    <3>1. chk'[b] = chk[b] /\ chk[b] \in Running
      BY <1>1, <1>2, <2>2 DEF Idle, Running, Reported
    <3>2. chk[b].dir \in Dirs
      BY <3>1 DEF Running
    <3> QED
      BY <1>4, <3>1, <3>2 DEF IInv, RunningTrue
  <2> QED
    BY <2>1, <2>2
<1>8. WrittenTrue'
  <2> SUFFICES ASSUME NEW b \in Checks, chk'[b].pc = "written"
               PROVE  Waiting(chk'[b].rows) = {} /\ chk'[b].verdict = Verdict(chk'[b].rows)
    BY DEF WrittenTrue
  <2> QED
    BY <1>2 DEF IInv, WrittenTrue, Sound
<1>9. ReportsTrue'
  <2> SUFFICES ASSUME NEW d \in Dirs, fs'[d].report # NoCheck
               PROVE  /\ chk'[fs'[d].report].pc = "written"
                      /\ Agree(chk'[fs'[d].report].rows, fs'[d].results)
    BY DEF ReportsTrue
  <2>1. CASE fs'[d].report = fs[d].report
    <3>1. fs[d].report \in Checks /\ chk[fs[d].report].pc = "written"
            /\ Agree(chk[fs[d].report].rows, fs[d].results)
      BY <1>1, <2>1 DEF IInv, ReportsTrue
    <3>2. chk'[fs[d].report] = chk[fs[d].report] /\ fs'[d].report = fs[d].report
      BY <1>5, <2>1, <3>1
    <3>3. Agree(chk[fs[d].report].rows, fs'[d].results)
      BY <1>4, <3>1
    <3> QED
      BY <3>1, <3>2, <3>3
  <2>2. CASE fs'[d].report = c /\ new.pc = "written" /\ Agree(new.rows, fs'[d].results)
    BY <1>2, <2>2
  <2> QED
    BY <2>1, <2>2 DEF Replaced
<1>10. ReuseTrue'
  <2> SUFFICES ASSUME NEW b \in Checks, chk'[b].pc \in {"verifying", "written"}
               PROVE  Traced(chk', chk'[b].rows, chk'[b].at)
    BY DEF ReuseTrue
  <2>1. Traced(chk, chk'[b].rows, chk'[b].at)
    BY <1>2 DEF IInv, ReuseTrue, Sound
  <2> QED
    BY <1>6, <2>1
<1> QED
  BY <1>3, <1>7, <1>8, <1>9, <1>10 DEF IInv

\* The rows of a check are kept under labels, and there are finitely many.
LEMMA RowsAre ==
  ASSUME NEW rows \in Rows
  PROVE  /\ DOMAIN rows \subseteq Labels /\ rows \in [DOMAIN rows -> Row]
         /\ IsFiniteSet(DOMAIN rows)
<1>1. PICK labels \in SUBSET Labels : rows \in [labels -> Row]
  BY DEF Rows, Labels
<1>2. IsFiniteSet(References)
  <2>1. IsFiniteSet(1..ReferenceRuns)
    BY DoctorAssumption, FS_Interval
  <2>2. [i \in 1..ReferenceRuns |-> Reference(i)] \in Surjection(1..ReferenceRuns, References)
    BY DEF References, Surjection
  <2> QED
    BY <2>1, <2>2, FS_Surjection
<1>3. IsFiniteSet(MutantLabels)
  <2>1. DOMAIN Mutants = 1..Len(Mutants) /\ Len(Mutants) \in Nat
    BY DoctorAssumption
  <2>2. IsFiniteSet(DOMAIN Mutants)
    BY <2>1, FS_Interval
  <2>3. [i \in DOMAIN Mutants |-> Mutant(i)] \in Surjection(DOMAIN Mutants, MutantLabels)
    BY DEF MutantLabels, Surjection
  <2> QED
    BY <2>2, <2>3, FS_Surjection
<1>4. IsFiniteSet(Labels)
  BY <1>2, <1>3, FS_Union DEF Labels
<1> QED
  BY <1>1, <1>4, FS_Subset

\* A row may be replaced by a row.
LEMMA RowReplaced ==
  ASSUME NEW rows \in Rows, NEW label \in DOMAIN rows, NEW row \in Row
  PROVE  /\ [rows EXCEPT ![label] = row] \in Rows
         /\ DOMAIN [rows EXCEPT ![label] = row] = DOMAIN rows
         /\ [rows EXCEPT ![label] = row][label] = row
         /\ \A other \in DOMAIN rows : other # label => [rows EXCEPT ![label] = row][other] = rows[other]
<1>1. PICK labels \in SUBSET Labels : rows \in [labels -> Row]
  BY DEF Rows, Labels
<1>2. [rows EXCEPT ![label] = row] \in [labels -> Row]
  BY <1>1
<1> QED
  BY <1>1, <1>2 DEF Rows, Labels

\* A check at work.
LEMMA RunningCheck ==
  ASSUME IInv, NEW c \in Checks, Verifying(c)
  PROVE  /\ chk[c] \in Running /\ chk[c].pc # "written" /\ Open(c) = Waiting(chk[c].rows)
         /\ chk[c].running \subseteq Waiting(chk[c].rows)
         /\ Agree(chk[c].rows, fs[chk[c].dir].results)
         /\ Traced(chk, chk[c].rows, chk[c].at)
<1>1. chk[c].pc = "verifying"
  BY DEF Verifying
<1>2. chk[c] \in Running
  BY <1>1 DEF IInv, Typed, Idle, Reported
<1> QED
  BY <1>1, <1>2 DEF IInv, RunningTrue, ReuseTrue, Open, Waiting

\* What is laid over what: reused rows that are traced, and new ones that say
\* nothing yet.
LEMMA RowsTogether ==
  ASSUME NEW reused, NEW planned, NEW checks, NEW at,
         reused \in [DOMAIN reused -> Row], DOMAIN reused \subseteq Labels,
         \A label \in DOMAIN reused : reused[label].from # NoCheck,
         Traced(checks, reused, at),
         planned \in [DOMAIN planned -> Row], DOMAIN planned \subseteq Labels,
         \A label \in DOMAIN planned :
           planned[label].from = NoCheck /\ planned[label].status \notin {"pass", "fail"}
  PROVE  /\ Over(reused, planned) \in Rows
         /\ \A results : Agree(Over(reused, planned), results)
         /\ Traced(checks, Over(reused, planned), at)
<1> DEFINE rows == Over(reused, planned)
<1>1. rows = [label \in DOMAIN reused \cup DOMAIN planned |->
                IF label \in DOMAIN reused THEN reused[label] ELSE planned[label]]
  BY DEF Over
<1> HIDE DEF rows
<1>2. rows \in [DOMAIN reused \cup DOMAIN planned -> Row]
  BY <1>1
<1>3. rows \in Rows
  BY <1>2 DEF Rows, Labels
<1>4. \A label \in DOMAIN rows :
        \/ label \in DOMAIN reused /\ rows[label] = reused[label]
        \/ label \in DOMAIN planned /\ rows[label] = planned[label]
  BY <1>1
<1>5. \A results : Agree(rows, results)
  <2> SUFFICES ASSUME NEW results, NEW label \in DOMAIN rows
               PROVE  ~(rows[label].from = NoCheck /\ rows[label].status \in {"pass", "fail"})
    BY DEF Agree
  <2> QED
    BY <1>4
<1>6. Traced(checks, rows, at)
  <2> SUFFICES ASSUME NEW label \in DOMAIN rows, rows[label].from # NoCheck
               PROVE  label \in DOMAIN reused /\ rows[label] = reused[label]
    BY DEF Traced
  <2> QED
    BY <1>4
<1> QED
  BY <1>3, <1>5, <1>6 DEF rows

\* What a check begins with: nothing it is to verify has passed or failed,
\* and what it reuses a written check of the same verifier measured.
LEMMA BeginRows ==
  ASSUME IInv, NEW only, NEW earlier \in Written \cup {NoCheck},
         earlier # NoCheck =>
           Fingerprint(Environments[chk[earlier].at]) = Fingerprint(Environments[env]),
         NEW reused, NEW planned,
         reused = IF earlier # NoCheck THEN Reused(earlier, chk[earlier].rows) ELSE <<>>,
         planned = [label \in Planned(only, earlier # NoCheck) |-> NewRow(label)]
  PROVE  /\ Over(reused, planned) \in Rows
         /\ \A results : Agree(Over(reused, planned), results)
         /\ Traced(chk, Over(reused, planned), env)
<1>1. /\ planned \in [DOMAIN planned -> Row] /\ DOMAIN planned \subseteq Labels
      /\ \A label \in DOMAIN planned :
           planned[label].from = NoCheck /\ planned[label].status \notin {"pass", "fail"}
  <2>1. DOMAIN planned \subseteq Labels
    BY DEF Planned, Labels
  <2>2. \A label : /\ NewRow(label) \in Row /\ NewRow(label).from = NoCheck
                   /\ NewRow(label).status \notin {"pass", "fail"}
    BY DEF NewRow, Row, Statuses, Unanswered
  <2> QED
    BY <2>1, <2>2
<1>2. /\ reused \in [DOMAIN reused -> Row] /\ DOMAIN reused \subseteq Labels
      /\ \A label \in DOMAIN reused :
           /\ reused[label].from # NoCheck
           /\ LET by == reused[label].from
              IN /\ by \in Checks /\ chk[by].pc = "written" /\ label \in DOMAIN chk[by].rows
                 /\ chk[by].rows[label] = [reused[label] EXCEPT !.from = NoCheck]
                 /\ Fingerprint(Environments[chk[by].at]) = Fingerprint(Environments[env])
  <2>1. CASE earlier = NoCheck
    BY <2>1
  <2>2. CASE earlier # NoCheck
    <3> DEFINE all == chk[earlier].rows
    <3>1. earlier \in Checks /\ chk[earlier].pc = "written"
      BY <2>2 DEF Written, IInv, Typed, ReportsTrue
    <3>2. chk[earlier] \in Reported
      BY <3>1 DEF IInv, Typed, Idle, Running
    <3>3. all \in Rows /\ Traced(chk, all, chk[earlier].at)
      BY <3>1, <3>2 DEF Reported, IInv, ReuseTrue
    <3>4. /\ DOMAIN reused = {label \in DOMAIN all : ~IsMutant(label)}
          /\ reused = [label \in DOMAIN reused |->
               [all[label] EXCEPT !.from = IF @ = NoCheck THEN earlier ELSE @]]
      BY <2>2 DEF Reused, ReferenceRows, Restrict
    <3>5. DOMAIN all \subseteq Labels /\ all \in [DOMAIN all -> Row]
      BY <3>3, RowsAre
    <3> HIDE DEF all
    <3>6. SUFFICES ASSUME NEW label \in DOMAIN reused
                   PROVE  /\ reused[label] \in Row /\ reused[label].from # NoCheck
                          /\ LET by == reused[label].from
                             IN /\ by \in Checks /\ chk[by].pc = "written" /\ label \in DOMAIN chk[by].rows
                                /\ chk[by].rows[label] = [reused[label] EXCEPT !.from = NoCheck]
                                /\ Fingerprint(Environments[chk[by].at]) = Fingerprint(Environments[env])
      BY <3>4, <3>5
    <3>7. /\ label \in DOMAIN all /\ all[label] \in Row
          /\ reused[label] = [all[label] EXCEPT !.from = IF @ = NoCheck THEN earlier ELSE @]
      BY <3>4, <3>5
    <3> DEFINE row == all[label]
    <3>8. row \in [from : Checks \cup {NoCheck}, status : Statuses \cup {Unanswered}]
      BY <3>7 DEF Row
    <3>9. CASE row.from = NoCheck
      <4>1. reused[label] = [row EXCEPT !.from = earlier]
        BY <3>7, <3>9
      <4>2. reused[label] \in Row /\ reused[label].from = earlier
              /\ [reused[label] EXCEPT !.from = NoCheck] = row
        BY <3>1, <3>8, <3>9, <4>1 DEF Row
      <4> QED
        BY <2>2, <3>1, <3>7, <4>2 DEF all
    <3>10. CASE row.from # NoCheck
      <4>1. reused[label] = row
        BY <3>7, <3>8, <3>10
      <4> QED
        BY <2>2, <3>3, <3>7, <3>10, <4>1 DEF Traced
    <3> QED
      BY <3>9, <3>10
  <2> QED
    BY <2>1, <2>2
<1>3. Traced(chk, reused, env)
  BY <1>2 DEF Traced
<1> QED
  BY <1>1, <1>2, <1>3, RowsTogether

\* A check that begins.
LEMMA BeginKeeps ==
  ASSUME IInv, NEW c \in Checks, NEW d \in Dirs, NEW only,
         NEW earlier \in Written \cup {NoCheck}, Begin(c, d, only, earlier)
  PROVE  IInv'
<1>1. chk[c].pc # "written" /\ UNCHANGED <<env, edits, fs>>
  BY DEF Begin
<1>2. /\ env \in DOMAIN Environments
      /\ fs' \in Files /\ Grown(fs, fs') /\ \A new : Replaced(fs, fs', c, new)
  BY <1>1 DEF IInv, Typed, Files, Grown, Replaced
<1>3. CASE Refuse(c)
  <2> DEFINE new == [pc |-> "refused"]
  <2>1. new \in Idle /\ Sound(chk, fs', new)
    BY DEF Idle, Sound
  <2>2. chk' = [chk EXCEPT ![c] = new]
    BY <1>3 DEF Refuse
  <2> HIDE DEF new
  <2> QED
    BY <1>1, <1>2, <2>1, <2>2, CheckMoves
<1>4. CASE ~Refuse(c)
  <2> DEFINE reused == IF earlier # NoCheck THEN Reused(earlier, chk[earlier].rows) ELSE <<>>
             planned == [label \in Planned(only, earlier # NoCheck) |-> NewRow(label)]
             rows == Over(reused, planned)
             new == [pc |-> "verifying", dir |-> d, at |-> env, running |-> {},
                     cancelled |-> FALSE, rows |-> rows]
  <2>1. /\ chk' = [chk EXCEPT ![c] = new]
        /\ earlier # NoCheck =>
             Fingerprint(Environments[chk[earlier].at]) = Fingerprint(Environments[env])
    BY <1>4 DEF Begin
  <2>2. /\ rows \in Rows /\ \A results : Agree(rows, results)
        /\ Traced(chk, rows, env)
    BY <2>1, BeginRows
  <2> HIDE DEF rows
  <2>3. /\ new \in Running /\ new.pc = "verifying" /\ new.running = {} /\ new.rows = rows
        /\ new.at = env /\ new.dir = d
    BY <1>2, <2>2 DEF Running
  <2> HIDE DEF new
  <2>4. Sound(chk, fs', new)
    BY <2>2, <2>3 DEF Sound
  <2> QED
    BY <1>1, <1>2, <2>1, <2>3, <2>4, CheckMoves
<1> QED
  BY <1>3, <1>4

\* A check that runs one verification more.
LEMMA LaunchKeeps ==
  ASSUME IInv, NEW c \in Checks, Launch(c)
  PROVE  IInv'
<1>1. Verifying(c) /\ UNCHANGED <<env, edits, fs>>
  BY DEF Launch
<1>2. PICK label \in Open(c) : chk' = [chk EXCEPT ![c].running = @ \cup {label}]
  BY DEF Launch
<1>3. /\ chk[c] \in Running /\ chk[c].pc # "written" /\ label \in Waiting(chk[c].rows)
      /\ chk[c].running \subseteq Waiting(chk[c].rows)
      /\ Agree(chk[c].rows, fs[chk[c].dir].results)
      /\ Traced(chk, chk[c].rows, chk[c].at)
  BY <1>1, <1>2, RunningCheck
<1> DEFINE new == [chk[c] EXCEPT !.running = @ \cup {label}]
<1>4. chk' = [chk EXCEPT ![c] = new]
  BY <1>2
<1>5. label \in Labels
  BY <1>3, RowsAre DEF Running, Waiting
<1>6. /\ new \in Running /\ new.pc = "verifying" /\ new.running = chk[c].running \cup {label}
      /\ new.rows = chk[c].rows /\ new.at = chk[c].at /\ new.dir = chk[c].dir
  BY <1>3, <1>5 DEF Running
<1>7. fs' \in Files /\ Grown(fs, fs') /\ Replaced(fs, fs', c, new)
  BY <1>1 DEF IInv, Typed, Files, Grown, Replaced
<1> HIDE DEF new
<1>8. Sound(chk, fs', new)
  BY <1>1, <1>3, <1>6 DEF Sound
<1> QED
  BY <1>1, <1>3, <1>4, <1>6, <1>7, <1>8, CheckMoves

\* What verifications leave is never written again: cmoa verify does not run
\* over an existing result.
LEMMA AnswerWrites ==
  ASSUME IInv, NEW c \in Checks, NEW label, NEW ending, Answer(c, label, ending)
  PROVE  /\ fs' \in [Dirs -> [results : Results, report : Checks \cup {NoCheck}]]
         /\ \A d \in Dirs :
              /\ fs'[d].report = fs[d].report
              /\ \A other \in DOMAIN fs[d].results :
                   other \in DOMAIN fs'[d].results /\ fs'[d].results[other] = fs[d].results[other]
         /\ StatusOf(ending) \in {"pass", "fail"} =>
              /\ label \in DOMAIN fs'[chk[c].dir].results
              /\ fs'[chk[c].dir].results[label] = StatusOf(ending)
<1> DEFINE d == chk[c].dir
           Dir == [results : Results, report : Checks \cup {NoCheck}]
<1>1. /\ Verifying(c) /\ label \in chk[c].running /\ ending \in EndingsOf(c, label)
      /\ fs' = [fs EXCEPT ![d].results =
                  IF ending \in {"nothing", "garbled", "mislabelled"} THEN @
                  ELSE Over(@, [l \in {label} |-> ResultOf(ending)])]
  BY DEF Answer
<1>2. chk[c] \in Running /\ d \in Dirs /\ fs \in [Dirs -> Dir] /\ label \in Labels
  <2>1. chk[c] \in Running /\ chk[c].running \subseteq Labels
    BY <1>1, RunningCheck DEF Running
  <2> QED
    BY <1>1, <2>1 DEF Running, IInv, Typed
<1> HIDE DEF d
<1>3. CASE ending \in {"nothing", "garbled", "mislabelled"}
  <2>1. fs' = fs
    BY <1>1, <1>2, <1>3
  <2>2. StatusOf(ending) \notin {"pass", "fail"}
    BY <1>3 DEF StatusOf, Statuses
  <2> QED
    BY <1>2, <2>1, <2>2 DEF d
<1>4. CASE ending \notin {"nothing", "garbled", "mislabelled"}
  <2> DEFINE before == fs[d].results
             after == Over(before, [l \in {label} |-> ResultOf(ending)])
             new == [fs[d] EXCEPT !.results = after]
  <2>1. ending \in Statuses \cup {"pass_and_failed"} /\ label \notin DOMAIN before
    BY <1>1, <1>4, DoctorAssumption DEF EndingsOf, Endings, d
  <2>2. ResultOf(ending) \in Statuses
    BY <2>1 DEF ResultOf, Statuses
  <2>3. /\ DOMAIN after = DOMAIN before \cup {label} /\ after[label] = ResultOf(ending)
        /\ \A other \in DOMAIN before : after[other] = before[other]
        /\ after = [other \in DOMAIN after |-> after[other]]
    BY <2>1 DEF Over
  <2>4. PICK labels \in SUBSET Labels : before \in [labels -> Statuses]
    <3>1. fs[d] \in Dir
      BY <1>2
    <3>2. before \in Results
      BY <3>1
    <3> QED
      BY <3>2 DEF Results
  <2> HIDE DEF after, before
  <2>5. after \in [labels \cup {label} -> Statuses] /\ labels \cup {label} \in SUBSET Labels
    BY <1>2, <2>2, <2>3, <2>4
  <2>6. after \in Results
    BY <2>5 DEF Results
  <2>7. new \in Dir /\ new.results = after /\ new.report = fs[d].report
    BY <1>2, <2>6
  <2>8. fs' = [fs EXCEPT ![d] = new]
    BY <1>1, <1>4 DEF after, before
  <2> HIDE DEF new, Dir
  <2>9. /\ fs' \in [Dirs -> Dir] /\ fs'[d] = new
        /\ \A other \in Dirs : other # d => fs'[other] = fs[other]
    BY <1>2, <2>7, <2>8
  <2>10. StatusOf(ending) \in {"pass", "fail"} => StatusOf(ending) = ResultOf(ending)
    BY <2>1 DEF StatusOf, ResultOf, Statuses
  <2> QED
    BY <2>3, <2>7, <2>9, <2>10 DEF before, d, Dir
<1> QED
  BY <1>3, <1>4

\* A check with an answer.
LEMMA AnswerKeeps ==
  ASSUME IInv, NEW c \in Checks, NEW label, NEW ending, Answer(c, label, ending)
  PROVE  IInv'
<1> DEFINE status == StatusOf(ending)
           row == [chk[c].rows[label] EXCEPT !.status = status]
           rows == [chk[c].rows EXCEPT ![label] = row]
           new == [chk[c] EXCEPT !.running = @ \ {label}, !.rows = rows]
<1>1. /\ Verifying(c) /\ label \in chk[c].running /\ UNCHANGED <<env, edits>>
      /\ chk' = [chk EXCEPT ![c].running = @ \ {label}, ![c].rows[label].status = status]
  BY DEF Answer
<1>2. /\ chk[c] \in Running /\ chk[c].pc # "written"
      /\ label \in chk[c].running /\ chk[c].running \subseteq Waiting(chk[c].rows)
      /\ Agree(chk[c].rows, fs[chk[c].dir].results)
      /\ Traced(chk, chk[c].rows, chk[c].at)
  BY <1>1, RunningCheck
<1>3. chk' = [chk EXCEPT ![c] = new]
  BY <1>1
<1>4. label \in DOMAIN chk[c].rows /\ chk[c].rows[label].status = Unanswered /\ chk[c].rows \in Rows
  BY <1>2 DEF Waiting, Running
<1>5. chk[c].rows[label] \in Row
  BY <1>4, RowsAre
<1>6. status \in Statuses /\ status # Unanswered
  BY DEF StatusOf, Statuses, Unanswered
<1> HIDE DEF status
<1>7. row \in Row /\ row.from = chk[c].rows[label].from /\ row.status = status
  BY <1>5, <1>6 DEF Row
<1>8. chk[c].rows[label].from = NoCheck
  <2> SUFFICES ASSUME chk[c].rows[label].from # NoCheck PROVE FALSE
    OBVIOUS
  <2> DEFINE by == chk[c].rows[label].from
  <2>1. /\ by \in Checks /\ chk[by].pc = "written" /\ label \in DOMAIN chk[by].rows
        /\ chk[by].rows[label] = [chk[c].rows[label] EXCEPT !.from = NoCheck]
    BY <1>2, <1>4 DEF Traced
  <2>2. chk[by].rows[label].status = Unanswered
    BY <1>4, <1>5, <2>1 DEF Row
  <2> HIDE DEF by
  <2> QED
    BY <2>1, <2>2 DEF IInv, WrittenTrue, Waiting
<1> HIDE DEF row
<1>9. /\ rows \in Rows /\ DOMAIN rows = DOMAIN chk[c].rows /\ rows[label] = row
      /\ \A other \in DOMAIN rows : other # label => rows[other] = chk[c].rows[other]
  BY <1>4, <1>7, RowReplaced
<1> HIDE DEF rows
<1>10. /\ new \in Running /\ new.pc = "verifying" /\ new.running = chk[c].running \ {label}
       /\ new.rows = rows /\ new.at = chk[c].at /\ new.dir = chk[c].dir
  BY <1>2, <1>9 DEF Running
<1>11. /\ fs' \in [Dirs -> [results : Results, report : Checks \cup {NoCheck}]]
       /\ \A d \in Dirs :
            /\ fs'[d].report = fs[d].report
            /\ \A other \in DOMAIN fs[d].results :
                 other \in DOMAIN fs'[d].results /\ fs'[d].results[other] = fs[d].results[other]
       /\ status \in {"pass", "fail"} =>
            /\ label \in DOMAIN fs'[chk[c].dir].results
            /\ fs'[chk[c].dir].results[label] = status
  BY AnswerWrites DEF status
<1>12. chk[c].dir \in Dirs
  BY <1>2 DEF Running
<1>13. Agree(rows, fs'[chk[c].dir].results)
  BY <1>2, <1>7, <1>9, <1>11, <1>12 DEF Agree
<1>14. new.running \subseteq Waiting(rows)
  BY <1>2, <1>9, <1>10 DEF Waiting
<1>15. Traced(chk, rows, chk[c].at)
  <2> SUFFICES ASSUME NEW other \in DOMAIN rows, rows[other].from # NoCheck
               PROVE  LET by == rows[other].from
                      IN /\ by \in Checks /\ chk[by].pc = "written" /\ other \in DOMAIN chk[by].rows
                         /\ chk[by].rows[other] = [rows[other] EXCEPT !.from = NoCheck]
                         /\ Fingerprint(Environments[chk[by].at]) = Fingerprint(Environments[chk[c].at])
    BY DEF Traced
  <2>1. other # label
    BY <1>7, <1>8, <1>9
  <2>2. other \in DOMAIN chk[c].rows /\ rows[other] = chk[c].rows[other]
    BY <1>9, <2>1
  <2> DEFINE old == chk[c].rows[other]
  <2>3. old.from # NoCheck
    BY <2>2
  <2>4. LET by == old.from
        IN /\ by \in Checks /\ chk[by].pc = "written" /\ other \in DOMAIN chk[by].rows
           /\ chk[by].rows[other] = [old EXCEPT !.from = NoCheck]
           /\ Fingerprint(Environments[chk[by].at]) = Fingerprint(Environments[chk[c].at])
    BY <1>2, <2>2, <2>3 DEF Traced
  <2> HIDE DEF old
  <2>5. rows[other] = old
    BY <2>2 DEF old
  <2> QED
    BY <2>4, <2>5
<1> HIDE DEF new
<1>16. fs' \in Files /\ Grown(fs, fs') /\ Replaced(fs, fs', c, new)
  BY <1>11 DEF Files, Grown, Replaced
<1>17. Sound(chk, fs', new)
  BY <1>10, <1>13, <1>14, <1>15 DEF Sound
<1>18. UNCHANGED <<env, edits>>
  BY <1>1
<1> QED
  BY <1>2, <1>3, <1>10, <1>16, <1>17, <1>18, CheckMoves

\* A check with its report.
LEMMA ConcludeKeeps ==
  ASSUME IInv, NEW c \in Checks, Conclude(c)
  PROVE  IInv'
<1> DEFINE d == chk[c].dir
           rows == chk[c].rows
           new == [pc |-> "written", at |-> chk[c].at, rows |-> rows, running |-> {},
                   verdict |-> Verdict(rows), noted |-> Annotated(rows)]
           Dir == [results : Results, report : Checks \cup {NoCheck}]
<1>1. /\ Verifying(c) /\ Open(c) = {} /\ UNCHANGED <<env, edits>>
      /\ fs' = [fs EXCEPT ![d].report = c] /\ chk' = [chk EXCEPT ![c] = new]
  BY DEF Conclude
<1>2. /\ chk[c] \in Running /\ chk[c].pc # "written" /\ Open(c) = Waiting(rows)
      /\ Agree(rows, fs[d].results) /\ Traced(chk, rows, chk[c].at)
  BY <1>1, RunningCheck
<1>3. d \in Dirs /\ rows \in Rows /\ chk[c].at \in DOMAIN Environments /\ fs \in [Dirs -> Dir]
  BY <1>2 DEF Running, IInv, Typed
<1> HIDE DEF d, rows
<1>4. Verdict(rows) \in {"healthy", "unhealthy", "inconclusive"} /\ Annotated(rows) \in SUBSET Labels
  <2>1. DOMAIN rows \subseteq Labels
    BY <1>3, RowsAre
  <2> QED
    BY <2>1 DEF Verdict, Annotated, With
<1>5. /\ new \in Reported /\ new.pc = "written" /\ new.rows = rows /\ new.at = chk[c].at
      /\ new.verdict = Verdict(rows)
  BY <1>3, <1>4 DEF Reported
<1> HIDE DEF new
<1>6. /\ fs' \in [Dirs -> Dir] /\ fs'[d].report = c /\ fs'[d].results = fs[d].results
      /\ \A other \in Dirs : other # d => fs'[other] = fs[other]
  BY <1>1, <1>3
<1>7. \A other \in Dirs : fs'[other].results = fs[other].results
  BY <1>6
<1>8. fs' \in Files /\ Grown(fs, fs')
  BY <1>6, <1>7 DEF Files, Grown
<1>9. Replaced(fs, fs', c, new)
  <2>1. Agree(new.rows, fs'[d].results)
    BY <1>2, <1>5, <1>6
  <2> QED
    BY <1>5, <1>6, <2>1 DEF Replaced
<1>10. Sound(chk, fs', new)
  BY <1>1, <1>2, <1>5 DEF Sound
<1>11. UNCHANGED <<env, edits>> /\ chk' = [chk EXCEPT ![c] = new]
  BY <1>1
<1> QED
  BY <1>2, <1>5, <1>8, <1>9, <1>10, <1>11, CheckMoves

\* A check that is interrupted or killed.
LEMMA StopKeeps ==
  ASSUME IInv, NEW c \in Checks, Cancel(c) \/ Die(c)
  PROVE  IInv'
<1>1. Verifying(c) /\ UNCHANGED <<env, edits, fs>>
  BY DEF Cancel, Die
<1>2. /\ chk[c] \in Running /\ chk[c].pc # "written"
      /\ chk[c].running \subseteq Waiting(chk[c].rows)
      /\ Agree(chk[c].rows, fs[chk[c].dir].results)
      /\ Traced(chk, chk[c].rows, chk[c].at)
  BY <1>1, RunningCheck
<1>3. fs' \in Files /\ Grown(fs, fs') /\ \A new : Replaced(fs, fs', c, new)
  BY <1>1 DEF IInv, Typed, Files, Grown, Replaced
<1>4. CASE Cancel(c)
  <2> DEFINE new == [chk[c] EXCEPT !.cancelled = TRUE]
  <2>1. chk' = [chk EXCEPT ![c] = new]
    BY <1>4 DEF Cancel
  <2>2. /\ new \in Running /\ new.pc = "verifying" /\ new.running = chk[c].running
        /\ new.rows = chk[c].rows /\ new.at = chk[c].at /\ new.dir = chk[c].dir
    BY <1>2 DEF Running
  <2> HIDE DEF new
  <2>3. Sound(chk, fs', new)
    BY <1>1, <1>2, <2>2 DEF Sound
  <2> QED
    BY <1>1, <1>2, <1>3, <2>1, <2>2, <2>3, CheckMoves
<1>5. CASE Die(c)
  <2> DEFINE new == [pc |-> "dead"]
  <2>1. chk' = [chk EXCEPT ![c] = new] /\ new \in Idle /\ new.pc = "dead"
    BY <1>5 DEF Die, Idle
  <2> HIDE DEF new
  <2>2. Sound(chk, fs', new)
    BY <2>1 DEF Sound
  <2> QED
    BY <1>1, <1>2, <1>3, <2>1, <2>2, CheckMoves
<1> QED
  BY <1>4, <1>5

\* Every step keeps the invariant.
LEMMA NextKeeps == IInv /\ [Next]_vars => IInv'
<1> SUFFICES ASSUME IInv, [Next]_vars PROVE IInv'
  OBVIOUS
<1>1. CASE Edit \/ UNCHANGED vars
  <2>1. UNCHANGED <<fs, chk>> /\ env' \in DOMAIN Environments /\ edits' \in 0..MaxEdits
    BY <1>1, DoctorAssumption DEF Edit, vars, IInv, Typed
  <2>2. Typed'
    BY <2>1 DEF IInv, Typed
  <2>3. RunningTrue' /\ WrittenTrue'
    BY <2>1 DEF IInv, RunningTrue, WrittenTrue
  <2>4. ReportsTrue' /\ ReuseTrue'
    BY <2>1 DEF IInv, ReportsTrue, ReuseTrue
  <2> QED
    BY <2>2, <2>3, <2>4 DEF IInv
<1>2. ASSUME NEW c \in Checks, NEW d \in Dirs, NEW only \in Onlys[c],
             NEW earlier \in Written \cup {NoCheck}, Begin(c, d, only, earlier)
      PROVE  IInv'
  BY <1>2, BeginKeeps
<1>3. ASSUME NEW c \in Checks, CheckStep(c) PROVE IInv'
  BY <1>3, LaunchKeeps, ConcludeKeeps, AnswerKeeps DEF CheckStep
<1>4. ASSUME NEW c \in Checks, Cancel(c) \/ Die(c) PROVE IInv'
  BY <1>4, StopKeeps
<1> QED
  BY <1>1, <1>2, <1>3, <1>4 DEF Next

\* The invariant holds of every behaviour.
LEMMA Invariant == Spec => []IInv
BY InitIInv, NextKeeps, PTL DEF Spec

-----------------------------------------------------------------------------
(***************************************************************************)
(* What reports say                                                        *)
(***************************************************************************)

\* Of a report, wherever it stands: a pass or a fail is the answer of a
\* verification of that label in the directory of the report, whatever other
\* checks write there (doctor.go, verify).
THEOREM RowsAreTheResults == Spec => []RowsAreResults
<1>1. IInv => RowsAreResults
  BY DEF IInv, ReportsTrue, Agree, RowsAreResults
<1> QED
  BY <1>1, Invariant, PTL

\* Reports are of written checks.
LEMMA ReportsAre ==
  ASSUME IInv, NEW c \in Written
  PROVE  c \in Checks /\ chk[c] \in Reported /\ chk[c].pc = "written" /\ chk[c].rows \in Rows
<1>1. c \in Checks /\ chk[c].pc = "written"
  BY DEF Written, IInv, Typed, ReportsTrue
<1>2. chk[c] \in Reported
  BY <1>1 DEF IInv, Typed, Idle, Running
<1> QED
  BY <1>1, <1>2 DEF Reported

\* The parts of what is mounted are told from all others by their place.
LEMMA MountedAre ==
  ASSUME NEW g, NEW p \in MountedParts(g)
  PROVE  p.of = (IF g.compose = "unparsed" THEN "mounts" ELSE "mount")
<1>1. \A v : PathPart(v).of = "mount"
  BY DEF PathPart, Part, Omitted
<1>2. CASE g.compose = "unparsed"
  <2>1. p = Omitted("mounts", "")
    BY <1>2 DEF MountedParts
  <2> QED
    BY <1>2, <2>1 DEF Omitted
<1>3. CASE g.compose # "unparsed"
  BY <1>1, <1>3 DEF MountedParts
<1> QED
  BY <1>2, <1>3

\* What a fingerprint is taken over, place by place.
LEMMA FingerprintParts ==
  ASSUME NEW g, NEW p \in Fingerprint(g)
  PROVE  /\ p.of = "verify" => p.body = g.verify
         /\ p.of = "compose" =>
              IF g.compose = ABSENT THEN p.omitted = TRUE ELSE p.omitted = FALSE /\ p.body = g.text
         /\ p.of = "config" => p.omitted = TRUE \/ p.body = g.config
         /\ p.of = "image" => p.omitted = TRUE \/ p.body = g.image
         /\ p.of = "mounts" => g.compose = "unparsed"
         /\ p.of = "mount" => p \in MountedParts(g)
<1>1. \/ p = Part("verify", "", g.verify)
      \/ g.compose = ABSENT /\ p = Omitted("compose", "")
      \/ /\ g.compose # ABSENT
         /\ \/ p = Part("compose", "", g.text)
            \/ p = Omitted("config", "") \/ p = Part("config", "", g.config)
            \/ p = Omitted("image", "") \/ p = Part("image", "", g.image)
            \/ p \in MountedParts(g)
  <2>1. CASE g.compose = ABSENT
    BY <2>1 DEF Fingerprint
  <2>2. CASE g.compose # ABSENT
    BY <2>2 DEF Fingerprint, ResolvedParts, ImageParts
  <2> QED
    BY <2>1, <2>2
<1>2. CASE p = Part("verify", "", g.verify)
  BY <1>2 DEF Part
<1>3. CASE g.compose = ABSENT /\ p = Omitted("compose", "")
  BY <1>3 DEF Omitted
<1>4. CASE g.compose # ABSENT /\ p = Part("compose", "", g.text)
  BY <1>4 DEF Part
<1>5. CASE p = Omitted("config", "")
  BY <1>5 DEF Omitted
<1>6. CASE p = Omitted("image", "")
  BY <1>6 DEF Omitted
<1>7. CASE p = Part("config", "", g.config)
  BY <1>7 DEF Part
<1>8. CASE p = Part("image", "", g.image)
  BY <1>8 DEF Part
<1>9. CASE p \in MountedParts(g)
  BY <1>9, MountedAre
<1> QED
  BY <1>1, <1>2, <1>3, <1>4, <1>5, <1>6, <1>7, <1>8, <1>9

\* Where docker answered and the compose file could be read, the fingerprint
\* tells two verifiers apart in everything a verification depends on.
LEMMA FingerprintIdentifies ==
  ASSUME NEW e \in Environment, NEW f \in Environment, Fingerprint(e) = Fingerprint(f),
         e.docker, e.compose # "unparsed"
  PROVE  SameInstrument(e, f)
<1> DEFINE Volume == [name : STRING, kind : STRING, source : STRING, body : STRING]
           Mounts(g) == {PathPart(v) : v \in {u \in g.volumes : Hashed(u)}}
<1>1. \A p : p \in Fingerprint(e) <=> p \in Fingerprint(f)
  OBVIOUS
<1>2. /\ e.compose \in {ABSENT, "parsed"} /\ f.compose \in {ABSENT, "unparsed", "parsed"}
      /\ e.volumes \subseteq Volume /\ f.volumes \subseteq Volume
  BY DEF Environment
<1>3. \A u \in Volume, v \in Volume :
        Hashed(u) /\ Hashed(v) /\ PathPart(u) = PathPart(v) => u = v
  <2> SUFFICES ASSUME NEW u \in Volume, NEW v \in Volume, Hashed(u), Hashed(v),
                      PathPart(u) = PathPart(v)
               PROVE  u = v
    OBVIOUS
  <2>1. u.kind = v.kind /\ u.source = v.source
    BY DEF Hashed
  <2>2. \A w \in Volume : PathPart(w).name = w.name /\ PathPart(w).body = w.body
    BY DEF PathPart, Part, Omitted
  <2>3. u.name = v.name /\ u.body = v.body
    BY <2>2
  <2> QED
    BY <2>1, <2>3
<1>4. \A g : g.compose # "unparsed" => MountedParts(g) = Mounts(g)
  BY DEF MountedParts
<1> HIDE DEF Mounts
<1>5. e.verify = f.verify
  <2>1. Part("verify", "", e.verify) \in Fingerprint(f)
    BY <1>1 DEF Fingerprint
  <2>2. \A p \in Fingerprint(f) : p.of = "verify" => p.body = f.verify
    BY FingerprintParts
  <2> QED
    BY <2>1, <2>2 DEF Part, Omitted
<1>6. CASE e.compose = ABSENT
  <2>1. Omitted("compose", "") \in Fingerprint(f)
    BY <1>1, <1>6 DEF Fingerprint
  <2>2. f.compose = ABSENT
    <3> SUFFICES ASSUME f.compose # ABSENT PROVE Omitted("compose", "") \notin Fingerprint(f)
      BY <2>1
    <3>1. Omitted("compose", "").of = "compose" /\ Omitted("compose", "").omitted = TRUE
      BY DEF Omitted
    <3> QED
      BY <3>1, FingerprintParts
  <2> QED
    BY <1>5, <1>6, <2>2 DEF SameInstrument
<1>7. CASE e.compose = "parsed"
  <2>1. /\ Part("compose", "", e.text) \in Fingerprint(f)
        /\ Part("config", "", e.config) \in Fingerprint(f)
        /\ Part("image", "", e.image) \in Fingerprint(f)
    BY <1>1, <1>7 DEF Fingerprint, ResolvedParts, ImageParts, ABSENT
  <2>2. f.compose # ABSENT
    BY <2>1, FingerprintParts DEF Part, Omitted
  <2>3. \A p \in Fingerprint(f) : p.omitted = FALSE =>
          /\ p.of = "compose" => p.body = f.text
          /\ p.of = "config" => p.body = f.config
          /\ p.of = "image" => p.body = f.image
    BY <2>2, FingerprintParts
  <2>4. e.text = f.text /\ e.config = f.config /\ e.image = f.image
    BY <2>1, <2>3 DEF Part, Omitted
  <2>5. Omitted("mounts", "") \notin Fingerprint(e)
    BY <1>7, FingerprintParts DEF Part, Omitted
  <2>6. f.compose = "parsed"
    BY <1>1, <1>2, <2>2, <2>5 DEF Fingerprint, MountedParts
  <2>7. \A g : g.compose = "parsed" => Mounts(g) = {p \in Fingerprint(g) : p.of = "mount"}
    <3> SUFFICES ASSUME NEW g, g.compose = "parsed"
                 PROVE  /\ MountedParts(g) \subseteq Fingerprint(g)
                        /\ \A p \in Fingerprint(g) : p.of = "mount" <=> p \in MountedParts(g)
      BY <1>4
    <3>1. MountedParts(g) \subseteq Fingerprint(g)
      BY DEF Fingerprint, ABSENT
    <3> QED
      BY <3>1, FingerprintParts, MountedAre
  <2>8. Mounts(e) = Mounts(f)
    BY <1>7, <2>6, <2>7
  <2>9. ASSUME NEW g \in {e, f}, NEW h \in {e, f}, NEW v \in g.volumes, Hashed(v)
        PROVE  v \in h.volumes
    <3>1. PathPart(v) \in Mounts(h)
      BY <2>8, <2>9 DEF Mounts
    <3>2. PICK u \in h.volumes : Hashed(u) /\ PathPart(u) = PathPart(v)
      BY <3>1 DEF Mounts
    <3> QED
      BY <1>2, <1>3, <2>9, <3>2
  <2>10. {v \in e.volumes : Hashed(v)} = {v \in f.volumes : Hashed(v)}
    BY <2>9
  <2> QED
    BY <1>5, <1>7, <2>4, <2>6, <2>10 DEF SameInstrument
<1> QED
  BY <1>2, <1>6, <1>7

\* A reused reference run names the check that ran it, and that check began
\* with the same verifier (reuse).
THEOREM ReuseTraced == Spec => []ReuseNamesTheMeasurement
<1>1. ASSUME IInv PROVE ReuseNamesTheMeasurement
  <2> SUFFICES ASSUME NEW c \in Written, NEW label \in DOMAIN chk[c].rows,
                      chk[c].rows[label].from # NoCheck
               PROVE  LET row == chk[c].rows[label]
                          then == Environments[chk[row.from].at]
                      IN /\ label \in DOMAIN chk[row.from].rows
                         /\ chk[row.from].rows[label] = [row EXCEPT !.from = NoCheck]
                         /\ then.docker /\ then.compose # "unparsed"
                               => SameInstrument(then, Environments[chk[c].at])
    BY DEF ReuseNamesTheMeasurement
  <2> DEFINE by == chk[c].rows[label].from
             then == Environments[chk[by].at]
             now == Environments[chk[c].at]
  <2>1. c \in Checks /\ chk[c] \in Reported /\ Traced(chk, chk[c].rows, chk[c].at)
    BY <1>1, ReportsAre DEF IInv, ReuseTrue
  <2>2. /\ by \in Checks /\ chk[by].pc = "written" /\ label \in DOMAIN chk[by].rows
        /\ chk[by].rows[label] = [chk[c].rows[label] EXCEPT !.from = NoCheck]
        /\ Fingerprint(then) = Fingerprint(now)
    BY <2>1 DEF Traced
  <2>3. chk[by].at \in DOMAIN Environments /\ chk[c].at \in DOMAIN Environments
    <3>1. chk[by] \in Reported
      BY <1>1, <2>2 DEF IInv, Typed, Idle, Running
    <3> QED
      BY <2>1, <3>1 DEF Reported
  <2>4. then \in Environment /\ now \in Environment
    BY <2>3, DoctorAssumption
  <2> HIDE DEF then, now
  <2>5. then.docker /\ then.compose # "unparsed" => SameInstrument(then, now)
    BY <2>2, <2>4, FingerprintIdentifies
  <2> QED
    BY <2>2, <2>5 DEF then, now
<1> QED
  BY <1>1, Invariant, PTL

\* What the verdict "healthy" stands on, whatever the rows.
LEMMA HealthyRows ==
  ASSUME NEW rows \in Rows, Waiting(rows) = {}, Verdict(rows) = "healthy"
  PROVE  LET status(label) == rows[label].status
             rejected == {label \in DOMAIN rows : Killable(label) /\ status(label) = "fail"}
             accepted == {label \in DOMAIN rows : Killable(label) /\ status(label) = "pass"}
         IN /\ \E label \in DOMAIN rows : ~IsMutant(label) /\ status(label) = "pass"
            /\ \A label \in DOMAIN rows :
                  status(label) = "pass" \/ (IsMutant(label) /\ status(label) = "fail")
            /\ \A label \in accepted : MutantOf(label).origin # "hand"
            /\ rejected # {}
            /\ Cardinality(rejected) * MinDen >= MinNum * (Cardinality(rejected) + Cardinality(accepted))
<1> DEFINE status(label) == rows[label].status
           references == {label \in DOMAIN rows : ~IsMutant(label)}
           failures == {label \in references : status(label) = "fail"}
           unknown == {label \in references : status(label) \notin {"pass", "fail"}}
           rejected == {label \in DOMAIN rows : Killable(label) /\ status(label) = "fail"}
           accepted == {label \in DOMAIN rows : Killable(label) /\ status(label) = "pass"}
           open == {label \in DOMAIN rows : Killable(label) /\ status(label) \notin {"pass", "fail"}}
           a == Aggregate(rows)
<1>1. /\ KillableWith(rows, "killed") = rejected /\ KillableWith(rows, "survived") = accepted
      /\ KillableWith(rows, "inconclusive") = open
  BY DEF KillableWith, With, OutcomeOf, Killable
<1>2. a = [references |-> Cardinality(references), failures |-> Cardinality(failures),
           unknown |-> Cardinality(unknown), killed |-> Cardinality(rejected),
           survived |-> Cardinality(accepted), inconclusive |-> Cardinality(open)]
  BY <1>1 DEF Aggregate
<1> HIDE DEF a
<1>3. /\ a.failures = Cardinality(failures) /\ a.references = Cardinality(references)
      /\ a.unknown = Cardinality(unknown) /\ a.killed = Cardinality(rejected)
      /\ a.survived = Cardinality(accepted) /\ a.inconclusive = Cardinality(open)
  BY <1>2
<1>4. IsFiniteSet(DOMAIN rows)
  BY RowsAre
<1>5. /\ IsFiniteSet(references) /\ IsFiniteSet(failures) /\ IsFiniteSet(unknown)
      /\ IsFiniteSet(rejected) /\ IsFiniteSet(accepted) /\ IsFiniteSet(open)
  <2>1. /\ references \subseteq DOMAIN rows /\ failures \subseteq DOMAIN rows
        /\ unknown \subseteq DOMAIN rows /\ rejected \subseteq DOMAIN rows
        /\ accepted \subseteq DOMAIN rows /\ open \subseteq DOMAIN rows
    OBVIOUS
  <2> HIDE DEF references, failures, unknown, rejected, accepted, open
  <2> QED
    BY <1>4, <2>1, FS_Subset
<1>6. /\ a.references \in Nat /\ a.failures \in Nat /\ a.unknown \in Nat
      /\ a.killed \in Nat /\ a.survived \in Nat /\ a.inconclusive \in Nat
  BY <1>3, <1>5, FS_CardinalityType
<1>7. /\ a.failures = 0 /\ ~HandSurvivor(rows) /\ a.unknown < a.references
      /\ a.killed + a.survived > 0
      /\ ~(a.killed * MinDen < MinNum * (a.killed + a.survived))
      /\ a.unknown = 0 /\ a.inconclusive = 0 /\ ~InconclusiveEquivalent(rows)
  BY <1>6 DEF Verdict, Meaningful, Measured, a
<1>8. failures = {} /\ unknown = {} /\ open = {} /\ references # {}
  BY <1>3, <1>5, <1>7, FS_EmptySet
<1>9. \A label \in DOMAIN rows :
        status(label) = "pass" \/ (IsMutant(label) /\ status(label) = "fail")
  BY <1>7, <1>8 DEF InconclusiveEquivalent, With, OutcomeOf
<1>10. \E label \in DOMAIN rows : ~IsMutant(label) /\ status(label) = "pass"
  BY <1>8, <1>9
<1>11. \A label \in accepted : MutantOf(label).origin # "hand"
  BY <1>1, <1>7 DEF HandSurvivor
<1> HIDE DEF references, failures, unknown, rejected, accepted, open
<1>12. a.killed * MinDen >= MinNum * (a.killed + a.survived)
  BY <1>6, <1>7, DoctorAssumption
<1>13. a.killed # 0
  <2> SUFFICES ASSUME a.killed = 0 PROVE FALSE
    OBVIOUS
  <2>1. MinNum * a.survived > 0
    BY <1>6, <1>7, DoctorAssumption
  <2>2. a.killed * MinDen = 0
    BY DoctorAssumption
  <2>3. MinNum * (a.killed + a.survived) = MinNum * a.survived /\ MinNum * a.survived \in Int
    BY <1>6, DoctorAssumption
  <2> QED
    BY <1>12, <2>1, <2>2, <2>3
<1>14. rejected # {}
  BY <1>3, <1>13, FS_EmptySet
<1> QED
  BY <1>3, <1>9, <1>10, <1>11, <1>12, <1>14 DEF rejected, accepted

\* A healthy report stands on measurement alone (verdict).
THEOREM HealthyMeasured == Spec => []HealthyMeansMeasured
<1>1. ASSUME IInv, NEW c \in Written, chk[c].verdict = "healthy"
      PROVE  /\ chk[c].rows \in Rows /\ Waiting(chk[c].rows) = {}
             /\ Verdict(chk[c].rows) = "healthy"
  BY <1>1, ReportsAre DEF IInv, WrittenTrue
<1>2. IInv => HealthyMeansMeasured
  BY <1>1, HealthyRows DEF HealthyMeansMeasured
<1> QED
  BY <1>2, Invariant, PTL

-----------------------------------------------------------------------------
(***************************************************************************)
(* Theorems about MutantSuite, for every list of syntax nodes, maximum and *)
(* number of generations, whatever compiles and whatever is added by hand. *)
(***************************************************************************)

\* A diff that is there and holds what its path says.
Stands(path, dir) == path \in DOMAIN dir /\ dir[path] = path[2] /\ path[2] # Torn
DeclaredOnce(m, dir) ==
  m \in Seq(DOMAIN dir) /\ IsInjective(m) /\ \A i \in DOMAIN m : Stands(m[i], dir)
HoldsItsSite == \A p \in DOMAIN files : files[p] \in {p[2], Torn}

\* What a generation plans is new, each defect once: what it has written of it
\* stands, the rest nobody has written meanwhile, and the manifest declares
\* none of it yet.
PlanHolds(plan, done, m, dir) ==
  /\ plan \in Seq(Range(plan)) /\ done \in 0..Len(plan)
  /\ \A i, j \in DOMAIN plan : plan[i][2] = plan[j][2] => i = j
  /\ \A i \in DOMAIN plan :
       /\ plan[i][2] # Torn /\ \A k \in DOMAIN m : m[k] # plan[i]
       /\ i <= done => Stands(plan[i], dir)
       /\ i > done => \A p \in DOMAIN dir : dir[p] # plan[i][2]
GenerationHolds ==
  /\ gen.pc = "writing" => gen = [pc |-> "writing", plan |-> gen.plan, done |-> gen.done]
                           /\ PlanHolds(gen.plan, gen.done, manifest.mutants, files)
  /\ gen.pc = "filling" => DeclaredOnce(gen.declare, files)

SuiteInv ==
  /\ manifest \in [whole : BOOLEAN, mutants : Seq(DOMAIN files)]
  /\ DeclaredOnce(manifest.mutants, files) /\ HoldsItsSite /\ NoDefectTwice
  /\ GenerationHolds

\* Counting the places up to each tells the places apart, and so counts to
\* the last.
LEMMA RankIs ==
  ASSUME NEW I, IsFiniteSet(I), I \subseteq Int
  PROVE  /\ \A i \in I : Rank(I, i) \in 1..Cardinality(I)
         /\ \A i, j \in I : Rank(I, i) = Rank(I, j) => i = j
         /\ \A k \in 1..Cardinality(I) : \E i \in I : Rank(I, i) = k
<1> DEFINE upTo(i) == {j \in I : j <= i}
<1>1. \A i \in I : IsFiniteSet(upTo(i)) /\ Cardinality(upTo(i)) <= Cardinality(I)
  BY FS_Subset
<1>2. \A i \in I : Cardinality(upTo(i)) \in Nat /\ Cardinality(upTo(i)) # 0
  <2> TAKE i \in I
  <2>1. i \in upTo(i)
    OBVIOUS
  <2> QED
    BY <1>1, <2>1, FS_CardinalityType, FS_EmptySet
<1>3. Cardinality(I) \in Nat
  BY FS_CardinalityType
<1>4. \A i \in I : Rank(I, i) \in 1..Cardinality(I)
  <2> HIDE DEF upTo
  <2>1. \A i \in I : Rank(I, i) = Cardinality(upTo(i))
    BY DEF Rank, upTo
  <2> QED
    BY <1>1, <1>2, <1>3, <2>1
<1>5. \A i, j \in I : i < j => Rank(I, i) # Rank(I, j)
  <2> TAKE i, j \in I
  <2> HAVE i < j
  <2>1. upTo(i) \in SUBSET upTo(j) /\ j \in upTo(j) /\ j \notin upTo(i)
    <3>1. \A x \in I : x \in Int
      OBVIOUS
    <3>2. \A x \in I : x <= i => x <= j
      BY <3>1
    <3>3. j <= j /\ ~ j <= i
      BY <3>1
    <3> QED
      BY <3>2, <3>3
  <2>2. Cardinality(upTo(i)) # Cardinality(upTo(j))
    BY <1>1, <2>1, FS_Subset
  <2> QED
    BY <2>2 DEF Rank
<1>6. \A i, j \in I : Rank(I, i) = Rank(I, j) => i = j
  BY <1>5
<1>7. ASSUME NEW k \in 1..Cardinality(I) PROVE \E i \in I : Rank(I, i) = k
  <2> DEFINE f == [i \in I |-> Rank(I, i)]
  <2>1. f \in Injection(I, 1..Cardinality(I))
    <3>1. f \in [I -> 1..Cardinality(I)]
      BY <1>4
    <3>2. IsInjective(f)
      BY <1>6 DEF IsInjective
    <3> QED
      BY <3>1, <3>2 DEF Injection
  <2>2. IsFiniteSet(1..Cardinality(I)) /\ Cardinality(1..Cardinality(I)) = Cardinality(I)
    BY <1>3, FS_Interval
  <2>3. f \in Surjection(I, 1..Cardinality(I))
    <3> HIDE DEF f
    <3> QED
      BY <2>1, <2>2, FS_Injection
  <2> QED
    BY <2>3 DEF Surjection
<1> QED
  BY <1>4, <1>6, <1>7

\* What is picked from a list without repetition are some of its entries, each
\* once.
LEMMA PickedOnce ==
  ASSUME NEW T, NEW s \in Seq(T), NEW I \in SUBSET DOMAIN s, \A i, j \in DOMAIN s : s[i] = s[j] => i = j
  PROVE  /\ Picked(s, I) \in Seq(T)
         /\ \A k \in DOMAIN Picked(s, I) : \E i \in I : Picked(s, I)[k] = s[i]
         /\ \A k, l \in DOMAIN Picked(s, I) : Picked(s, I)[k] = Picked(s, I)[l] => k = l
<1>1. DOMAIN s = 1..Len(s) /\ Len(s) \in Nat /\ \A i \in 1..Len(s) : s[i] \in T
  OBVIOUS
<1>2. I \subseteq Int /\ IsFiniteSet(I)
  <2>1. IsFiniteSet(1..Len(s))
    BY <1>1, FS_Interval
  <2> QED
    BY <1>1, <2>1, FS_Subset
<1>3. Cardinality(I) \in Nat
  BY <1>2, FS_CardinalityType
<1> DEFINE n == Cardinality(I)
           at(k) == CHOOSE i \in I : Rank(I, i) = k
<1>4. \A k \in 1..n : at(k) \in I /\ Rank(I, at(k)) = k
  BY <1>2, RankIs
<1>5. Picked(s, I) = [k \in 1..n |-> s[at(k)]]
  BY DEF Picked
<1>6. \A k \in 1..n : s[at(k)] \in T
  BY <1>1, <1>4
<1> HIDE DEF n, at
<1>7. Picked(s, I) \in Seq(T) /\ DOMAIN Picked(s, I) = 1..n
  BY <1>3, <1>5, <1>6 DEF n
<1>8. \A k, l \in 1..n : s[at(k)] = s[at(l)] => k = l
  BY <1>4
<1> QED
  BY <1>4, <1>5, <1>7, <1>8

\* Every site is one node and one operator, and no two are the same.
SiteValues == (Nat \ {0}) \X Range(AllOperators)
LEMMA SitesOnce ==
  /\ Sites \in Seq(SiteValues)
  /\ \A g, h \in DOMAIN Sites : Sites[g] = Sites[h] => g = h
<1>1. Len(Nodes) \in Nat /\ Len(AllOperators) = 6
  BY SuiteAssumption DEF AllOperators
<1>2. DOMAIN AllOperators = 1..6 /\ \A i, j \in 1..6 : AllOperators[i] = AllOperators[j] => i = j
  BY DEF AllOperators
<1>3. DOMAIN Sites = 1..(Len(Nodes) * 6) /\ Len(Nodes) * 6 \in Nat
  BY <1>1 DEF Sites
<1>4. \A g \in DOMAIN Sites : Sites[g] = <<1 + ((g - 1) \div 6), AllOperators[1 + ((g - 1) % 6)]>>
  BY <1>1 DEF Sites, Site
<1>5. \A g \in DOMAIN Sites : 1 + ((g - 1) \div 6) \in Nat \ {0} /\ 1 + ((g - 1) % 6) \in 1..6
  <2>1. \A g \in Nat \ {0} : (g - 1) \div 6 \in Nat /\ (g - 1) % 6 \in 0..5
    OBVIOUS
  <2>2. \A g \in DOMAIN Sites : g \in Nat \ {0}
    BY <1>3
  <2>3. \A k \in Nat : 1 + k \in Nat \ {0}
    OBVIOUS
  <2>4. \A k \in 0..5 : 1 + k \in 1..6
    OBVIOUS
  <2> QED
    BY <2>1, <2>2, <2>3, <2>4
<1>6. \A g \in DOMAIN Sites : Sites[g] \in SiteValues
  BY <1>2, <1>4, <1>5 DEF SiteValues, Range
<1>7. Sites \in Seq(SiteValues)
  <2>1. Sites = [g \in 1..(Len(Nodes) * 6) |-> Sites[g]]
    BY <1>3 DEF Sites
  <2> QED
    BY <1>3, <1>6, <2>1
<1>8. ASSUME NEW g \in DOMAIN Sites, NEW h \in DOMAIN Sites, Sites[g] = Sites[h] PROVE g = h
  <2> DEFINE q(x) == (x - 1) \div 6
             r(x) == (x - 1) % 6
  <2>1. g \in Int /\ h \in Int
    BY <1>3
  <2>2. q(g) \in Int /\ q(h) \in Int /\ r(g) \in 0..5 /\ r(h) \in 0..5
    BY <2>1
  <2>3. q(g) = q(h) /\ r(g) = r(h) => g = h
    BY <2>1
  <2>4. Sites[g] = <<1 + q(g), AllOperators[1 + r(g)]>> /\ Sites[h] = <<1 + q(h), AllOperators[1 + r(h)]>>
    BY <1>4
  <2> HIDE DEF q, r
  <2>5. 1 + q(g) = 1 + q(h) /\ AllOperators[1 + r(g)] = AllOperators[1 + r(h)]
    <3> DEFINE a(x) == 1 + q(x)
               b(x) == AllOperators[1 + r(x)]
    <3>1. <<a(g), b(g)>> = <<a(h), b(h)>>
      BY <1>8, <2>4
    <3> HIDE DEF a, b
    <3>2. a(g) = a(h) /\ b(g) = b(h)
      BY <3>1
    <3> QED
      BY <3>2 DEF a, b
  <2>6. 1 + r(g) \in 1..6 /\ 1 + r(h) \in 1..6
    BY <2>2
  <2>7. q(g) = q(h) /\ r(g) = r(h)
    BY <1>2, <2>2, <2>5, <2>6
  <2> QED
    BY <2>3, <2>7
<1> QED
  BY <1>7, <1>8

LEMMA MutationsOnce ==
  ASSUME NEW ops
  PROVE  /\ Mutations(ops) \in Seq(SiteValues)
         /\ \A k, l \in DOMAIN Mutations(ops) : Mutations(ops)[k] = Mutations(ops)[l] => k = l
<1> DEFINE I == {g \in DOMAIN Sites : Mutates(ops, Sites[g])}
<1>1. I \in SUBSET DOMAIN Sites /\ Mutations(ops) = Picked(Sites, I)
  BY DEF Mutations
<1> HIDE DEF I
<1> QED
  BY <1>1, SitesOnce, PickedOnce

\* What is planned of a suite is in none of its diffs, and each of it once.
LEMMA GenerateIs ==
  ASSUME NEW ops, NEW m, NEW dir
  PROVE  LET plan == Generate(ops, m, dir)
         IN /\ plan \in Seq(Range(plan))
            /\ \A i, j \in DOMAIN plan : plan[i][2] = plan[j][2] => i = j
            /\ \A i \in DOMAIN plan : plan[i][2] # Torn /\ \A p \in DOMAIN dir : dir[p] # plan[i][2]
<1> DEFINE offered == Mutations(ops)
           I == {i \in DOMAIN offered : Viable(offered[i]) /\ offered[i] \notin Digests(m, dir)}
           fresh == Picked(offered, I)
           cut == IF Len(fresh) < Maximum THEN Len(fresh) ELSE Maximum
           number(i) == NextIndex(m, dir) + i - 1
           plan == Generate(ops, m, dir)
<1>1. plan = [i \in 1..cut |-> <<number(i), fresh[i]>>]
  BY DEF Generate
<1>2. offered \in Seq(SiteValues) /\ \A k, l \in DOMAIN offered : offered[k] = offered[l] => k = l
  BY MutationsOnce
<1>3. I \in SUBSET DOMAIN offered /\ \A i \in I : offered[i] \notin Digests(m, dir)
  OBVIOUS
<1> HIDE DEF offered, I
<1>4. /\ fresh \in Seq(SiteValues)
      /\ \A k \in DOMAIN fresh : \E i \in I : fresh[k] = offered[i]
      /\ \A k, l \in DOMAIN fresh : fresh[k] = fresh[l] => k = l
  BY <1>2, <1>3, PickedOnce
<1> HIDE DEF fresh
<1>5. DOMAIN fresh = 1..Len(fresh) /\ Len(fresh) \in Nat /\ \A i \in DOMAIN fresh : fresh[i] \in SiteValues
  BY <1>4
<1>6. cut \in Nat /\ 1..cut \subseteq DOMAIN fresh
  BY <1>5, SuiteAssumption
<1> HIDE DEF cut, number, plan
<1>7. DOMAIN plan = 1..cut /\ plan \in Seq(Range(plan))
  <2>1. plan \in [1..cut -> Range(plan)]
    BY <1>1 DEF Range
  <2> QED
    BY <1>1, <1>6, <2>1
<1>8. ASSUME NEW i \in DOMAIN plan
      PROVE  /\ plan[i][2] = fresh[i] /\ i \in DOMAIN fresh
             /\ fresh[i] # Torn /\ \A p \in DOMAIN dir : dir[p] # fresh[i]
  <2>1. i \in DOMAIN fresh
    BY <1>6, <1>7
  <2>2. plan[i] = <<number(i), fresh[i]>>
    BY <1>1, <1>7
  <2>3. plan[i][2] = fresh[i]
    BY <2>2
  <2>4. fresh[i] \in SiteValues
    BY <1>5, <2>1
  <2>5. fresh[i] # Torn
    BY <2>4 DEF SiteValues, Torn
  <2>6. fresh[i] \notin Digests(m, dir)
    BY <1>3, <1>4, <2>1
  <2>7. \A p \in DOMAIN dir : dir[p] # fresh[i]
    BY <2>6 DEF Digests
  <2> QED
    BY <2>1, <2>3, <2>5, <2>7
<1>9. \A i, j \in DOMAIN plan : plan[i][2] = plan[j][2] => i = j
  BY <1>4, <1>8
<1> QED
  BY <1>7, <1>8, <1>9 DEF plan

-----------------------------------------------------------------------------
LEMMA SuiteInitHolds == SuiteInit => SuiteInv
<1> SUFFICES ASSUME SuiteInit PROVE SuiteInv
  OBVIOUS
<1>1. manifest = [whole |-> TRUE, mutants |-> <<>>] /\ files = <<>> /\ gen.pc = "idle"
  BY DEF SuiteInit, Resting
<1>2. manifest.mutants = <<>> /\ DOMAIN manifest.mutants = {} /\ DOMAIN files = {}
  BY <1>1
<1>3. <<>> \in Seq(DOMAIN files)
  OBVIOUS
<1>4. manifest \in [whole : BOOLEAN, mutants : Seq(DOMAIN files)]
  <2> DEFINE T == Seq(DOMAIN files)
  <2> HIDE DEF T
  <2>1. <<>> \in T
    BY <1>3 DEF T
  <2>2. manifest \in [whole : BOOLEAN, mutants : T]
    BY <1>1, <2>1
  <2> QED
    BY <2>2 DEF T
<1>5. DeclaredOnce(manifest.mutants, files)
  BY <1>2, <1>3 DEF DeclaredOnce, IsInjective
<1>6. HoldsItsSite /\ NoDefectTwice /\ GenerationHolds
  BY <1>1, <1>2 DEF HoldsItsSite, NoDefectTwice, GenerationHolds
<1> QED
  BY <1>4, <1>5, <1>6 DEF SuiteInv

\* A generation begins.
LEMMA StartHolds ==
  ASSUME SuiteInv, NEW ops, Start(ops)
  PROVE  SuiteInv'
<1> DEFINE plan == Generate(ops, manifest.mutants, files)
<1>1. UNCHANGED <<manifest, files>>
      /\ gen' = IF plan = <<>> THEN [pc |-> "covered", ops |-> ops] ELSE [pc |-> "writing", plan |-> plan, done |-> 0]
  BY DEF Start
<1>2. /\ plan \in Seq(Range(plan))
      /\ \A i, j \in DOMAIN plan : plan[i][2] = plan[j][2] => i = j
      /\ \A i \in DOMAIN plan : plan[i][2] # Torn /\ \A p \in DOMAIN files : files[p] # plan[i][2]
  BY GenerateIs
<1> HIDE DEF plan
<1>3. \A i \in DOMAIN plan : \A k \in DOMAIN manifest.mutants : manifest.mutants[k] # plan[i]
  BY <1>2 DEF SuiteInv, DeclaredOnce, Stands
<1>4. DOMAIN plan = 1..Len(plan) /\ Len(plan) \in Nat
  BY <1>2
<1>5. PlanHolds(plan, 0, manifest.mutants, files)
  BY <1>2, <1>3, <1>4 DEF PlanHolds
<1>6. CASE plan = <<>>
  <2>1. gen'.pc = "covered"
    BY <1>1, <1>6
  <2> QED
    BY <1>1, <2>1 DEF SuiteInv, GenerationHolds, HoldsItsSite, NoDefectTwice
<1>7. CASE plan # <<>>
  <2>1. gen' = [pc |-> "writing", plan |-> plan, done |-> 0]
    BY <1>1, <1>7
  <2>2. gen'.pc = "writing" /\ gen'.plan = plan /\ gen'.done = 0
    BY <2>1
  <2>3. PlanHolds(gen'.plan, gen'.done, manifest'.mutants, files')
    BY <1>1, <1>5, <2>2
  <2>4. GenerationHolds'
    BY <2>1, <2>2, <2>3 DEF GenerationHolds
  <2> QED
    BY <1>1, <2>4 DEF SuiteInv, HoldsItsSite, NoDefectTwice
<1> QED
  BY <1>6, <1>7

\* A diff is written that the manifest does not declare, and nobody else holds
\* what is in it.
LEMMA PutIs ==
  ASSUME SuiteInv, NEW path, NEW body \in {path[2], Torn}, Put(path, body),
         \A k \in DOMAIN manifest.mutants : manifest.mutants[k] # path,
         body # Torn => \A p \in DOMAIN files : files[p] # body
  PROVE  /\ DOMAIN files' = DOMAIN files \cup {path} /\ files'[path] = body
         /\ \A p \in DOMAIN files : p # path => files'[p] = files[p]
         /\ manifest \in [whole : BOOLEAN, mutants : Seq(DOMAIN files')]
         /\ DeclaredOnce(manifest.mutants, files') /\ HoldsItsSite' /\ NoDefectTwice'
<1>1. /\ DOMAIN files' = DOMAIN files \cup {path} /\ files'[path] = body
      /\ \A p \in DOMAIN files : p # path => files'[p] = files[p]
  BY DEF Put
<1> DEFINE m == manifest.mutants
<1>2. m \in Seq(DOMAIN files) /\ IsInjective(m) /\ \A i \in DOMAIN m : Stands(m[i], files)
  BY DEF SuiteInv, DeclaredOnce
<1>3. \A i \in DOMAIN m : Stands(m[i], files')
  BY <1>1, <1>2 DEF Stands
<1>4. m \in Seq(DOMAIN files')
  <2> DEFINE T == DOMAIN files
             T1 == DOMAIN files'
  <2>1. T \subseteq T1
    BY <1>1
  <2> HIDE DEF m, T, T1
  <2>2. m \in Seq(T)
    BY <1>2 DEF T
  <2>3. m \in Seq(T1)
    BY <2>1, <2>2
  <2> QED
    BY <2>3 DEF T1
<1>5. DeclaredOnce(m, files')
  BY <1>2, <1>3, <1>4 DEF DeclaredOnce
<1>6. HoldsItsSite'
  BY <1>1 DEF SuiteInv, HoldsItsSite
<1>7. ASSUME NEW p \in DOMAIN files', NEW q \in DOMAIN files', p # q, files'[p] # Torn'
      PROVE  files'[p] # files'[q]
  <2>1. Torn' = Torn
    BY DEF Torn
  <2>2. CASE p # path /\ q # path
    BY <1>1, <1>7, <2>1, <2>2 DEF SuiteInv, NoDefectTwice
  <2>3. CASE p = path
    BY <1>1, <1>7, <2>1, <2>3
  <2>4. CASE q = path
    BY <1>1, <1>7, <2>1, <2>4
  <2> QED
    BY <2>2, <2>3, <2>4
<1>8. NoDefectTwice'
  BY <1>7 DEF NoDefectTwice
<1>9. manifest \in [whole : BOOLEAN, mutants : Seq(DOMAIN files')]
  <2> DEFINE T == Seq(DOMAIN files)
             T1 == Seq(DOMAIN files')
  <2> HIDE DEF T, T1
  <2>1. manifest \in [whole : BOOLEAN, mutants : T] /\ manifest.mutants \in T1
    BY <1>4 DEF SuiteInv, T, T1
  <2>2. manifest \in [whole : BOOLEAN, mutants : T1]
    BY <2>1
  <2> QED
    BY <2>2 DEF T1
<1> QED
  BY <1>1, <1>5, <1>6, <1>8, <1>9

\* What the plan of a generation says of the diff it writes next.
LEMMA NextDiffIs ==
  ASSUME SuiteInv, gen.pc = "writing", gen.done < Len(gen.plan)
  PROVE  LET path == gen.plan[gen.done + 1]
         IN /\ gen.done + 1 \in DOMAIN gen.plan /\ path[2] # Torn
            /\ \A k \in DOMAIN manifest.mutants : manifest.mutants[k] # path
            /\ \A p \in DOMAIN files : files[p] # path[2]
<1> DEFINE plan == gen.plan
           done == gen.done
<1>1. PlanHolds(plan, done, manifest.mutants, files)
  BY DEF SuiteInv, GenerationHolds
<1>2. plan \in Seq(Range(plan)) /\ done \in 0..Len(plan) /\ done < Len(plan)
  BY <1>1 DEF PlanHolds
<1> HIDE DEF plan, done
<1>3. done + 1 \in DOMAIN plan /\ done + 1 > done
  BY <1>2
<1> QED
  BY <1>1, <1>3 DEF PlanHolds, plan, done

LEMMA WriteDiffHolds ==
  ASSUME SuiteInv, WriteDiff
  PROVE  SuiteInv'
<1> DEFINE plan == gen.plan
           done == gen.done
           path == plan[done + 1]
<1>1. gen.pc = "writing" /\ done < Len(plan) /\ Put(path, path[2]) /\ UNCHANGED manifest
      /\ gen' = [gen EXCEPT !.done = done + 1]
  BY DEF WriteDiff
<1>2. /\ done + 1 \in DOMAIN plan /\ path[2] # Torn
      /\ \A k \in DOMAIN manifest.mutants : manifest.mutants[k] # path
      /\ \A p \in DOMAIN files : files[p] # path[2]
  BY <1>1, NextDiffIs
<1>3. gen = [pc |-> "writing", plan |-> plan, done |-> done] /\ PlanHolds(plan, done, manifest.mutants, files)
  BY <1>1 DEF SuiteInv, GenerationHolds
<1>4. gen'.pc = "writing" /\ gen'.plan = plan /\ gen'.done = done + 1
      /\ gen' = [pc |-> "writing", plan |-> gen'.plan, done |-> gen'.done]
  <2> HIDE DEF plan, done
  <2> QED
    BY <1>1, <1>3
<1> HIDE DEF plan, done, path
<1>5. /\ DOMAIN files' = DOMAIN files \cup {path} /\ files'[path] = path[2]
      /\ \A p \in DOMAIN files : p # path => files'[p] = files[p]
      /\ manifest \in [whole : BOOLEAN, mutants : Seq(DOMAIN files')]
      /\ DeclaredOnce(manifest.mutants, files') /\ HoldsItsSite' /\ NoDefectTwice'
  BY <1>1, <1>2, PutIs
<1>6. /\ plan \in Seq(Range(plan)) /\ done \in 0..Len(plan)
      /\ \A i, j \in DOMAIN plan : plan[i][2] = plan[j][2] => i = j
  BY <1>3 DEF PlanHolds
<1>7. done + 1 \in 0..Len(plan) /\ \A i \in DOMAIN plan : i \in Nat
  BY <1>1, <1>6
<1>8. ASSUME NEW i \in DOMAIN plan
      PROVE  /\ plan[i][2] # Torn /\ \A k \in DOMAIN manifest.mutants : manifest.mutants[k] # plan[i]
             /\ i <= done + 1 => Stands(plan[i], files')
             /\ i > done + 1 => \A p \in DOMAIN files' : files'[p] # plan[i][2]
  <2>1. /\ plan[i][2] # Torn /\ \A k \in DOMAIN manifest.mutants : manifest.mutants[k] # plan[i]
        /\ i <= done => Stands(plan[i], files)
        /\ i > done => \A p \in DOMAIN files : files[p] # plan[i][2]
    BY <1>3 DEF PlanHolds
  <2>2. i # done + 1 => plan[i][2] # path[2] /\ plan[i] # path
    BY <1>2, <1>6 DEF path
  <2>3. CASE i = done + 1
    BY <1>2, <1>5, <2>1, <2>3, <1>7, <1>6 DEF Stands, path
  <2>4. CASE i < done + 1
    <3>1. i <= done /\ i # done + 1 /\ ~ (i > done + 1)
      BY <1>6, <1>7, <2>4
    <3> QED
      BY <1>5, <2>1, <2>2, <3>1 DEF Stands
  <2>5. CASE i > done + 1
    <3>1. i > done /\ i # done + 1 /\ ~ (i <= done + 1)
      BY <1>6, <1>7, <2>5
    <3> QED
      BY <1>5, <2>1, <2>2, <3>1
  <2> QED
    BY <1>6, <1>7, <2>3, <2>4, <2>5
<1>9. PlanHolds(plan, done + 1, manifest.mutants, files')
  BY <1>6, <1>7, <1>8 DEF PlanHolds
<1>10. GenerationHolds'
  BY <1>1, <1>4, <1>9 DEF GenerationHolds
<1> QED
  BY <1>1, <1>5, <1>10 DEF SuiteInv

\* All diffs are written, and what the manifest is to say is made of them.
LEMMA RereadHolds ==
  ASSUME SuiteInv, Reread
  PROVE  SuiteInv'
<1> DEFINE plan == gen.plan
           m == manifest.mutants
           both == m \o plan
<1>1. gen.pc = "writing" /\ gen.done = Len(plan) /\ UNCHANGED <<manifest, files>>
      /\ gen' = [pc |-> "filling", declare |-> both, plan |-> plan]
  BY DEF Reread, AllWritten
<1>2. PlanHolds(plan, gen.done, m, files) /\ DeclaredOnce(m, files)
  BY <1>1 DEF SuiteInv, GenerationHolds
<1>3. gen'.pc = "filling" /\ gen'.declare = both
  <2> HIDE DEF plan, both
  <2> QED
    BY <1>1
<1> HIDE DEF plan, m
<1>4. /\ plan \in Seq(Range(plan)) /\ DOMAIN plan = 1..Len(plan) /\ Len(plan) \in Nat
      /\ \A i, j \in DOMAIN plan : plan[i][2] = plan[j][2] => i = j
      /\ \A i \in DOMAIN plan : Stands(plan[i], files) /\ \A k \in DOMAIN m : m[k] # plan[i]
  <2>1. plan \in Seq(Range(plan))
    BY <1>2 DEF PlanHolds
  <2>2. DOMAIN plan = 1..Len(plan) /\ Len(plan) \in Nat
    BY <2>1
  <2>3. \A i \in DOMAIN plan : i <= gen.done
    BY <1>1, <2>2
  <2> QED
    BY <1>2, <2>1, <2>2, <2>3 DEF PlanHolds
<1>5. /\ m \in Seq(DOMAIN files) /\ DOMAIN m = 1..Len(m) /\ Len(m) \in Nat
      /\ \A i \in DOMAIN m : Stands(m[i], files)
      /\ \A i, j \in DOMAIN m : m[i] = m[j] => i = j
  BY <1>2 DEF DeclaredOnce, IsInjective
<1>6. plan \in Seq(DOMAIN files)
  <2>1. \A i \in 1..Len(plan) : plan[i] \in DOMAIN files
    BY <1>4 DEF Stands
  <2> QED
    BY <1>4, <2>1
<1>7. /\ both \in Seq(DOMAIN files) /\ DOMAIN both = 1..(Len(m) + Len(plan))
      /\ \A i \in DOMAIN both : both[i] = IF i <= Len(m) THEN m[i] ELSE plan[i - Len(m)]
  <2> DEFINE T == DOMAIN files
  <2> HIDE DEF T
  <2>1. m \in Seq(T) /\ plan \in Seq(T)
    BY <1>5, <1>6 DEF T
  <2>2. m \o plan \in Seq(T) /\ DOMAIN (m \o plan) = 1..(Len(m) + Len(plan))
    BY <2>1, <1>4, <1>5
  <2>3. \A i \in DOMAIN (m \o plan) : (m \o plan)[i] = IF i <= Len(m) THEN m[i] ELSE plan[i - Len(m)]
    BY <2>1, <2>2, <1>4, <1>5
  <2> QED
    BY <2>2, <2>3 DEF T
<1> HIDE DEF both
<1>8. ASSUME NEW i \in DOMAIN both
      PROVE  \/ i \in DOMAIN m /\ both[i] = m[i]
             \/ i - Len(m) \in DOMAIN plan /\ ~ i <= Len(m) /\ both[i] = plan[i - Len(m)]
  BY <1>4, <1>5, <1>7
<1>9. \A i \in DOMAIN both : Stands(both[i], files)
  BY <1>4, <1>5, <1>8
<1>10. ASSUME NEW i \in DOMAIN both, NEW j \in DOMAIN both, both[i] = both[j] PROVE i = j
  <2>1. i \in Int /\ j \in Int
    BY <1>7, <1>4, <1>5
  <2>2. CASE i \in DOMAIN m /\ both[i] = m[i]
    <3>1. ~ (j - Len(m) \in DOMAIN plan /\ both[j] = plan[j - Len(m)])
      <4> SUFFICES ASSUME j - Len(m) \in DOMAIN plan, both[j] = plan[j - Len(m)] PROVE FALSE
        OBVIOUS
      <4>1. m[i] # plan[j - Len(m)]
        BY <1>4, <2>2
      <4> QED
        BY <1>10, <2>2, <4>1
    <3>2. j \in DOMAIN m /\ both[j] = m[j]
      BY <1>8, <3>1
    <3> QED
      BY <1>5, <1>10, <2>2, <3>2
  <2>3. CASE i - Len(m) \in DOMAIN plan /\ both[i] = plan[i - Len(m)]
    <3>1. j - Len(m) \in DOMAIN plan /\ both[j] = plan[j - Len(m)]
      BY <1>4, <1>8, <1>10, <2>3
    <3>2. i - Len(m) = j - Len(m)
      BY <1>4, <1>10, <2>3, <3>1
    <3> QED
      BY <1>5, <2>1, <3>2
  <2> QED
    BY <1>8, <2>2, <2>3
<1>11. DeclaredOnce(both, files)
  BY <1>7, <1>9, <1>10 DEF DeclaredOnce, IsInjective
<1>12. GenerationHolds'
  BY <1>1, <1>3, <1>11 DEF GenerationHolds
<1> QED
  BY <1>1, <1>12 DEF SuiteInv, HoldsItsSite, NoDefectTwice

\* The manifest is truncated, filled, or put back by a person.
LEMMA ManifestHolds ==
  ASSUME SuiteInv, Truncate \/ Fill \/ PutBack
  PROVE  SuiteInv'
<1> DEFINE T == Seq(DOMAIN files)
<1>1. manifest \in [whole : BOOLEAN, mutants : T] /\ UNCHANGED files
  BY DEF SuiteInv, Truncate, Fill, PutBack
<1>2. CASE Truncate \/ PutBack
  <2> HIDE DEF T
  <2>1. UNCHANGED gen
    BY <1>2 DEF Truncate, PutBack
  <2>2. PICK whole \in BOOLEAN : manifest' = [whole |-> whole, mutants |-> manifest.mutants]
    BY <1>1, <1>2 DEF Truncate, PutBack
  <2>3. manifest' \in [whole : BOOLEAN, mutants : T] /\ manifest'.mutants = manifest.mutants
    BY <1>1, <2>2
  <2> QED
    BY <1>1, <2>1, <2>3 DEF SuiteInv, GenerationHolds, HoldsItsSite, NoDefectTwice, T
<1>3. CASE Fill
  <2>1. gen.pc = "filling" /\ manifest' = [whole |-> TRUE, mutants |-> gen.declare] /\ gen'.pc = "idle"
    BY <1>3 DEF Fill, Resting
  <2>2. DeclaredOnce(gen.declare, files) /\ gen.declare \in T
    BY <2>1 DEF SuiteInv, GenerationHolds, DeclaredOnce
  <2> HIDE DEF T
  <2>3. manifest' \in [whole : BOOLEAN, mutants : T] /\ manifest'.mutants = gen.declare
    BY <2>1, <2>2
  <2> QED
    BY <1>1, <2>1, <2>2, <2>3 DEF SuiteInv, GenerationHolds, HoldsItsSite, NoDefectTwice, T
<1> QED
  BY <1>2, <1>3

\* A generation ends with nothing to do, or dies, maybe inside a diff.
LEMMA StopHolds ==
  ASSUME SuiteInv, Acknowledge \/ GenerationDies
  PROVE  SuiteInv'
<1>1. gen'.pc = "idle" /\ UNCHANGED manifest
  BY DEF Acknowledge, GenerationDies, Resting
<1>2. GenerationHolds'
  BY <1>1 DEF GenerationHolds
<1>3. CASE UNCHANGED files
  BY <1>1, <1>2, <1>3 DEF SuiteInv, HoldsItsSite, NoDefectTwice
<1>4. CASE gen.pc = "writing" /\ gen.done < Len(gen.plan) /\ Put(gen.plan[gen.done + 1], Torn)
  <2> DEFINE path == gen.plan[gen.done + 1]
  <2>1. \A k \in DOMAIN manifest.mutants : manifest.mutants[k] # path
    BY <1>4, NextDiffIs
  <2>2. Put(path, Torn)
    BY <1>4
  <2> HIDE DEF path
  <2>3. /\ manifest \in [whole : BOOLEAN, mutants : Seq(DOMAIN files')]
        /\ DeclaredOnce(manifest.mutants, files') /\ HoldsItsSite' /\ NoDefectTwice'
    BY <2>1, <2>2, PutIs
  <2> QED
    BY <1>1, <1>2, <2>3 DEF SuiteInv
<1> QED
  BY <1>3, <1>4 DEF Acknowledge, GenerationDies

\* A person adds a defect the suite does not hold.
LEMMA ByHandHolds ==
  ASSUME SuiteInv, NEW site \in Hands, ByHand(site)
  PROVE  SuiteInv'
<1> DEFINE path == <<NextIndex(manifest.mutants, files), site>>
           m == manifest.mutants
           more == Append(m, path)
<1>1. path[2] = site /\ site # Torn
  BY SuiteAssumption DEF Torn
<1> HIDE DEF path
<1>2. /\ gen.pc \in {"idle", "writing"} /\ site \notin Range(files) /\ \A p \in DOMAIN files : p[2] # site
      /\ gen.pc = "writing" => \A i \in DOMAIN gen.plan : gen.plan[i][2] # site
      /\ Put(path, site) /\ manifest' = [manifest EXCEPT !.mutants = more] /\ UNCHANGED gen
  BY DEF ByHand, path
<1>3. path \notin DOMAIN files /\ \A p \in DOMAIN files : files[p] # site
  BY <1>1, <1>2 DEF Range
<1>4. DeclaredOnce(m, files) /\ m \in Seq(DOMAIN files)
  BY DEF SuiteInv, DeclaredOnce
<1>5. \A k \in DOMAIN m : m[k] # path
  BY <1>3, <1>4 DEF DeclaredOnce, Stands
<1>6. /\ DOMAIN files' = DOMAIN files \cup {path} /\ files'[path] = site
      /\ \A p \in DOMAIN files : p # path => files'[p] = files[p]
      /\ manifest \in [whole : BOOLEAN, mutants : Seq(DOMAIN files')]
      /\ DeclaredOnce(m, files') /\ HoldsItsSite' /\ NoDefectTwice'
  BY <1>1, <1>2, <1>3, <1>5, PutIs
<1> HIDE DEF m
<1>7. Stands(path, files')
  BY <1>1, <1>6 DEF Stands
<1>8. /\ more \in Seq(DOMAIN files') /\ DOMAIN more = 1..(Len(m) + 1) /\ Len(m) \in Nat /\ DOMAIN m = 1..Len(m)
      /\ \A i \in DOMAIN more : more[i] = IF i = Len(m) + 1 THEN path ELSE m[i]
  <2> DEFINE T == DOMAIN files'
  <2>1. path \in T /\ m \in Seq(T)
    BY <1>6 DEF DeclaredOnce
  <2> HIDE DEF T
  <2>2. Append(m, path) \in Seq(T) /\ DOMAIN m = 1..Len(m) /\ Len(m) \in Nat
        /\ DOMAIN Append(m, path) = 1..(Len(m) + 1)
        /\ \A i \in 1..(Len(m) + 1) : Append(m, path)[i] = IF i = Len(m) + 1 THEN path ELSE m[i]
    BY <2>1
  <2> QED
    BY <2>2 DEF T
<1> HIDE DEF more
<1>9. \A i \in DOMAIN more : i = Len(m) + 1 \/ i \in DOMAIN m
  BY <1>8
<1>10. DeclaredOnce(more, files')
  <2>1. \A i \in DOMAIN more : Stands(more[i], files')
    BY <1>6, <1>7, <1>8, <1>9 DEF DeclaredOnce
  <2>2. \A i, j \in DOMAIN more : more[i] = more[j] => i = j
    <3>1. \A i, j \in DOMAIN m : m[i] = m[j] => i = j
      BY <1>6 DEF DeclaredOnce, IsInjective
    <3>2. \A i \in DOMAIN m : i # Len(m) + 1
      BY <1>8
    <3> QED
      BY <1>5, <1>8, <1>9, <3>1, <3>2 DEF m
  <2> QED
    BY <1>8, <2>1, <2>2 DEF DeclaredOnce, IsInjective
<1>11. manifest' \in [whole : BOOLEAN, mutants : Seq(DOMAIN files')] /\ manifest'.mutants = more
  <2> DEFINE T == Seq(DOMAIN files')
  <2> HIDE DEF T
  <2>1. manifest \in [whole : BOOLEAN, mutants : T] /\ more \in T
    BY <1>6, <1>8 DEF T
  <2>2. manifest' \in [whole : BOOLEAN, mutants : T] /\ manifest'.mutants = more
    BY <1>2, <2>1
  <2> QED
    BY <2>2 DEF T
<1>12. ASSUME gen.pc = "writing"
       PROVE  PlanHolds(gen.plan, gen.done, more, files')
  <2> DEFINE plan == gen.plan
             done == gen.done
  <2>1. PlanHolds(plan, done, m, files) /\ \A i \in DOMAIN plan : plan[i][2] # site
    BY <1>2, <1>12 DEF SuiteInv, GenerationHolds, m
  <2> HIDE DEF plan, done
  <2>2. \A i \in DOMAIN plan : plan[i] # path
    BY <1>1, <2>1
  <2>3. ASSUME NEW i \in DOMAIN plan
        PROVE  /\ plan[i][2] # Torn /\ \A k \in DOMAIN more : more[k] # plan[i]
               /\ i <= done => Stands(plan[i], files')
               /\ i > done => \A p \in DOMAIN files' : files'[p] # plan[i][2]
    <3>1. /\ plan[i][2] # Torn /\ \A k \in DOMAIN m : m[k] # plan[i]
          /\ i <= done => Stands(plan[i], files)
          /\ i > done => \A p \in DOMAIN files : files[p] # plan[i][2]
      BY <2>1 DEF PlanHolds
    <3>2. \A k \in DOMAIN more : more[k] # plan[i]
      BY <1>8, <1>9, <2>2, <3>1
    <3>3. i <= done => Stands(plan[i], files')
      BY <1>6, <2>2, <3>1 DEF Stands
    <3>4. i > done => \A p \in DOMAIN files' : files'[p] # plan[i][2]
      BY <1>6, <2>1, <3>1
    <3> QED
      BY <3>1, <3>2, <3>3, <3>4
  <2>4. PlanHolds(plan, done, more, files')
    BY <2>1, <2>3 DEF PlanHolds
  <2> QED
    BY <2>4 DEF plan, done
<1>13. GenerationHolds'
  BY <1>2, <1>11, <1>12 DEF GenerationHolds, SuiteInv
<1> QED
  BY <1>6, <1>10, <1>11, <1>13 DEF SuiteInv

LEMMA SuiteNextHolds == SuiteInv /\ [SuiteNext]_suiteVars => SuiteInv'
<1> SUFFICES ASSUME SuiteInv, [SuiteNext]_suiteVars PROVE SuiteInv'
  OBVIOUS
<1>1. CASE UNCHANGED suiteVars
  BY <1>1 DEF suiteVars, SuiteInv, GenerationHolds, HoldsItsSite, NoDefectTwice
<1>2. CASE SuiteNext
  BY <1>2, StartHolds, WriteDiffHolds, RereadHolds, ManifestHolds, StopHolds, ByHandHolds DEF SuiteNext
<1> QED
  BY <1>1, <1>2

LEMMA SuiteInvariant == SuiteSpec => []SuiteInv
<1> QED
  BY SuiteInitHolds, SuiteNextHolds, PTL DEF SuiteSpec

\* However often a generation is killed and run again, no defect is in a suite
\* twice, though the manifest declares only part of what lies there (digests).
THEOREM DefectsOnce == SuiteSpec => []NoDefectTwice
<1>1. SuiteInv => NoDefectTwice
  BY DEF SuiteInv
<1> QED
  BY <1>1, SuiteInvariant, PTL

\* What the manifest declares is on disk, whole, and declared once: it is
\* rewritten only when every diff of the plan is written (Write, then the
\* manifest).
THEOREM DeclaredStands == SuiteSpec => []DeclaredIsWhole
<1>1. SuiteInv => DeclaredIsWhole
  BY DEF SuiteInv, DeclaredOnce, Stands, DeclaredIsWhole
<1> QED
  BY <1>1, SuiteInvariant, PTL
=============================================================================
