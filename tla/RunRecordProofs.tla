-------------------------- MODULE RunRecordProofs --------------------------
(***************************************************************************)
(* The record of a run says what its rows say: proofs about RunRecord.     *)
(*                                                                         *)
(* The argument has three layers.  Over the rows of one split, whatever    *)
(* their places in the file: one more pair adds one identifier, and leaves *)
(* every other pair as it was (PairAdded).  Over the measurement of a      *)
(* split: the tally in memory is the one a replay would compute from the   *)
(* rows written so far (Live).  Over the run: the verdicts in the header   *)
(* rest on tallies of finished splits, whose rows no later step touches.   *)
(***************************************************************************)
EXTENDS RunRecord, FiniteSetTheorems, TLAPS

ScheduledPair == [task : STRING, repeat : Nat, repeats : Nat]
RowSet ==
  [split : SplitNames \cup {"aa"}, pair : STRING \X Nat, task : STRING, arm : Arms,
   outcome : Outcomes, stored : PairOutcomes \cup {Pending}, repeats : Nat]

IdOf(p) == <<p.task, p.repeat>>
IdsUpTo(S, m) == {IdOf(S[k]) : k \in 1..m}

\* No two scheduled pairs have one identifier.
Planned(S) ==
  /\ S \in Seq(ScheduledPair)
  /\ \A j, k \in 1..Len(S) : IdOf(S[j]) = IdOf(S[k]) => j = k

\* The pairs of a schedule state their task's repeats, or none states any.
OfTaskIn(S, t) == {j \in 1..Len(S) : S[j].task = t}
StatesRepeats(S) == \A k \in 1..Len(S) : S[k].repeats = Cardinality(OfTaskIn(S, S[k].task))
StatesNone(S) == \A k \in 1..Len(S) : S[k].repeats = 0

(***************************************************************************)
(* Rows.                                                                   *)
(***************************************************************************)
\* One row on each arm for these pairs and no row of another.
OnePerArm(R, ids) ==
  /\ PairIds(R) = ids
  /\ \A id \in ids, arm \in Arms : \E k \in DOMAIN R : RowsOf(R, id, arm) = {k}
Consistent(R) == \A k \in DOMAIN R : R[k].stored = OutcomeOf(R, R[k].pair)
RowsFit(R, S) ==
  \A k \in DOMAIN R : \E i \in 1..Len(S) :
    R[k].pair = IdOf(S[i]) /\ R[k].task = S[i].task /\ R[k].repeats = S[i].repeats

\* R2 is R and, further on, the two rows of one more pair.
Follows(R, R2, p, base, edit) ==
  \E i, j \in Nat :
    /\ i # j /\ i \notin DOMAIN R /\ j \notin DOMAIN R
    /\ DOMAIN R2 = DOMAIN R \cup {i, j}
    /\ \A k \in DOMAIN R : R2[k] = R[k]
    /\ R2[i].arm = "base" /\ R2[i].outcome = base
    /\ R2[j].arm = "edit" /\ R2[j].outcome = edit
    /\ \A k \in {i, j} : /\ R2[k].pair = IdOf(p) /\ R2[k].task = p.task
                         /\ R2[k].repeats = p.repeats /\ R2[k].stored = Stored(base, edit)

\* The pair is joined under its outcome, and nothing else changes.
JoinsOne(R, R2, p, st) ==
  \A X : JoinedAs(R2, X) = JoinedAs(R, X) \cup (IF st \in X THEN {IdOf(p)} ELSE {})

\* The tasks of a schedule whose pairs the baseline won, every one.
LostSet(S, R) ==
  {t \in {S[k].task : k \in 1..Len(S)} :
     \A k \in 1..Len(S) : S[k].task = t => IdOf(S[k]) \in JoinedAs(R, {BaselineWon})}

Counts(R, e) ==
  /\ e.wins = Cardinality(JoinedAs(R, {EditWon}))
  /\ e.losses = Cardinality(JoinedAs(R, {BaselineWon}))
  /\ e.ties = Cardinality(JoinedAs(R, {Tie}))

\* A split m pairs of whose schedule S are among the rows R, and tallied as e.
Live(R, S, m, e) ==
  /\ OnePerArm(R, IdsUpTo(S, m)) /\ Consistent(R) /\ RowsFit(R, S)
  /\ Counts(R, e) /\ e.lost = Cardinality(LostSet(S, R))

\* What a replay finds in the rows R of a split that ended with the tally e.
Books(R, e) ==
  /\ OddPairs(R) = {} /\ Misstated(R) = {}
  /\ Counts(R, e)
  /\ e.lost = 0 => LostFrom(R) = {}
  /\ Uncut => Cardinality(LostFrom(R)) = e.lost

(***************************************************************************)
(* The run.                                                                *)
(***************************************************************************)
NoRows(s) == \A k \in DOMAIN journal : journal[k].split # s

\* An entry of the header is the reading of a tally the rows bear out.
Entry(k, s) ==
  /\ header.verdicts[k].split = s
  /\ header.verdicts[k].verdict = VerdictOn(s, header.verdicts[k].evidence)
  /\ Books(OfSplit(journal, s), header.verdicts[k].evidence)
  /\ 0 < Cap => Replayed(journal, s)

OneEntry == Len(header.verdicts) = 1 /\ Entry(1, "held_in") /\ NoRows("held_out")
TwoEntries == Len(header.verdicts) = 2 /\ Entry(1, "held_in") /\ Entry(2, "held_out")

Typed ==
  /\ stage \in Stages /\ next \in Nat /\ evidence \in Evidence
  /\ header \in Headers /\ journal \in Seq(RowSet)
  /\ Measuring => next <= Len(StageSchedule)

SplitInv ==
  /\ stage \in SplitNames =>
       /\ Live(OfSplit(journal, stage), Schedule(stage, Cap), next, evidence)
       /\ next = 0 => evidence = NoEvidence
       /\ NoRows("aa") /\ ~header.promote
  /\ stage = "held_in" => header.verdicts = <<>> /\ NoRows("held_out")
  /\ stage = "held_out" => Len(header.verdicts) = 1 /\ Entry(1, "held_in")

Calibrated ==
  /\ OnePerArm(journal, IdsUpTo(AASchedule, next)) /\ Consistent(journal)
  /\ OfSplit(journal, "aa") = journal
  /\ NoRows("held_in") /\ NoRows("held_out")
  /\ header = NewHeader

Settled ==
  /\ NoRows("aa") /\ (OneEntry \/ TwoEntries)

EndInv ==
  /\ stage = "aa" => Calibrated
  /\ stage = "deciding" => Settled /\ ~header.promote
  /\ stage = "done" =>
       /\ runJSON = header
       /\ \/ Calibrated
          \/ /\ Settled
             /\ header.promote = Promote(VerdictIn(header, "held_in"), VerdictIn(header, "held_out"))

IInv == Typed /\ SplitInv /\ EndInv

-----------------------------------------------------------------------------
(***************************************************************************)
(* Rows, one pair at a time.                                               *)
(***************************************************************************)
\* The last of one position is that position.
LEMMA MaxOfOne == \A k \in Int : Max({k}) = k
BY DEF Max

\* With one row on each arm, a pair's row is the row it has.
LEMMA RowIs ==
  ASSUME NEW R, NEW id, NEW arm, NEW k \in Int, RowsOf(R, id, arm) = {k}
  PROVE  Row(R, id, arm) = R[k]
BY MaxOfOne DEF Row

LEMMA AllJoined ==
  ASSUME NEW R, NEW ids, OnePerArm(R, ids)
  PROVE  Joined(R) = ids
BY DEF OnePerArm, Joined

\* A split without a row.
LEMMA Unwritten ==
  ASSUME NEW R, DOMAIN R = {}
  PROVE  /\ OnePerArm(R, {}) /\ Consistent(R) /\ Joined(R) = {} /\ PairIds(R) = {}
         /\ \A X : JoinedAs(R, X) = {}
<1>1. PairIds(R) = {}
  BY DEF PairIds
<1>2. Joined(R) = {}
  BY <1>1 DEF Joined
<1> QED
  BY <1>1, <1>2 DEF OnePerArm, Consistent, JoinedAs

\* One more pair is one more identifier, joined as its outcome says; every
\* pair that was there is as it was.
LEMMA PairAdded ==
  ASSUME NEW R, NEW R2, NEW p, NEW base, NEW edit, NEW ids,
         OnePerArm(R, ids), Consistent(R), Follows(R, R2, p, base, edit),
         IdOf(p) \notin ids, DOMAIN R \subseteq Nat, \A k \in DOMAIN R : R[k].arm \in Arms
  PROVE  /\ OnePerArm(R2, ids \cup {IdOf(p)}) /\ Consistent(R2)
         /\ JoinsOne(R, R2, p, Stored(base, edit))
<1> DEFINE id == IdOf(p)  st == Stored(base, edit)
<1> HIDE DEF id, st
<1>a. id \notin ids /\ id = IdOf(p) /\ st = Stored(base, edit)
  BY DEF id, st
<1> PICK i, j \in Nat :
    /\ i # j /\ i \notin DOMAIN R /\ j \notin DOMAIN R
    /\ DOMAIN R2 = DOMAIN R \cup {i, j}
    /\ \A k \in DOMAIN R : R2[k] = R[k]
    /\ R2[i].arm = "base" /\ R2[i].outcome = base
    /\ R2[j].arm = "edit" /\ R2[j].outcome = edit
    /\ \A k \in {i, j} : R2[k].pair = id /\ R2[k].stored = st
  BY DEF Follows, id, st
<1>1. \A k \in DOMAIN R : R[k].pair \in ids
  BY DEF OnePerArm, PairIds
<1>2. PairIds(R2) = ids \cup {id}
  BY DEF OnePerArm, PairIds
<1>3. \A x \in ids, arm \in Arms : RowsOf(R2, x, arm) = RowsOf(R, x, arm)
  BY <1>a DEF RowsOf
<1>4. RowsOf(R2, id, "base") = {i} /\ RowsOf(R2, id, "edit") = {j}
  BY <1>a, <1>1 DEF RowsOf
<1>5. OnePerArm(R2, ids \cup {id})
  <2> SUFFICES ASSUME NEW x \in ids \cup {id}, NEW arm \in Arms
               PROVE  \E k \in DOMAIN R2 : RowsOf(R2, x, arm) = {k}
    BY <1>2 DEF OnePerArm
  <2>1. CASE x = id
    BY <2>1, <1>4 DEF Arms
  <2>2. CASE x \in ids
    BY <2>2, <1>3 DEF OnePerArm
  <2> QED
    BY <2>1, <2>2
<1>6. \A x \in ids, arm \in Arms : Row(R2, x, arm) = Row(R, x, arm)
  <2> SUFFICES ASSUME NEW x \in ids, NEW arm \in Arms PROVE Row(R2, x, arm) = Row(R, x, arm)
    OBVIOUS
  <2> PICK k \in DOMAIN R : RowsOf(R, x, arm) = {k}
    BY DEF OnePerArm
  <2> QED
    BY <1>3, RowIs
<1>7. \A x \in ids : OutcomeOf(R2, x) = OutcomeOf(R, x)
  BY <1>6 DEF OutcomeOf, Arms
<1>8. OutcomeOf(R2, id) = st
  BY <1>4, <1>a, RowIs DEF OutcomeOf
<1>9. Consistent(R2)
  BY <1>1, <1>7, <1>8 DEF Consistent
<1>10. Joined(R) = ids /\ Joined(R2) = ids \cup {id}
  BY <1>5, AllJoined
<1>11. \A X : JoinedAs(R2, X) = JoinedAs(R, X) \cup (IF st \in X THEN {id} ELSE {})
  BY <1>7, <1>8, <1>10, <1>a DEF JoinedAs
<1> QED
  BY <1>5, <1>9, <1>11 DEF id, st, JoinsOne

\* A new pair's rows are rows of the schedule, when the pair is.
LEMMA FitKept ==
  ASSUME NEW R, NEW R2, NEW S, NEW m \in 1..Len(S), NEW base, NEW edit,
         RowsFit(R, S), Follows(R, R2, S[m], base, edit)
  PROVE  RowsFit(R2, S)
BY DEF RowsFit, Follows

-----------------------------------------------------------------------------
(***************************************************************************)
(* The tally of a split.                                                   *)
(***************************************************************************)
\* The values of a function over a finite set are finitely many, and as many
\* as the set when no two agree.
LEMMA Values ==
  ASSUME NEW f, NEW D, IsFiniteSet(D)
  PROVE  /\ IsFiniteSet({f[k] : k \in D})
         /\ (\A j, k \in D : f[j] = f[k] => j = k) =>
              Cardinality({f[k] : k \in D}) = Cardinality(D)
<1> DEFINE T == {f[k] : k \in D}  g == [k \in D |-> f[k]]
<1>1. g \in Surjection(D, T)
  BY DEF Surjection
<1>2. (\A j, k \in D : f[j] = f[k] => j = k) => g \in Injection(D, T)
  BY DEF Injection, IsInjective
<1> QED
  BY <1>1, <1>2, FS_Surjection

\* The identifiers of some pairs of a schedule are as many as the pairs.
LEMMA IdsOf ==
  ASSUME NEW S, Planned(S), NEW D \in SUBSET (1..Len(S))
  PROVE  LET ids == {IdOf(S[k]) : k \in D}
         IN  IsFiniteSet(D) /\ IsFiniteSet(ids) /\ Cardinality(ids) = Cardinality(D)
<1> DEFINE f == [k \in D |-> IdOf(S[k])]
<1>1. Len(S) \in Nat
  BY DEF Planned
<1>2. IsFiniteSet(D)
  <2>1. IsFiniteSet(1..Len(S))
    BY <1>1, FS_Interval
  <2> QED
    BY <2>1, FS_Subset
<1>3. {f[k] : k \in D} = {IdOf(S[k]) : k \in D}
  OBVIOUS
<1>4. \A j, k \in D : f[j] = f[k] => j = k
  BY DEF Planned
<1> HIDE DEF f
<1>5. IsFiniteSet({f[k] : k \in D}) /\ Cardinality({f[k] : k \in D}) = Cardinality(D)
  BY <1>2, <1>4, Values
<1> QED
  BY <1>2, <1>3, <1>5

LEMMA JoinedFinite ==
  ASSUME NEW S, Planned(S), NEW m \in 0..Len(S), NEW R, OnePerArm(R, IdsUpTo(S, m))
  PROVE  \A X : IsFiniteSet(JoinedAs(R, X))
<1>1. 1..m \in SUBSET (1..Len(S))
  BY DEF Planned
<1>2. IsFiniteSet(Joined(R))
  BY <1>1, IdsOf, AllJoined DEF IdsUpTo
<1> QED
  BY <1>2, FS_Subset DEF JoinedAs

LEMMA LostFinite ==
  ASSUME NEW S, Planned(S), NEW R
  PROVE  IsFiniteSet(LostSet(S, R))
<1> DEFINE f == [k \in 1..Len(S) |-> S[k].task]
<1>1. Len(S) \in Nat
  BY DEF Planned
<1>2. IsFiniteSet(1..Len(S))
  BY <1>1, FS_Interval
<1>3. IsFiniteSet({f[k] : k \in 1..Len(S)})
  BY <1>2, Values
<1>4. LostSet(S, R) \subseteq {f[k] : k \in 1..Len(S)}
  BY DEF LostSet
<1> HIDE DEF f
<1> QED
  BY <1>3, <1>4, FS_Subset

\* tally.lostTasks counts the tasks all of whose pairs the baseline won.
LEMMA LostCounted ==
  ASSUME NEW R, NEW ids, OnePerArm(R, ids), Consistent(R),
         DOMAIN StageSchedule = 1..Len(StageSchedule)
  PROVE  LostTasks(R) = Cardinality(LostSet(StageSchedule, R))
<1> DEFINE S == StageSchedule
           Row1(t, k) == \E row \in Range(R) : /\ row.pair = <<t, S[k].repeat>>
                                              /\ row.stored = BaselineWon
<1>1. ASSUME NEW k, NEW t, S[k].task = t
      PROVE  Row1(t, k) <=> IdOf(S[k]) \in JoinedAs(R, {BaselineWon})
  <2> DEFINE id == IdOf(S[k])
  <2>0. id = <<t, S[k].repeat>>
    BY <1>1 DEF IdOf
  <2> HIDE DEF id
  <2>j. Joined(R) = ids
    BY AllJoined
  <2>1. ASSUME Row1(t, k) PROVE id \in JoinedAs(R, {BaselineWon})
    <3> PICK x \in DOMAIN R : R[x].pair = id /\ R[x].stored = BaselineWon
      BY <2>0, <2>1 DEF Range
    <3> QED
      BY <2>j DEF OnePerArm, PairIds, JoinedAs, Consistent
  <2>2. ASSUME id \in JoinedAs(R, {BaselineWon}) PROVE Row1(t, k)
    <3>1. id \in ids /\ OutcomeOf(R, id) = BaselineWon
      BY <2>2, AllJoined DEF JoinedAs
    <3> PICK x \in DOMAIN R : RowsOf(R, id, "edit") = {x}
      BY <3>1 DEF OnePerArm, Arms
    <3>2. R[x].pair = id
      BY DEF RowsOf
    <3> QED
      BY <3>1, <3>2, <2>0 DEF Consistent, Range
  <2> QED
    BY <2>1, <2>2 DEF id
<1> DEFINE T == {S[k].task : k \in 1..Len(S)}
           Won(k) == IdOf(S[k]) \in JoinedAs(R, {BaselineWon})
<1>2. DOMAIN S = 1..Len(S) =>
        {t \in {S[k].task : k \in DOMAIN S} : \A k \in DOMAIN S : S[k].task = t => Row1(t, k)} =
          {t \in T : \A k \in 1..Len(S) : S[k].task = t => Won(k)}
  <2> HIDE DEF S, Row1, Won
  <2> SUFFICES ASSUME DOMAIN S = 1..Len(S), \A k, t : S[k].task = t => (Row1(t, k) <=> Won(k))
               PROVE {t \in {S[k].task : k \in DOMAIN S} : \A k \in DOMAIN S : S[k].task = t => Row1(t, k)} =
                      {t \in T : \A k \in 1..Len(S) : S[k].task = t => Won(k)}
    BY <1>1 DEF Won
  <2> QED
    OBVIOUS
<1> QED
  BY <1>2 DEF LostTasks, LostSet

\* With nothing won by the baseline no task is lost.
LEMMA NothingLost ==
  ASSUME NEW S, NEW R, JoinedAs(R, {BaselineWon}) = {}
  PROVE  LostSet(S, R) = {}
BY DEF LostSet

LEMMA LiveStarts ==
  ASSUME NEW S, NEW R, DOMAIN R = {}
  PROVE  Live(R, S, 0, NoEvidence)
<1>1. IdsUpTo(S, 0) = {}
  BY DEF IdsUpTo
<1>2. RowsFit(R, S)
  BY DEF RowsFit
<1> QED
  BY <1>1, <1>2, Unwritten, NothingLost, FS_EmptySet DEF Live, Counts, NoEvidence

\* The next pair of a schedule is new, and is then among those written.
LEMMA NextIsNew ==
  ASSUME NEW S, Planned(S), NEW m \in Nat, m < Len(S)
  PROVE  /\ IdOf(S[m + 1]) \notin IdsUpTo(S, m)
         /\ IdsUpTo(S, m + 1) = IdsUpTo(S, m) \cup {IdOf(S[m + 1])}
         /\ m + 1 \in 1..Len(S)
<1>1. Len(S) \in Nat
  BY DEF Planned
<1>2. IdsUpTo(S, m + 1) = IdsUpTo(S, m) \cup {IdOf(S[m + 1])}
  <2>1. 1..(m + 1) = (1..m) \cup {m + 1}
    OBVIOUS
  <2> QED
    BY <2>1 DEF IdsUpTo
<1>3. \A k \in 1..m : k \in 1..Len(S) /\ k # m + 1
  BY <1>1
<1> QED
  BY <1>1, <1>2, <1>3 DEF Planned, IdsUpTo

\* What was joined was written earlier, so the new pair is not among it.
LEMMA NotJoined ==
  ASSUME NEW R, NEW ids, OnePerArm(R, ids), NEW id, id \notin ids
  PROVE  \A X : id \notin JoinedAs(R, X)
BY AllJoined DEF JoinedAs

\* Observing a pair moves the one counter its outcome names.
LEMMA ObserveIs ==
  ASSUME NEW e \in Evidence, NEW o \in PairOutcomes
  PROVE  /\ Observe(e, o) \in Evidence
         /\ Observe(e, o).wins = (IF o = 1 THEN e.wins + 1 ELSE e.wins)
         /\ Observe(e, o).losses = (IF o = -1 THEN e.losses + 1 ELSE e.losses)
         /\ Observe(e, o).ties = (IF o = 0 THEN e.ties + 1 ELSE e.ties)
<1> DEFINE x == Observe(e, o)
<1>0. e.wins \in Nat /\ e.losses \in Nat /\ e.ties \in Nat
  BY DEF Evidence
<1>1. CASE o = 1
  <2>1. x = [e EXCEPT !.wins = @ + 1]
    BY <1>1 DEF Observe
  <2> HIDE DEF x
  <2>2. x \in Evidence /\ x.wins = e.wins + 1 /\ x.losses = e.losses /\ x.ties = e.ties
    BY <2>1, <1>0 DEF Evidence
  <2> QED
    BY <2>2, <1>1 DEF x
<1>2. CASE o = -1
  <2>1. x = [e EXCEPT !.losses = @ + 1]
    BY <1>2 DEF Observe
  <2> HIDE DEF x
  <2>2. x \in Evidence /\ x.wins = e.wins /\ x.losses = e.losses + 1 /\ x.ties = e.ties
    BY <2>1, <1>0 DEF Evidence
  <2> QED
    BY <2>2, <1>2 DEF x
<1>3. CASE o = 0
  <2>1. x = [e EXCEPT !.ties = @ + 1]
    BY <1>3 DEF Observe
  <2> HIDE DEF x
  <2>2. x \in Evidence /\ x.wins = e.wins /\ x.losses = e.losses /\ x.ties = e.ties + 1
    BY <2>1, <1>0 DEF Evidence
  <2> QED
    BY <2>2, <1>3 DEF x
<1> QED
  BY <1>1, <1>2, <1>3 DEF PairOutcomes, EditWon, Tie, BaselineWon

LEMMA OutcomesKnown == \A base, edit : PairOutcome(base, edit) \in PairOutcomes
BY DEF PairOutcome, PairOutcomes

\* An answered pair moves the one counter its outcome names.
LEMMA LiveCounted ==
  ASSUME NEW S, Planned(S), NEW m \in Nat, m < Len(S), NEW R, NEW R2, NEW e \in Evidence,
         NEW base \in Answers, NEW edit \in Answers,
         Live(R, S, m, e), Follows(R, R2, S[m + 1], base, edit),
         DOMAIN R \subseteq Nat, \A k \in DOMAIN R : R[k].arm \in Arms
  PROVE  Live(R2, S, m + 1, [Observe(e, PairOutcome(base, edit)) EXCEPT
                               !.lost = Cardinality(LostSet(S, R2))])
<1> DEFINE id == IdOf(S[m + 1])  st == Stored(base, edit)
           J(X) == JoinedAs(R, X)  J2(X) == JoinedAs(R2, X)
<1>1. id \notin IdsUpTo(S, m) /\ IdsUpTo(S, m + 1) = IdsUpTo(S, m) \cup {id} /\ m + 1 \in 1..Len(S)
  BY NextIsNew
<1>2. OnePerArm(R2, IdsUpTo(S, m + 1)) /\ Consistent(R2)
  BY <1>1, PairAdded DEF Live
<1>3. \A X : J2(X) = J(X) \cup (IF st \in X THEN {id} ELSE {})
  <2>1. JoinsOne(R, R2, S[m + 1], st)
    BY <1>1, PairAdded DEF Live
  <2> QED
    BY <2>1 DEF JoinsOne
<1>4. RowsFit(R2, S)
  BY <1>1, FitKept DEF Live
<1>5. \A X : id \notin J(X) /\ IsFiniteSet(J(X))
  <2>1. m \in 0..Len(S)
    BY DEF Planned
  <2> QED
    BY <1>1, <2>1, NotJoined, JoinedFinite DEF Live
<1>6. st = PairOutcome(base, edit) /\ st \in {EditWon, Tie, BaselineWon}
  BY DEF Stored, Counted, Answered, PairOutcome
<1> HIDE DEF id, st, J, J2
<1>7. \A X : Cardinality(J2(X)) = IF st \in X THEN Cardinality(J(X)) + 1 ELSE Cardinality(J(X))
  <2> TAKE X
  <2>1. CASE st \in X
    BY <2>1, <1>3, <1>5, FS_AddElement
  <2>2. CASE st \notin X
    BY <2>2, <1>3
  <2> QED
    BY <2>1, <2>2
<1>8. Counts(R, e) /\ e.wins \in Nat /\ e.losses \in Nat /\ e.ties \in Nat
  BY DEF Live, Evidence
<1> DEFINE o == Observe(e, st)
           e2 == [o EXCEPT !.lost = Cardinality(LostSet(S, R2))]
<1>9. o \in Evidence /\ o.wins = (IF st = 1 THEN e.wins + 1 ELSE e.wins)
      /\ o.losses = (IF st = -1 THEN e.losses + 1 ELSE e.losses)
      /\ o.ties = (IF st = 0 THEN e.ties + 1 ELSE e.ties)
  BY <1>6, ObserveIs DEF PairOutcomes
<1> HIDE DEF o
<1>10. e2.wins = o.wins /\ e2.losses = o.losses /\ e2.ties = o.ties
       /\ e2.lost = Cardinality(LostSet(S, R2))
  BY <1>9 DEF Evidence
<1>11. Counts(R2, e2)
  <2>1. /\ Cardinality(J2({EditWon})) = IF st = 1 THEN e.wins + 1 ELSE e.wins
        /\ Cardinality(J2({BaselineWon})) = IF st = -1 THEN e.losses + 1 ELSE e.losses
        /\ Cardinality(J2({Tie})) = IF st = 0 THEN e.ties + 1 ELSE e.ties
    BY <1>7, <1>8 DEF Counts, J, EditWon, Tie, BaselineWon
  <2> HIDE DEF e2
  <2> QED
    BY <2>1, <1>9, <1>10 DEF Counts, J2
<1> QED
  BY <1>2, <1>4, <1>6, <1>10, <1>11 DEF Live, o

\* An unanswered pair moves none.
LEMMA LivePending ==
  ASSUME NEW S, Planned(S), NEW m \in Nat, m < Len(S), NEW R, NEW R2, NEW e,
         NEW base, NEW edit, ~Counted(base, edit),
         Live(R, S, m, e), Follows(R, R2, S[m + 1], base, edit),
         DOMAIN R \subseteq Nat, \A k \in DOMAIN R : R[k].arm \in Arms
  PROVE  Live(R2, S, m + 1, e)
<1> DEFINE id == IdOf(S[m + 1])  st == Stored(base, edit)
<1>1. id \notin IdsUpTo(S, m) /\ IdsUpTo(S, m + 1) = IdsUpTo(S, m) \cup {id} /\ m + 1 \in 1..Len(S)
  BY NextIsNew
<1>2. OnePerArm(R2, IdsUpTo(S, m + 1)) /\ Consistent(R2)
  BY <1>1, PairAdded DEF Live
<1>3. \A X : JoinedAs(R2, X) = JoinedAs(R, X) \cup (IF st \in X THEN {id} ELSE {})
  <2>1. JoinsOne(R, R2, S[m + 1], st)
    BY <1>1, PairAdded DEF Live
  <2> QED
    BY <2>1 DEF JoinsOne
<1>4. RowsFit(R2, S)
  BY <1>1, FitKept DEF Live
<1>5. st = 2
  BY DEF Stored, Pending
<1> HIDE DEF id, st
<1>6. /\ JoinedAs(R2, {EditWon}) = JoinedAs(R, {EditWon})
      /\ JoinedAs(R2, {BaselineWon}) = JoinedAs(R, {BaselineWon})
      /\ JoinedAs(R2, {Tie}) = JoinedAs(R, {Tie})
  <2>1. \A X : st \notin X => JoinedAs(R2, X) = JoinedAs(R, X)
    <3> TAKE X
    <3> HAVE st \notin X
    <3>1. JoinedAs(R2, X) = JoinedAs(R, X) \cup (IF st \in X THEN {id} ELSE {})
      BY <1>3
    <3> QED
      BY <3>1
  <2>2. st \notin {EditWon} /\ st \notin {BaselineWon} /\ st \notin {Tie}
    BY <1>5 DEF EditWon, Tie, BaselineWon
  <2> QED
    BY <2>1, <2>2
<1>7. LostSet(S, R2) = LostSet(S, R)
  BY <1>6 DEF LostSet
<1> QED
  BY <1>2, <1>4, <1>6, <1>7 DEF Live, Counts

(***************************************************************************)
(* What a replay finds in a split's rows.                                  *)
(***************************************************************************)
\* A joined pair's edit row states its task and the repeats of its schedule.
LEMMA RowSays ==
  ASSUME NEW S, NEW R, NEW ids, OnePerArm(R, ids), RowsFit(R, S), NEW id \in ids,
         DOMAIN R \subseteq Nat
  PROVE  \E i \in 1..Len(S) :
           /\ id = IdOf(S[i]) /\ id[1] = S[i].task
           /\ Row(R, id, "edit").task = S[i].task
           /\ Row(R, id, "edit").repeats = S[i].repeats
<1> PICK k \in DOMAIN R : RowsOf(R, id, "edit") = {k}
  BY DEF OnePerArm, Arms
<1>1. Row(R, id, "edit") = R[k] /\ R[k].pair = id
  <2>1. k \in RowsOf(R, id, "edit") /\ k \in Int
    OBVIOUS
  <2> QED
    BY <2>1, RowIs DEF RowsOf
<1> PICK i \in 1..Len(S) :
      R[k].pair = IdOf(S[i]) /\ R[k].task = S[i].task /\ R[k].repeats = S[i].repeats
  BY DEF RowsFit
<1>2. IdOf(S[i])[1] = S[i].task
  BY DEF IdOf
<1> QED
  BY <1>1, <1>2

\* Every pair of the task.
AllOf(S, t) == {IdOf(S[j]) : j \in OfTaskIn(S, t)}

LEMMA AllOfFinite ==
  ASSUME NEW S, Planned(S), NEW t
  PROVE  IsFiniteSet(AllOf(S, t)) /\ Cardinality(AllOf(S, t)) = Cardinality(OfTaskIn(S, t))
<1>1. OfTaskIn(S, t) \in SUBSET (1..Len(S))
  BY DEF OfTaskIn
<1> QED
  BY <1>1, IdsOf DEF AllOf

\* The rows of a task are those of its pairs.
LEMMA OfTaskIs ==
  ASSUME NEW S, NEW R, NEW ids, OnePerArm(R, ids), RowsFit(R, S), DOMAIN R \subseteq Nat,
         NEW X, X \subseteq ids, NEW t
  PROVE  OfTask(R, X, t) = X \cap AllOf(S, t)
<1>1. ASSUME NEW id \in OfTask(R, X, t) PROVE id \in AllOf(S, t)
  <2>1. id \in ids /\ Row(R, id, "edit").task = t
    BY DEF OfTask
  <2> PICK i \in 1..Len(S) : id = IdOf(S[i]) /\ Row(R, id, "edit").task = S[i].task
    BY <2>1, RowSays
  <2> QED
    BY <2>1 DEF AllOf, OfTaskIn
<1>2. ASSUME NEW id \in X, id \in AllOf(S, t) PROVE id \in OfTask(R, X, t)
  <2> PICK i \in 1..Len(S) : id[1] = S[i].task /\ Row(R, id, "edit").task = S[i].task
    BY RowSays
  <2> PICK j \in OfTaskIn(S, t) : id = IdOf(S[j])
    BY <1>2 DEF AllOf
  <2>1. id[1] = t
    BY DEF IdOf, OfTaskIn
  <2> QED
    BY <2>1 DEF OfTask
<1> QED
  BY <1>1, <1>2 DEF OfTask

\* The repeats a replay reads for a task that has a pair.
LEMMA RepeatsRead ==
  ASSUME NEW S, NEW R, NEW ids, OnePerArm(R, ids), RowsFit(R, S), DOMAIN R \subseteq Nat,
         NEW id0 \in ids
  PROVE  \E i \in 1..Len(S) : /\ S[i].task = Row(R, id0, "edit").task
                              /\ RepeatsOf(R, Row(R, id0, "edit").task) = S[i].repeats
<1> DEFINE t == Row(R, id0, "edit").task
           some == OfTask(R, Joined(R), t)
           id == CHOOSE x \in some : TRUE
<1>1. Joined(R) = ids
  BY AllJoined
<1>2. id0 \in some
  BY <1>1 DEF OfTask
<1>3. id \in some
  BY <1>2
<1>4. id \in ids /\ Row(R, id, "edit").task = t
  BY <1>1, <1>3 DEF OfTask
<1>5. RepeatsOf(R, t) = Row(R, id, "edit").repeats
  BY DEF RepeatsOf
<1> HIDE DEF id
<1> PICK i \in 1..Len(S) : /\ Row(R, id, "edit").task = S[i].task
                           /\ Row(R, id, "edit").repeats = S[i].repeats
  BY <1>4, RowSays
<1> QED
  BY <1>4, <1>5

\* Where the rows state a task's repeats, a replay finds lost the tasks that
\* the tally does.
LEMMA LostAgrees ==
  ASSUME NEW S, Planned(S), StatesRepeats(S), NEW R, NEW m \in 0..Len(S),
         OnePerArm(R, IdsUpTo(S, m)), RowsFit(R, S), DOMAIN R \subseteq Nat
  PROVE  LostFrom(R) = LostSet(S, R)
<1> DEFINE ids == IdsUpTo(S, m)
           lost == JoinedAs(R, {BaselineWon})
           counted == JoinedAs(R, PairOutcomes)
           won(t) == OfTask(R, lost, t)
<1>1. Joined(R) = ids /\ lost \subseteq ids /\ counted \subseteq ids /\ lost \subseteq counted
  <2>1. Joined(R) = ids
    BY AllJoined
  <2> QED
    BY <2>1 DEF JoinedAs, PairOutcomes
<1> HIDE DEF ids, lost, counted
<1>2. \A t : OfTask(R, lost, t) = lost \cap AllOf(S, t)
             /\ OfTask(R, counted, t) = counted \cap AllOf(S, t)
  BY <1>1, OfTaskIs DEF ids
<1>3. \A t : IsFiniteSet(AllOf(S, t)) /\ Cardinality(AllOf(S, t)) = Cardinality(OfTaskIn(S, t))
  BY AllOfFinite
<1>4. ASSUME NEW t \in LostFrom(R) PROVE t \in LostSet(S, R)
  <2> PICK id \in ids : t = Row(R, id, "edit").task
    BY <1>1 DEF LostFrom
  <2> PICK i \in 1..Len(S) : S[i].task = t /\ RepeatsOf(R, t) = S[i].repeats
    BY RepeatsRead DEF ids
  <2>1. RepeatsOf(R, t) = Cardinality(AllOf(S, t))
    BY <1>3 DEF StatesRepeats
  <2>2. Cardinality(OfTask(R, lost, t)) = Cardinality(AllOf(S, t))
    BY <2>1 DEF LostFrom, lost
  <2>3. OfTask(R, lost, t) = AllOf(S, t)
    <3>1. OfTask(R, lost, t) \in SUBSET AllOf(S, t)
      BY <1>2
    <3> QED
      BY <3>1, <2>2, <1>3, FS_Subset
  <2>4. \A k \in 1..Len(S) : S[k].task = t => IdOf(S[k]) \in lost
    <3>1. AllOf(S, t) \subseteq lost
      BY <2>3, <1>2
    <3>2. \A k \in 1..Len(S) : S[k].task = t => IdOf(S[k]) \in AllOf(S, t)
      BY DEF AllOf, OfTaskIn
    <3> QED
      BY <3>1, <3>2
  <2> QED
    BY <2>4 DEF LostSet, lost
<1>5. ASSUME NEW t \in LostSet(S, R) PROVE t \in LostFrom(R)
  <2> PICK i \in 1..Len(S) : S[i].task = t
    BY DEF LostSet
  <2>1. IdOf(S[i]) \in ids
    BY <1>1 DEF LostSet, lost
  <2>2. Row(R, IdOf(S[i]), "edit").task = t
    <3> PICK k \in 1..Len(S) : IdOf(S[i])[1] = S[k].task
                               /\ Row(R, IdOf(S[i]), "edit").task = S[k].task
      BY <2>1, RowSays DEF ids
    <3> QED
      BY DEF IdOf
  <2> PICK k \in 1..Len(S) : S[k].task = t /\ RepeatsOf(R, t) = S[k].repeats
    BY <2>1, <2>2, RepeatsRead DEF ids
  <2>3. RepeatsOf(R, t) = Cardinality(AllOf(S, t))
    BY <1>3 DEF StatesRepeats
  <2>4. AllOf(S, t) \subseteq lost
    BY DEF LostSet, AllOf, OfTaskIn, lost
  <2>5. OfTask(R, lost, t) = AllOf(S, t) /\ OfTask(R, counted, t) = AllOf(S, t)
    BY <2>4, <1>1, <1>2
  <2>6. Cardinality(AllOf(S, t)) \in Nat /\ Cardinality(AllOf(S, t)) # 0
    <3>1. AllOf(S, t) # {}
      BY DEF AllOf, OfTaskIn
    <3> QED
      BY <3>1, <1>3, FS_EmptySet, FS_CardinalityType
  <2>7. RepeatsOf(R, t) > 0
    BY <2>3, <2>6
  <2>8. t \in {Row(R, id, "edit").task : id \in Joined(R)}
    BY <2>1, <2>2, <1>1
  <2> QED
    BY <2>3, <2>5, <2>7, <2>8 DEF LostFrom, lost, counted
<1> QED
  BY <1>4, <1>5

\* Where they state none, it finds none lost.
LEMMA LostUnstated ==
  ASSUME NEW S, StatesNone(S), NEW R, NEW ids, OnePerArm(R, ids), RowsFit(R, S),
         DOMAIN R \subseteq Nat
  PROVE  LostFrom(R) = {}
<1> SUFFICES ASSUME NEW t \in LostFrom(R) PROVE FALSE
  OBVIOUS
<1> PICK id \in ids : t = Row(R, id, "edit").task
  BY AllJoined DEF LostFrom
<1> PICK i \in 1..Len(S) : RepeatsOf(R, t) = S[i].repeats
  BY RepeatsRead
<1> QED
  BY DEF LostFrom, StatesNone

\* A split tallied pair by pair is a split whose rows bear the tally out.
LEMMA LiveIsBooked ==
  ASSUME NEW S, Planned(S), NEW m \in 0..Len(S), NEW R, NEW e, DOMAIN R \subseteq Nat,
         Live(R, S, m, e), StatesRepeats(S) \/ (StatesNone(S) /\ ~Uncut)
  PROVE  Books(R, e)
<1>1. Joined(R) = PairIds(R)
  BY AllJoined DEF Live, OnePerArm
<1>2. OddPairs(R) = {}
  BY <1>1 DEF OddPairs
<1>3. Misstated(R) = {}
  <2> SUFFICES ASSUME NEW id \in Joined(R) PROVE Row(R, id, "edit").stored = OutcomeOf(R, id)
    BY DEF Misstated
  <2> PICK k \in DOMAIN R : RowsOf(R, id, "edit") = {k}
    BY <1>1 DEF Live, OnePerArm, Arms
  <2>1. Row(R, id, "edit") = R[k]
    <3>1. k \in Int
      OBVIOUS
    <3> QED
      BY <3>1, RowIs
  <2>2. R[k].pair = id
    BY DEF RowsOf
  <2> QED
    BY <2>1, <2>2 DEF Live, Consistent
<1>4. CASE StatesRepeats(S)
  <2>1. LostFrom(R) = LostSet(S, R)
    BY <1>4, LostAgrees DEF Live
  <2>2. IsFiniteSet(LostSet(S, R))
    BY LostFinite
  <2> QED
    BY <2>1, <2>2, <1>2, <1>3, FS_EmptySet DEF Books, Live
<1>5. CASE StatesNone(S) /\ ~Uncut
  <2>1. LostFrom(R) = {}
    BY <1>5, LostUnstated DEF Live
  <2> QED
    BY <2>1, <1>5, <1>2, <1>3 DEF Books, Live
<1> QED
  BY <1>4, <1>5

-----------------------------------------------------------------------------
(***************************************************************************)
(* Schedules.                                                              *)
(***************************************************************************)
\* A quotient and a remainder make the number again.
LEMMA Division ==
  ASSUME NEW a \in Nat, NEW b \in Nat \ {0}
  PROVE  a \div b \in Nat /\ a % b \in 0..(b - 1) /\ a = b * (a \div b) + (a % b)
OBVIOUS

LEMMA QuotientBelow ==
  ASSUME NEW a \in Nat, NEW b \in Nat \ {0}, NEW c \in Nat, a < b * c
  PROVE  a \div b < c
<1> DEFINE q == a \div b
<1>1. q \in Nat /\ b * q <= a
  BY Division
<1> HIDE DEF q
<1> SUFFICES ASSUME q >= c PROVE FALSE
  BY <1>1 DEF q
<1>2. b * (q - c) >= 0
  <2>1. q - c \in Nat
    BY <1>1
  <2> QED
    BY <2>1
<1> QED
  BY <1>1, <1>2

LEMMA MinOfTwo ==
  ASSUME NEW a \in Int, NEW b \in Int
  PROVE  Min({a, b}) = (IF a <= b THEN a ELSE b)
<1>1. Min({a, b}) \in {a, b} /\ \A y \in {a, b} : Min({a, b}) <= y
  <2> DEFINE P(x) == x \in {a, b} /\ \A y \in {a, b} : x <= y
  <2>1. \E x : P(x)
    <3>1. P(a) \/ P(b)
      OBVIOUS
    <3> QED
      BY <3>1
  <2> QED
    BY <2>1 DEF Min
<1> QED
  BY <1>1

TaskCount(s) == Len(Tasks[s])
ItsTask(s, k) == Tasks[s][((k - 1) % TaskCount(s)) + 1]
PlanSize(s) == TaskCount(s) * Repeats

\* A schedule in the words of these proofs.
LEMMA ScheduleIs ==
  ASSUME NEW s \in SplitNames, NEW cap \in Nat
  PROVE  LET S == Schedule(s, cap)
             n == IF PlanSize(s) <= cap THEN PlanSize(s) ELSE cap
         IN  /\ TaskCount(s) \in Nat \ {0} /\ PlanSize(s) \in Nat \ {0}
             /\ S = [k \in 1..n |->
                       [task |-> ItsTask(s, k), repeat |-> (k - 1) \div TaskCount(s),
                        repeats |-> IF PlanSize(s) > cap THEN 0
                                    ELSE Cardinality({j \in 1..PlanSize(s) : ItsTask(s, j) = ItsTask(s, k)})]]
<1>1. Tasks[s] \in Seq(STRING) /\ Tasks[s] # <<>> /\ Repeats \in Nat \ {0}
  BY RecordAssumption
<1>2. TaskCount(s) \in Nat \ {0}
  BY <1>1 DEF TaskCount
<1>3. PlanSize(s) \in Nat \ {0}
  BY <1>1, <1>2 DEF PlanSize
<1>4. Min({PlanSize(s), cap}) = IF PlanSize(s) <= cap THEN PlanSize(s) ELSE cap
  BY <1>3, MinOfTwo
<1>5. Schedule(s, cap) =
        [k \in 1..Min({PlanSize(s), cap}) |->
           [task |-> ItsTask(s, k), repeat |-> (k - 1) \div TaskCount(s),
            repeats |-> IF PlanSize(s) > cap THEN 0
                        ELSE Cardinality({j \in 1..PlanSize(s) : ItsTask(s, j) = ItsTask(s, k)})]]
  BY DEF Schedule, TaskCount, PlanSize, ItsTask
<1> QED
  BY <1>2, <1>3, <1>4, <1>5

\* A place in the round robin is a task of the suite and one of its repeats.
LEMMA PlaceIs ==
  ASSUME NEW s \in SplitNames, NEW k \in Nat \ {0}, k <= PlanSize(s)
  PROVE  /\ ItsTask(s, k) \in STRING
         /\ \E i \in DOMAIN Tasks[s] : i = ((k - 1) % TaskCount(s)) + 1 /\ ItsTask(s, k) = Tasks[s][i]
         /\ (k - 1) \div TaskCount(s) \in 0..(Repeats - 1)
<1>1. Tasks[s] \in Seq(STRING) /\ Repeats \in Nat \ {0}
  BY RecordAssumption
<1>2. TaskCount(s) \in Nat \ {0} /\ DOMAIN Tasks[s] = 1..TaskCount(s)
  BY <1>1, RecordAssumption DEF TaskCount
<1>3. k - 1 \in Nat /\ k - 1 < TaskCount(s) * Repeats
  BY <1>2, <1>1 DEF PlanSize
<1>4. ((k - 1) % TaskCount(s)) + 1 \in 1..TaskCount(s) /\ (k - 1) \div TaskCount(s) \in Nat
  <2>1. (k - 1) % TaskCount(s) \in 0..(TaskCount(s) - 1) /\ (k - 1) \div TaskCount(s) \in Nat
    BY <1>2, <1>3, Division
  <2> QED
    BY <2>1, <1>2
<1>5. (k - 1) \div TaskCount(s) < Repeats
  BY <1>1, <1>2, <1>3, QuotientBelow
<1> QED
  BY <1>1, <1>2, <1>4, <1>5 DEF ItsTask

\* A task of the suite, and one of its repeats.
InSuite(s, id) == /\ id[1] \in {Tasks[s][i] : i \in DOMAIN Tasks[s]}
                  /\ id[2] \in 0..(Repeats - 1)

LEMMA TasksDiffer ==
  ASSUME NEW s \in SplitNames, NEW t \in SplitNames,
         NEW i \in DOMAIN Tasks[s], NEW j \in DOMAIN Tasks[t], Tasks[s][i] = Tasks[t][j]
  PROVE  s = t /\ i = j
BY RecordAssumption

\* Two places that are one task and one repeat are one place.
LEMMA PlacesDiffer ==
  ASSUME NEW s \in SplitNames, NEW j \in Nat \ {0}, NEW k \in Nat \ {0},
         j <= PlanSize(s), k <= PlanSize(s), ItsTask(s, j) = ItsTask(s, k),
         (j - 1) \div TaskCount(s) = (k - 1) \div TaskCount(s)
  PROVE  j = k
<1> DEFINE L == TaskCount(s)
<1>1. L \in Nat \ {0}
  BY RecordAssumption DEF TaskCount
<1>2. PICK i \in DOMAIN Tasks[s] : i = ((j - 1) % L) + 1 /\ ItsTask(s, j) = Tasks[s][i]
  BY PlaceIs
<1>3. PICK h \in DOMAIN Tasks[s] : h = ((k - 1) % L) + 1 /\ ItsTask(s, k) = Tasks[s][h]
  BY PlaceIs
<1>4. i = h
  <2>1. Tasks[s][i] = Tasks[s][h]
    BY <1>2, <1>3
  <2> QED
    BY <2>1, TasksDiffer
<1> HIDE DEF L
<1>5. j - 1 \in Nat /\ k - 1 \in Nat
  OBVIOUS
<1>6. j - 1 = L * ((j - 1) \div L) + ((j - 1) % L) /\ (j - 1) % L \in Int
  BY <1>1, <1>5, Division
<1>7. k - 1 = L * ((k - 1) \div L) + ((k - 1) % L) /\ (k - 1) % L \in Int
  BY <1>1, <1>5, Division
<1>8. (j - 1) \div L = (k - 1) \div L
  BY DEF L
<1>9. (j - 1) % L = (k - 1) % L
  BY <1>2, <1>3, <1>4, <1>6, <1>7
<1>10. j - 1 = k - 1
  BY <1>6, <1>7, <1>8, <1>9
<1> QED
  BY <1>10

LEMMA SchedulePlanned ==
  ASSUME NEW s \in SplitNames, NEW cap \in Nat
  PROVE  LET S == Schedule(s, cap)
         IN  /\ Planned(S) /\ DOMAIN S = 1..Len(S)
             /\ Len(S) = IF PlanSize(s) <= cap THEN PlanSize(s) ELSE cap
             /\ \A k \in 1..Len(S) : InSuite(s, IdOf(S[k]))
             /\ PlanSize(s) <= cap => StatesRepeats(S)
             /\ PlanSize(s) > cap => StatesNone(S)
<1> DEFINE S == Schedule(s, cap)
           n == IF PlanSize(s) <= cap THEN PlanSize(s) ELSE cap
           same(k) == {j \in 1..PlanSize(s) : ItsTask(s, j) = ItsTask(s, k)}
           reps(k) == IF PlanSize(s) > cap THEN 0 ELSE Cardinality(same(k))
<1>1. /\ TaskCount(s) \in Nat \ {0} /\ PlanSize(s) \in Nat \ {0}
      /\ S = [k \in 1..n |-> [task |-> ItsTask(s, k), repeat |-> (k - 1) \div TaskCount(s),
                              repeats |-> reps(k)]]
  BY ScheduleIs
<1>2. n \in Nat /\ n <= PlanSize(s) /\ n <= cap
  BY <1>1
<1>r. \A k \in 1..n : reps(k) \in Nat
  <2> TAKE k \in 1..n
  <2>1. IsFiniteSet(1..PlanSize(s))
    BY <1>1, FS_Interval
  <2>2. same(k) \in SUBSET (1..PlanSize(s))
    OBVIOUS
  <2>3. Cardinality(same(k)) \in Nat
    BY <2>1, <2>2, FS_Subset, FS_CardinalityType
  <2> QED
    BY <2>3
<1> HIDE DEF S, n, reps
<1>3. DOMAIN S = 1..n /\ \A k \in 1..n : /\ S[k].task = ItsTask(s, k)
                                         /\ S[k].repeat = (k - 1) \div TaskCount(s)
                                         /\ S[k].repeats = reps(k)
  BY <1>1
<1>4. \A k \in 1..n : k \in Nat \ {0} /\ k <= PlanSize(s)
  BY <1>1, <1>2
<1>5. \A k \in 1..n : S[k] \in ScheduledPair
  <2> TAKE k \in 1..n
  <2>1. ItsTask(s, k) \in STRING /\ (k - 1) \div TaskCount(s) \in 0..(Repeats - 1)
    BY <1>4, PlaceIs
  <2>2. S[k] = [task |-> ItsTask(s, k), repeat |-> (k - 1) \div TaskCount(s), repeats |-> reps(k)]
    BY <1>1
  <2> QED
    BY <2>1, <2>2, <1>r DEF ScheduledPair
<1>6. S \in Seq(ScheduledPair) /\ Len(S) = n
  <2>1. S \in [1..n -> ScheduledPair]
    BY <1>1, <1>5
  <2> QED
    BY <2>1, <1>2
<1>7. ASSUME NEW j \in 1..n, NEW k \in 1..n, IdOf(S[j]) = IdOf(S[k]) PROVE j = k
  <2>1. ItsTask(s, j) = ItsTask(s, k) /\ (j - 1) \div TaskCount(s) = (k - 1) \div TaskCount(s)
    BY <1>3, <1>7 DEF IdOf
  <2> QED
    BY <2>1, <1>4, PlacesDiffer
<1>8. \A k \in 1..n : InSuite(s, IdOf(S[k]))
  <2> TAKE k \in 1..n
  <2>1. /\ \E i \in DOMAIN Tasks[s] : ItsTask(s, k) = Tasks[s][i]
        /\ (k - 1) \div TaskCount(s) \in 0..(Repeats - 1)
    BY <1>4, PlaceIs
  <2>2. IdOf(S[k])[1] = ItsTask(s, k) /\ IdOf(S[k])[2] = (k - 1) \div TaskCount(s)
    BY <1>3 DEF IdOf
  <2> QED
    BY <2>1, <2>2 DEF InSuite
<1>9. ASSUME PlanSize(s) <= cap PROVE StatesRepeats(S)
  <2>1. n = PlanSize(s)
    BY <1>9 DEF n
  <2>2. \A k \in 1..n : OfTaskIn(S, S[k].task) = same(k)
    BY <1>3, <1>6, <2>1 DEF OfTaskIn
  <2>3. \A k \in 1..n : reps(k) = Cardinality(same(k))
    BY <1>1, <1>9 DEF reps
  <2> QED
    BY <1>3, <1>6, <2>2, <2>3 DEF StatesRepeats
<1>10. PlanSize(s) > cap => StatesNone(S)
  BY <1>3, <1>6 DEF StatesNone, reps
<1> QED
  BY <1>3, <1>6, <1>7, <1>8, <1>9, <1>10 DEF Planned, S, n

\* A task is in one split.
LEMMA OneSplit ==
  ASSUME NEW s \in SplitNames, NEW t \in SplitNames, NEW id, InSuite(s, id), InSuite(t, id)
  PROVE  s = t
<1> PICK i \in DOMAIN Tasks[s] : id[1] = Tasks[s][i]
  BY DEF InSuite
<1> PICK j \in DOMAIN Tasks[t] : id[1] = Tasks[t][j]
  BY DEF InSuite
<1> QED
  BY TasksDiffer

(***************************************************************************)
(* The calibration's schedule: which split has which turn.                 *)
(***************************************************************************)
InCount == Len(Schedule("held_in", AAPairs))
OutCount == Len(Schedule("held_out", AAPairs))
Fewer == IF InCount <= OutCount THEN InCount ELSE OutCount
TurnCount == IF AAPairs <= InCount + OutCount THEN AAPairs ELSE InCount + OutCount
Turn(i) ==
  IF i <= 2 * Fewer THEN <<(i + 1) \div 2, IF i % 2 = 1 THEN 1 ELSE 2>>
  ELSE <<i - Fewer, IF InCount > OutCount THEN 1 ELSE 2>>

\* How many of the first m turns a split has had.
Had(s, m) ==
  IF m <= 2 * Fewer THEN IF s = 1 THEN (m + 1) \div 2 ELSE m \div 2
  ELSE IF (s = 1) = (InCount > OutCount) THEN m - Fewer ELSE Fewer

LEMMA TurnsAre ==
  /\ InCount \in Nat /\ OutCount \in Nat /\ Fewer \in Nat /\ TurnCount \in Nat
  /\ Turns = [i \in 1..TurnCount |-> Turn(i)]
<1>1. InCount \in Nat /\ OutCount \in Nat /\ AAPairs \in Nat
  <2>1. AAPairs \in Nat
    BY RecordAssumption
  <2>2. "held_in" \in SplitNames /\ "held_out" \in SplitNames
    BY DEF SplitNames
  <2> QED
    BY <2>1, <2>2, SchedulePlanned DEF InCount, OutCount, Planned
<1>2. Splits[1] = "held_in" /\ Splits[2] = "held_out"
  BY DEF Splits
<1> DEFINE n == [s \in {1, 2} |-> Len(Schedule(Splits[s], AAPairs))]
<1>3. n[1] = InCount /\ n[2] = OutCount
  BY <1>2 DEF InCount, OutCount
<1>4. Turns = LET both == Min({n[1], n[2]})
              IN  [i \in 1..Min({AAPairs, n[1] + n[2]}) |->
                     IF i <= 2 * both THEN <<(i + 1) \div 2, IF i % 2 = 1 THEN 1 ELSE 2>>
                     ELSE <<i - both, IF n[1] > n[2] THEN 1 ELSE 2>>]
  BY DEF Turns
<1> HIDE DEF n
<1>5. Min({InCount, OutCount}) = Fewer /\ Min({AAPairs, InCount + OutCount}) = TurnCount
  BY <1>1, MinOfTwo DEF Fewer, TurnCount
<1>6. Turns = [i \in 1..TurnCount |-> Turn(i)]
  BY <1>3, <1>4, <1>5 DEF Turn
<1>7. Fewer \in Nat /\ TurnCount \in Nat
  BY <1>1 DEF Fewer, TurnCount
<1> QED
  BY <1>1, <1>6, <1>7

\* A turn is a place in one of the two schedules.
LEMMA TurnIs ==
  ASSUME NEW i \in 1..TurnCount
  PROVE  /\ Turn(i)[2] \in {1, 2}
         /\ Turn(i)[1] \in 1..(IF Turn(i)[2] = 1 THEN InCount ELSE OutCount)
BY TurnsAre DEF Turn, Fewer, TurnCount

LEMMA TurnsDiffer ==
  ASSUME NEW i \in Nat, NEW j \in Nat, Turn(i) = Turn(j)
  PROVE  i = j
BY TurnsAre DEF Turn, Fewer

\* The first m turns of a split are its first places.
LEMMA HadIs ==
  ASSUME NEW m \in 0..TurnCount, NEW s \in {1, 2}
  PROVE  /\ Had(s, m) \in Nat
         /\ \A k \in 1..Had(s, m) : \E i \in 1..m : Turn(i) = <<k, s>>
         /\ \A i \in 1..m : Turn(i)[2] = s => Turn(i)[1] \in 1..Had(s, m)
<1>1. InCount \in Nat /\ OutCount \in Nat /\ Fewer \in Nat /\ TurnCount \in Nat /\ m \in Nat
  BY TurnsAre
<1>2. Had(s, m) \in Nat
  BY <1>1 DEF Had
<1>3. ASSUME NEW k \in 1..Had(s, m) PROVE \E i \in 1..m : Turn(i) = <<k, s>>
  <2>1. CASE k <= Fewer
    <3> DEFINE i == IF s = 1 THEN 2 * k - 1 ELSE 2 * k
    <3>1. i \in 1..m
      BY <2>1, <1>1 DEF Had, Fewer
    <3>2. Turn(i) = <<k, s>>
      BY <2>1, <1>1 DEF Turn
    <3> QED
      BY <3>1, <3>2
  <2>2. CASE k > Fewer
    <3>1. k + Fewer \in 1..m /\ (s = 1) = (InCount > OutCount)
      BY <2>2, <1>1 DEF Had, Fewer
    <3>2. Turn(k + Fewer) = <<k, s>>
      BY <2>2, <3>1, <1>1 DEF Turn
    <3> QED
      BY <3>1, <3>2
  <2> QED
    BY <2>1, <2>2, <1>1, <1>2
<1>4. ASSUME NEW i \in 1..m, Turn(i)[2] = s PROVE Turn(i)[1] \in 1..Had(s, m)
  BY <1>1, <1>4 DEF Turn, Had, Fewer
<1> QED
  BY <1>2, <1>3, <1>4

\* The calibration's schedule has every pair once.
LEMMA CalibrationPlanned ==
  /\ Planned(AASchedule) /\ DOMAIN AASchedule = 1..Len(AASchedule) /\ Len(AASchedule) = TurnCount
  /\ \A i \in 1..TurnCount :
       AASchedule[i] = Schedule(Splits[Turn(i)[2]], AAPairs)[Turn(i)[1]]
<1> DEFINE In == Schedule("held_in", AAPairs)  Out == Schedule("held_out", AAPairs)
           Of(i) == IF Turn(i)[2] = 1 THEN In[Turn(i)[1]] ELSE Out[Turn(i)[1]]
<1>1. Splits[1] = "held_in" /\ Splits[2] = "held_out"
  BY DEF Splits
<1>2. AASchedule = [i \in 1..TurnCount |-> Schedule(Splits[Turn(i)[2]], AAPairs)[Turn(i)[1]]]
  BY TurnsAre DEF AASchedule
<1>3. \A i \in 1..TurnCount : AASchedule[i] = Of(i)
  <2> TAKE i \in 1..TurnCount
  <2>1. Turn(i)[2] \in {1, 2}
    BY TurnIs
  <2> QED
    BY <2>1, <1>1, <1>2
<1>4. /\ Planned(In) /\ \A k \in 1..Len(In) : InSuite("held_in", IdOf(In[k]))
      /\ Planned(Out) /\ \A k \in 1..Len(Out) : InSuite("held_out", IdOf(Out[k]))
  BY SchedulePlanned, RecordAssumption DEF SplitNames
<1>5. InCount = Len(In) /\ OutCount = Len(Out)
  BY DEF InCount, OutCount
<1> HIDE DEF In, Out
<1>6. \A i \in 1..TurnCount : AASchedule[i] \in ScheduledPair
  BY <1>3, <1>4, <1>5, TurnIs DEF Planned
<1>7. AASchedule \in Seq(ScheduledPair) /\ Len(AASchedule) = TurnCount
  <2>1. AASchedule \in [1..TurnCount -> ScheduledPair]
    BY <1>2, <1>6
  <2> QED
    BY <2>1, TurnsAre
<1>8. ASSUME NEW i \in 1..TurnCount, NEW j \in 1..TurnCount, IdOf(AASchedule[i]) = IdOf(AASchedule[j])
      PROVE  i = j
  <2>1. Turn(i)[2] \in {1, 2} /\ Turn(i)[1] \in 1..(IF Turn(i)[2] = 1 THEN Len(In) ELSE Len(Out))
    BY TurnIs, <1>5
  <2>2. Turn(j)[2] \in {1, 2} /\ Turn(j)[1] \in 1..(IF Turn(j)[2] = 1 THEN Len(In) ELSE Len(Out))
    BY TurnIs, <1>5
  <2>3. IdOf(Of(i)) = IdOf(Of(j))
    BY <1>3, <1>8
  <2>4. Turn(i)[2] = Turn(j)[2]
    <3>1. InSuite(Splits[Turn(i)[2]], IdOf(Of(i))) /\ InSuite(Splits[Turn(j)[2]], IdOf(Of(j)))
      BY <2>1, <2>2, <1>4, <1>1
    <3>2. Splits[Turn(i)[2]] = Splits[Turn(j)[2]]
      BY <3>1, <2>1, <2>2, <2>3, <1>1, OneSplit DEF SplitNames
    <3> QED
      BY <3>2, <2>1, <2>2, <1>1
  <2>5. Turn(i)[1] = Turn(j)[1]
    BY <2>1, <2>2, <2>3, <2>4, <1>4 DEF Planned
  <2>6. Turn(i) = <<Turn(i)[1], Turn(i)[2]>> /\ Turn(j) = <<Turn(j)[1], Turn(j)[2]>>
    BY DEF Turn
  <2> QED
    BY <2>4, <2>5, <2>6, TurnsDiffer
<1> QED
  BY <1>2, <1>7, <1>8 DEF Planned

-----------------------------------------------------------------------------
(***************************************************************************)
(* One step of the run.                                                    *)
(***************************************************************************)
\* A pair's two rows go to the end of the file, and to no other split.
LEMMA Written ==
  ASSUME journal \in Seq(RowSet), stage \in SplitNames \cup {"aa"},
         NEW p \in ScheduledPair, NEW base \in Outcomes, NEW edit \in Outcomes,
         WritePair(p, base, edit)
  PROVE  /\ journal' \in Seq(RowSet)
         /\ Follows(OfSplit(journal, stage), OfSplit(journal', stage), p, base, edit)
         /\ Follows(journal, journal', p, base, edit)
         /\ \A s : s # stage => OfSplit(journal', s) = OfSplit(journal, s) /\ (NoRows(s) => NoRows(s)')
         /\ OfSplit(journal, stage) = journal => OfSplit(journal', stage) = journal'
<1> DEFINE n == Len(journal)
           b == RowOf(p, "base", base, edit)  e == RowOf(p, "edit", base, edit)
<1>1. /\ b.split = stage /\ b.arm = "base" /\ b.outcome = base
      /\ b.pair = IdOf(p) /\ b.task = p.task /\ b.repeats = p.repeats
      /\ b.stored = Stored(base, edit)
      /\ e.split = stage /\ e.arm = "edit" /\ e.outcome = edit
      /\ e.pair = IdOf(p) /\ e.task = p.task /\ e.repeats = p.repeats
      /\ e.stored = Stored(base, edit)
  BY DEF RowOf, IdOf
<1>2. b \in RowSet /\ e \in RowSet
  <2>1. Stored(base, edit) \in PairOutcomes \cup {Pending}
    BY DEF Stored, PairOutcome, PairOutcomes
  <2> QED
    BY <2>1 DEF RowOf, RowSet, ScheduledPair, Arms
<1>3. journal' = journal \o <<b, e>>
  BY DEF WritePair
<1> HIDE DEF b, e
<1>4. /\ journal' \in Seq(RowSet) /\ n \in Nat
      /\ DOMAIN journal = 1..n /\ DOMAIN journal' = 1..(n + 2)
      /\ \A k \in 1..n : journal'[k] = journal[k]
      /\ journal'[n + 1] = b /\ journal'[n + 2] = e
  BY <1>2, <1>3
<1> HIDE DEF n
<1>5. Follows(journal, journal', p, base, edit)
  <2>1. DOMAIN journal' = DOMAIN journal \cup {n + 1, n + 2}
    BY <1>4
  <2>2. n + 1 \in Nat /\ n + 2 \in Nat /\ n + 1 # n + 2
        /\ n + 1 \notin DOMAIN journal /\ n + 2 \notin DOMAIN journal
    BY <1>4
  <2> QED
    BY <1>1, <1>4, <2>1, <2>2 DEF Follows
<1>6. Follows(OfSplit(journal, stage), OfSplit(journal', stage), p, base, edit)
  <2> DEFINE R == OfSplit(journal, stage)  R2 == OfSplit(journal', stage)
  <2>1. DOMAIN R2 = DOMAIN R \cup {n + 1, n + 2} /\ DOMAIN R \subseteq 1..n
    BY <1>1, <1>4 DEF OfSplit
  <2>2. (\A k \in DOMAIN R : R2[k] = R[k]) /\ R2[n + 1] = b /\ R2[n + 2] = e
    BY <1>1, <1>4 DEF OfSplit
  <2>3. n + 1 \in Nat /\ n + 2 \in Nat /\ n + 1 # n + 2
        /\ n + 1 \notin DOMAIN R /\ n + 2 \notin DOMAIN R
    BY <1>4, <2>1
  <2> HIDE DEF R, R2
  <2>4. Follows(R, R2, p, base, edit)
    BY <1>1, <2>1, <2>2, <2>3 DEF Follows
  <2> QED
    BY <2>4 DEF R, R2
<1>7. ASSUME NEW s, s # stage
      PROVE  OfSplit(journal', s) = OfSplit(journal, s) /\ (NoRows(s) => NoRows(s)')
  <2>1. {j \in DOMAIN journal' : journal'[j].split = s} = {j \in DOMAIN journal : journal[j].split = s}
    BY <1>1, <1>4, <1>7
  <2> QED
    BY <2>1, <1>1, <1>4, <1>7 DEF OfSplit, NoRows
<1>8. ASSUME OfSplit(journal, stage) = journal PROVE OfSplit(journal', stage) = journal'
  <2>1. \A j \in DOMAIN journal : journal[j].split = stage
    BY <1>8 DEF OfSplit
  <2>2. {j \in DOMAIN journal' : journal'[j].split = stage} = DOMAIN journal'
    BY <2>1, <1>1, <1>4
  <2>3. journal' = [k \in DOMAIN journal' |-> journal'[k]]
    BY <1>4
  <2> QED
    BY <2>2, <2>3 DEF OfSplit
<1> QED
  BY <1>4, <1>5, <1>6, <1>7, <1>8

\* A schedule being measured is one of the three.
LEMMA StagePlanned ==
  ASSUME Measuring
  PROVE  Planned(StageSchedule) /\ DOMAIN StageSchedule = 1..Len(StageSchedule)
         /\ Len(StageSchedule) \in Nat
<1>1. CASE stage \in SplitNames
  <2>1. stage # "aa" /\ Cap \in Nat
    BY <1>1, RecordAssumption DEF SplitNames
  <2>2. StageSchedule = Schedule(stage, Cap)
    BY <2>1 DEF StageSchedule
  <2> QED
    BY <1>1, <2>1, <2>2, SchedulePlanned DEF Planned
<1>2. CASE stage = "aa"
  BY <1>2, CalibrationPlanned DEF StageSchedule, Planned
<1> QED
  BY <1>1, <1>2 DEF Measuring

LEMMA SplitsKnown == "held_in" \in SplitNames /\ "held_out" \in SplitNames /\ "aa" \notin SplitNames
BY DEF SplitNames

LEMMA InitHolds == ASSUME Init PROVE IInv
<1>1. DOMAIN journal = {} /\ (\A s : DOMAIN OfSplit(journal, s) = {})
  BY DEF Init, OfSplit
<1>2. \A s : NoRows(s)
  BY <1>1 DEF NoRows
<1>3. NoEvidence \in Evidence /\ NewHeader \in Headers
  BY DEF NoEvidence, Evidence, NewHeader, Headers
<1>4. Measuring
  BY DEF Init, Measuring, SplitNames
<1>5. 0 <= Len(StageSchedule)
  BY <1>4, StagePlanned
<1>6. Typed
  BY <1>3, <1>5 DEF Typed, Init, Stages, SplitNames
<1>7. SplitInv
  <2>1. stage \in SplitNames => Live(OfSplit(journal, stage), Schedule(stage, Cap), next, evidence)
    BY <1>1, LiveStarts DEF Init
  <2> QED
    BY <2>1, <1>2 DEF SplitInv, Init, NewHeader
<1>8. EndInv
  <2>1. OfSplit(journal, "aa") = journal
    BY <1>1 DEF Init, OfSplit
  <2>2. IdsUpTo(AASchedule, 0) = {}
    BY DEF IdsUpTo
  <2>3. OnePerArm(journal, {}) /\ Consistent(journal)
    BY <1>1, Unwritten
  <2>4. stage = "aa" => Calibrated
    BY <1>2, <2>1, <2>2, <2>3 DEF Calibrated, Init
  <2> QED
    BY <2>4 DEF EndInv, Init, SplitNames
<1> QED
  BY <1>6, <1>7, <1>8 DEF IInv

\* An entry stands while its split's rows stand.
LEMMA EntryKept ==
  ASSUME NEW k, NEW s, Entry(k, s), OfSplit(journal', s) = OfSplit(journal, s),
         header'.verdicts[k] = header.verdicts[k]
  PROVE  Entry(k, s)'
<1>1. Entry(k, s)' <=>
        /\ header'.verdicts[k].split = s
        /\ header'.verdicts[k].verdict = VerdictOn(s, header'.verdicts[k].evidence)
        /\ Books(OfSplit(journal', s), header'.verdicts[k].evidence)
        /\ 0 < Cap => Joined(OfSplit(journal', s)) # {}
  BY DEF Entry, Replayed
<1> QED
  BY <1>1 DEF Entry, Replayed

\* The rows of a split have arms.
LEMMA SplitArms ==
  ASSUME journal \in Seq(RowSet), NEW s
  PROVE  /\ DOMAIN OfSplit(journal, s) \subseteq Nat
         /\ \A k \in DOMAIN OfSplit(journal, s) : OfSplit(journal, s)[k].arm \in Arms
<1>1. \A k \in DOMAIN journal : k \in Nat /\ journal[k] \in RowSet
  OBVIOUS
<1>2. \A row \in RowSet : row.arm \in Arms
  BY DEF RowSet
<1> QED
  BY <1>1, <1>2 DEF OfSplit

LEMMA FoldCountedHolds == ASSUME IInv, FoldCounted PROVE IInv'
<1> DEFINE S == StageSchedule
           R == OfSplit(journal, stage)  R2 == OfSplit(journal', stage)
<1>1. /\ stage \in SplitNames /\ stage' = stage /\ header' = header /\ next' = next + 1
      /\ stage # "aa" /\ Measuring /\ next < Len(S)
  BY SplitsKnown DEF FoldCounted, More, Measuring
<1>2. Planned(S) /\ DOMAIN S = 1..Len(S) /\ S = Schedule(stage, Cap) /\ Len(S) \in Nat
  BY <1>1, StagePlanned DEF StageSchedule
<1>3. journal \in Seq(RowSet) /\ next \in Nat /\ evidence \in Evidence /\ header \in Headers
  BY DEF IInv, Typed
<1> DEFINE p == S[next + 1]
<1>4. PICK base \in Answers, edit \in Answers :
        /\ WritePair(p, base, edit)
        /\ evidence' = [Observe(evidence, PairOutcome(base, edit)) EXCEPT
                          !.lost = LostTasks(OfSplit(journal', stage))]
  BY DEF FoldCounted
<1>5. p \in ScheduledPair /\ base \in Outcomes /\ edit \in Outcomes /\ stage \in SplitNames \cup {"aa"}
  BY <1>1, <1>2, <1>3 DEF Planned, Outcomes
<1> HIDE DEF p
<1>6. /\ journal' \in Seq(RowSet)
      /\ Follows(R, R2, p, base, edit)
      /\ \A s : s # stage => OfSplit(journal', s) = OfSplit(journal, s) /\ (NoRows(s) => NoRows(s)')
  BY <1>3, <1>4, <1>5, Written
<1>7. Live(R, S, next, evidence)
  BY <1>1, <1>2 DEF IInv, SplitInv
<1>8. DOMAIN R \subseteq Nat /\ \A k \in DOMAIN R : R[k].arm \in Arms
  BY <1>3, SplitArms
<1> DEFINE o == Observe(evidence, PairOutcome(base, edit))
<1>9. Live(R2, S, next + 1, [o EXCEPT !.lost = Cardinality(LostSet(S, R2))])
  <2> HIDE DEF S, R, R2
  <2> QED
    BY <1>1, <1>2, <1>3, <1>4, <1>6, <1>7, <1>8, LiveCounted DEF p
<1>10. LostTasks(R2) = Cardinality(LostSet(S, R2))
  <2>1. OnePerArm(R2, IdsUpTo(S, next + 1)) /\ Consistent(R2)
    BY <1>9 DEF Live
  <2> QED
    BY <2>1, <1>2, LostCounted
<1>11. evidence' = [o EXCEPT !.lost = Cardinality(LostSet(S, R2))] /\ evidence' \in Evidence
  <2>1. evidence' = [o EXCEPT !.lost = Cardinality(LostSet(S, R2))]
    BY <1>4, <1>10
  <2>2. Cardinality(LostSet(S, R2)) \in Nat
    BY <1>2, LostFinite, FS_CardinalityType
  <2>3. o \in Evidence
    BY <1>3, ObserveIs, OutcomesKnown
  <2> HIDE DEF o, S, R2
  <2> QED
    BY <2>1, <2>2, <2>3 DEF Evidence
<1>12. Typed'
  <2>1. StageSchedule' = StageSchedule
    BY <1>1 DEF StageSchedule
  <2>2. next' \in Nat /\ next' <= Len(StageSchedule)
    BY <1>1, <1>2, <1>3
  <2> QED
    BY <1>1, <1>3, <1>6, <1>11, <2>1, <2>2 DEF IInv, Typed, Measuring
<1>13. SplitInv'
  <2>1. Live(OfSplit(journal', stage'), Schedule(stage', Cap), next', evidence')
    BY <1>1, <1>2, <1>9, <1>11
  <2>2. next' # 0
    BY <1>1, <1>3
  <2>3. NoRows("aa")' /\ ~header'.promote
    BY <1>1, <1>6 DEF IInv, SplitInv
  <2>4. stage' = "held_in" => header'.verdicts = <<>> /\ NoRows("held_out")'
    BY <1>1, <1>6 DEF IInv, SplitInv
  <2>5. stage' = "held_out" => Len(header'.verdicts) = 1 /\ Entry(1, "held_in")'
    <3> SUFFICES ASSUME stage = "held_out" PROVE Len(header'.verdicts) = 1 /\ Entry(1, "held_in")'
      BY <1>1
    <3>1. Len(header.verdicts) = 1 /\ Entry(1, "held_in")
      BY DEF IInv, SplitInv
    <3>2. OfSplit(journal', "held_in") = OfSplit(journal, "held_in")
      BY <1>6
    <3> QED
      BY <1>1, <3>1, <3>2, EntryKept
  <2> QED
    BY <2>1, <2>2, <2>3, <2>4, <2>5 DEF SplitInv
<1>14. EndInv'
  BY <1>1 DEF EndInv, SplitNames
<1> QED
  BY <1>12, <1>13, <1>14 DEF IInv

LEMMA FoldPendingHolds == ASSUME IInv, FoldPending PROVE IInv'
<1> DEFINE S == StageSchedule
           R == OfSplit(journal, stage)  R2 == OfSplit(journal', stage)
<1>1. /\ stage \in SplitNames /\ next' = next + 1 /\ evidence' = evidence
      /\ stage # "aa" /\ Measuring /\ next < Len(S)
  BY SplitsKnown DEF FoldPending, More, Measuring
<1>2. Planned(S) /\ DOMAIN S = 1..Len(S) /\ S = Schedule(stage, Cap) /\ Len(S) \in Nat
  BY <1>1, StagePlanned DEF StageSchedule
<1>3. journal \in Seq(RowSet) /\ next \in Nat /\ evidence \in Evidence /\ header \in Headers
  BY DEF IInv, Typed
<1> DEFINE p == S[next + 1]
<1>4. PICK base \in Outcomes, edit \in Outcomes : ~Counted(base, edit) /\ WritePair(p, base, edit)
  BY DEF FoldPending
<1>5. p \in ScheduledPair /\ stage \in SplitNames \cup {"aa"}
  BY <1>1, <1>2, <1>3 DEF Planned
<1> HIDE DEF p
<1>6. /\ journal' \in Seq(RowSet)
      /\ Follows(R, R2, p, base, edit)
      /\ \A s : s # stage => OfSplit(journal', s) = OfSplit(journal, s) /\ (NoRows(s) => NoRows(s)')
  BY <1>3, <1>4, <1>5, Written
<1>7. \/ stage' = stage /\ header' = header
      \/ stage' = "aborted" /\ header' = [header EXCEPT !.aborted = TRUE]
  BY DEF FoldPending
<1>8. header' \in Headers
  BY <1>3, <1>7 DEF Headers
<1>9. CASE stage' = "aborted"
  <2>1. ~Measuring'
    BY <1>9 DEF Measuring, SplitNames
  <2>2. Typed'
    BY <1>1, <1>3, <1>6, <1>8, <1>9, <2>1 DEF Typed, Stages
  <2>3. SplitInv' /\ EndInv'
    BY <1>9 DEF SplitInv, EndInv, SplitNames
  <2> QED
    BY <2>2, <2>3 DEF IInv
<1>10. CASE stage' = stage /\ header' = header
  <2>1. Live(R, S, next, evidence)
    BY <1>1, <1>2 DEF IInv, SplitInv
  <2>2. DOMAIN R \subseteq Nat /\ \A k \in DOMAIN R : R[k].arm \in Arms
    BY <1>3, SplitArms
  <2>3. Live(R2, S, next + 1, evidence)
    <3> HIDE DEF S, R, R2
    <3> QED
      BY <1>1, <1>2, <1>3, <1>4, <1>6, <2>1, <2>2, LivePending DEF p
  <2>4. Typed'
    <3>1. StageSchedule' = StageSchedule
      BY <1>10 DEF StageSchedule
    <3>2. next' \in Nat /\ next' <= Len(StageSchedule)
      BY <1>1, <1>2, <1>3
    <3> QED
      BY <1>1, <1>3, <1>6, <1>8, <1>10, <3>1, <3>2 DEF IInv, Typed, Measuring
  <2>5. SplitInv'
    <3>1. Live(OfSplit(journal', stage'), Schedule(stage', Cap), next', evidence')
      BY <1>1, <1>2, <1>10, <2>3
    <3>2. next' # 0
      BY <1>1, <1>3
    <3>3. NoRows("aa")' /\ ~header'.promote
      BY <1>1, <1>6, <1>10 DEF IInv, SplitInv
    <3>4. stage' = "held_in" => header'.verdicts = <<>> /\ NoRows("held_out")'
      BY <1>1, <1>6, <1>10 DEF IInv, SplitInv
    <3>5. stage' = "held_out" => Len(header'.verdicts) = 1 /\ Entry(1, "held_in")'
      <4> SUFFICES ASSUME stage = "held_out" PROVE Len(header'.verdicts) = 1 /\ Entry(1, "held_in")'
        BY <1>10
      <4>1. Len(header.verdicts) = 1 /\ Entry(1, "held_in")
        BY DEF IInv, SplitInv
      <4>2. OfSplit(journal', "held_in") = OfSplit(journal, "held_in")
        BY <1>6
      <4> QED
        BY <1>10, <4>1, <4>2, EntryKept
    <3> QED
      BY <3>1, <3>2, <3>3, <3>4, <3>5 DEF SplitInv
  <2>6. EndInv'
    BY <1>1, <1>10 DEF EndInv, SplitNames
  <2> QED
    BY <2>4, <2>5, <2>6 DEF IInv
<1> QED
  BY <1>7, <1>9, <1>10

\* A split ends on a tally its rows bear out, and with a pair in it unless
\* the cap allows none.
LEMMA SplitIsBooked ==
  ASSUME IInv, EndSplit
  PROVE  /\ Books(OfSplit(journal, stage), evidence)
         /\ 0 < Cap => Replayed(journal, stage)
<1> DEFINE S == Schedule(stage, Cap)  R == OfSplit(journal, stage)
<1>1. stage \in SplitNames /\ stage # "aa" /\ Measuring
  BY SplitsKnown DEF EndSplit, Measuring
<1>2. /\ Planned(S) /\ S = StageSchedule /\ Cap \in Nat
      /\ Len(S) = IF PlanSize(stage) <= Cap THEN PlanSize(stage) ELSE Cap
      /\ PlanSize(stage) <= Cap => StatesRepeats(S)
      /\ PlanSize(stage) > Cap => StatesNone(S)
  BY <1>1, SchedulePlanned, RecordAssumption DEF StageSchedule
<1>3. PlanSize(stage) \in Nat \ {0}
  BY <1>1, <1>2, ScheduleIs
<1>4. Live(R, S, next, evidence)
  BY <1>1 DEF IInv, SplitInv
<1>5. next \in 0..Len(S) /\ DOMAIN R \subseteq Nat
  BY <1>1, <1>2, <1>3, SplitArms DEF IInv, Typed
<1>6. StatesRepeats(S) \/ (StatesNone(S) /\ ~Uncut)
  BY <1>1, <1>2, <1>3 DEF Uncut, PlanSize, TaskCount
<1>7. Books(R, evidence)
  <2> HIDE DEF S, R
  <2> QED
    BY <1>2, <1>4, <1>5, <1>6, LiveIsBooked
<1>8. ASSUME 0 < Cap PROVE Replayed(journal, stage)
  <2>1. next # 0
    <3> SUFFICES ASSUME next = 0 PROVE FALSE
      OBVIOUS
    <3>1. evidence = NoEvidence
      BY <1>1 DEF IInv, SplitInv
    <3>2. ~DecidedOn(stage, NoEvidence)
      <4>1. ~Harm(NoEvidence) /\ ~NonInferior(NoEvidence)
        BY DEF Harm, NonInferior, NoEvidence, Pairs
      <4>2. CountOK(NoEvidence)
        BY GateAssumption DEF CountOK, NoEvidence
      <4> QED
        BY <4>1, <4>2 DEF DecidedOn, VerdictOn, Verdict, Reading
    <3>3. next < Len(S)
      BY <1>2, <1>3, <1>8
    <3> QED
      BY <1>2, <3>1, <3>2, <3>3 DEF EndSplit, More
  <2>2. Joined(R) = IdsUpTo(S, next)
    BY <1>4, AllJoined DEF Live
  <2>3. 1 \in 1..next
    BY <1>5, <2>1, <1>2, <1>3
  <2> QED
    BY <2>2, <2>3 DEF Replayed, IdsUpTo
<1> QED
  BY <1>7, <1>8

LEMMA VerdictsOn == \A s, e : VerdictOn(s, e) \in Verdicts
BY DEF VerdictOn, Verdict, Reading, Verdicts

LEMMA EndSplitHolds == ASSUME IInv, EndSplit PROVE IInv'
<1> DEFINE verdict == VerdictOn(stage, evidence)
           rec == [split |-> stage, evidence |-> evidence, verdict |-> verdict]
<1>1. /\ stage \in SplitNames /\ next' = 0 /\ evidence' = NoEvidence /\ journal' = journal
      /\ runJSON' = runJSON
      /\ header' = [header EXCEPT !.verdicts = Append(@, rec)]
      /\ stage' = IF stage = "held_in" /\ verdict # "regress" THEN "held_out" ELSE "deciding"
  BY DEF EndSplit
<1>2. journal \in Seq(RowSet) /\ evidence \in Evidence /\ header \in Headers
  BY DEF IInv, Typed
<1>3. rec \in [split : SplitNames, evidence : Evidence, verdict : Verdicts]
  BY <1>1, <1>2, VerdictsOn
<1>4. /\ header' \in Headers /\ Len(header.verdicts) \in Nat
      /\ header'.promote = header.promote
      /\ Len(header'.verdicts) = Len(header.verdicts) + 1
      /\ \A k \in 1..Len(header.verdicts) : header'.verdicts[k] = header.verdicts[k]
      /\ header'.verdicts[Len(header.verdicts) + 1] = rec
  <2> HIDE DEF rec
  <2> DEFINE T == [split : SplitNames, evidence : Evidence, verdict : Verdicts]
  <2>1. rec \in T
    BY <1>3
  <2>2. header \in [written : {TRUE}, promote : BOOLEAN, aborted : BOOLEAN, verdicts : Seq(T)]
    BY <1>2 DEF Headers
  <2> HIDE DEF T
  <2>3. Append(header.verdicts, rec) \in Seq(T)
    BY <2>1, <2>2
  <2>4. header' \in [written : {TRUE}, promote : BOOLEAN, aborted : BOOLEAN, verdicts : Seq(T)]
    BY <1>1, <2>2, <2>3
  <2>5. header' \in Headers
    BY <2>4 DEF Headers, T
  <2>6. header'.promote = header.promote /\ header'.verdicts = Append(header.verdicts, rec)
    BY <1>1, <2>2
  <2> QED
    BY <2>1, <2>2, <2>5, <2>6
<1>5. Books(OfSplit(journal, stage), evidence) /\ (0 < Cap => Replayed(journal, stage))
  BY SplitIsBooked
<1>6. ASSUME NEW k, k = Len(header.verdicts) + 1, NEW s, s = stage PROVE Entry(k, s)'
  <2>1. /\ header'.verdicts[k].split = s /\ header'.verdicts[k].evidence = evidence
        /\ header'.verdicts[k].verdict = VerdictOn(s, evidence)
    BY <1>4, <1>6
  <2> SUFFICES /\ header'.verdicts[k].split = s
               /\ header'.verdicts[k].verdict = VerdictOn(s, header'.verdicts[k].evidence)
               /\ Books(OfSplit(journal', s), header'.verdicts[k].evidence)
               /\ 0 < Cap => Replayed(journal', s)
    BY DEF Entry, Replayed
  <2> QED
    BY <2>1, <1>1, <1>5, <1>6
<1>7. NoRows("aa")' /\ ~header'.promote
  BY <1>1, <1>4 DEF IInv, SplitInv, NoRows
<1>8. CASE stage = "held_in"
  <2>1. Len(header.verdicts) = 0 /\ NoRows("held_out")
    BY <1>8 DEF IInv, SplitInv
  <2>2. Entry(1, "held_in")' /\ Len(header'.verdicts) = 1 /\ NoRows("held_out")'
    <3>1. Len(header.verdicts) + 1 = 1
      BY <2>1
    <3> QED
      BY <1>1, <1>4, <1>6, <1>8, <2>1, <3>1 DEF NoRows
  <2>3. CASE stage' = "deciding"
    <3>1. Settled'
      BY <1>7, <2>2 DEF Settled, OneEntry
    <3>2. EndInv' /\ SplitInv'
      BY <1>7, <2>3, <3>1 DEF EndInv, SplitInv, SplitNames
    <3>3. Typed'
      BY <1>1, <1>2, <1>4, <2>3 DEF Typed, Stages, Measuring, SplitNames, Evidence, NoEvidence
    <3> QED
      BY <3>2, <3>3 DEF IInv
  <2>4. CASE stage' = "held_out"
    <3>1. DOMAIN OfSplit(journal, "held_out") = {}
      BY <2>1 DEF NoRows, OfSplit
    <3>2. Live(OfSplit(journal', stage'), Schedule(stage', Cap), next', evidence')
      BY <1>1, <2>4, <3>1, LiveStarts
    <3>3. SplitInv'
      BY <1>1, <1>7, <2>2, <2>4, <3>2 DEF SplitInv
    <3>4. EndInv'
      BY <2>4 DEF EndInv
    <3>5. Len(StageSchedule') \in Nat
      <4>1. Schedule("held_out", Cap) = StageSchedule'
        BY <2>4 DEF StageSchedule
      <4> QED
        BY <4>1, SplitsKnown, SchedulePlanned, RecordAssumption DEF Planned
    <3>6. Typed'
      BY <1>1, <1>2, <1>4, <2>4, <3>5 DEF Typed, Stages, SplitNames, Evidence, NoEvidence
    <3> QED
      BY <3>3, <3>4, <3>6 DEF IInv
  <2> QED
    BY <1>1, <2>3, <2>4
<1>9. CASE stage = "held_out"
  <2>1. Len(header.verdicts) = 1 /\ Entry(1, "held_in") /\ stage' = "deciding"
    BY <1>1, <1>9 DEF IInv, SplitInv
  <2>2. Entry(1, "held_in")'
    <3>1. header'.verdicts[1] = header.verdicts[1]
      BY <1>4, <2>1
    <3> QED
      BY <1>1, <2>1, <3>1, EntryKept
  <2>3. Entry(2, "held_out")' /\ Len(header'.verdicts) = 2
    <3>1. Len(header.verdicts) + 1 = 2
      BY <2>1
    <3> QED
      BY <1>4, <1>6, <1>9, <3>1
  <2>4. Settled'
    BY <1>7, <2>2, <2>3 DEF Settled, TwoEntries
  <2>5. EndInv' /\ SplitInv'
    BY <1>7, <2>1, <2>4 DEF EndInv, SplitInv, SplitNames
  <2>6. Typed'
    BY <1>1, <1>2, <1>4, <2>1 DEF Typed, Stages, Measuring, SplitNames, Evidence, NoEvidence
  <2> QED
    BY <2>5, <2>6 DEF IInv
<1> QED
  BY <1>1, <1>8, <1>9 DEF SplitNames

LEMMA DecideHolds == ASSUME IInv, Decide PROVE IInv'
<1>1. /\ stage = "deciding" /\ stage' = "done" /\ runJSON' = header'
      /\ next' = next /\ evidence' = evidence /\ journal' = journal
      /\ header' = [header EXCEPT !.promote =
                      Promote(VerdictIn(header, "held_in"), VerdictIn(header, "held_out"))]
  BY DEF Decide
<1>2. header \in Headers /\ Settled
  BY <1>1 DEF IInv, Typed, EndInv
<1> DEFINE promote == Promote(VerdictIn(header, "held_in"), VerdictIn(header, "held_out"))
<1>3. promote \in BOOLEAN
  BY DEF Promote
<1>4. /\ header' \in Headers /\ header'.verdicts = header.verdicts /\ header'.promote = promote
  BY <1>1, <1>2, <1>3 DEF Headers
<1>5. Settled'
  <2>1. \A k, s : Entry(k, s) => Entry(k, s)'
    <3> TAKE k, s
    <3>1. header'.verdicts[k] = header.verdicts[k] /\ OfSplit(journal', s) = OfSplit(journal, s)
      BY <1>1, <1>4
    <3> QED
      BY <3>1, EntryKept
  <2>2. \A s : NoRows(s) => NoRows(s)'
    BY <1>1 DEF NoRows
  <2>3. OneEntry => OneEntry'
    BY <1>4, <2>1, <2>2 DEF OneEntry
  <2>4. TwoEntries => TwoEntries'
    BY <1>4, <2>1 DEF TwoEntries
  <2> QED
    BY <1>2, <2>2, <2>3, <2>4 DEF Settled
<1>6. \A s : VerdictIn(header', s) = VerdictIn(header, s)
  BY <1>4 DEF VerdictIn
<1>7. header'.promote = Promote(VerdictIn(header', "held_in"), VerdictIn(header', "held_out"))
  BY <1>4, <1>6
<1>8. EndInv' /\ SplitInv'
  BY <1>1, <1>5, <1>7 DEF EndInv, SplitInv, SplitNames
<1>9. Typed'
  BY <1>1, <1>4 DEF IInv, Typed, Stages, Measuring, SplitNames
<1> QED
  BY <1>8, <1>9 DEF IInv

LEMMA FoldAAHolds == ASSUME IInv, FoldAA PROVE IInv'
<1> DEFINE S == AASchedule
<1>1. /\ stage = "aa" /\ stage' = "aa" /\ header' = header /\ next' = next + 1
      /\ runJSON' = runJSON /\ Measuring /\ next < Len(S) /\ S = StageSchedule
  BY DEF FoldAA, More, StageSchedule, Measuring
<1>2. Planned(S) /\ DOMAIN S = 1..Len(S) /\ Len(S) \in Nat
  BY <1>1, StagePlanned
<1>3. journal \in Seq(RowSet) /\ next \in Nat /\ evidence \in Evidence /\ header \in Headers
  BY DEF IInv, Typed
<1>4. Calibrated
  BY <1>1 DEF IInv, EndInv
<1> DEFINE p == S[next + 1]
<1>5. PICK base \in Outcomes, edit \in Outcomes :
        /\ WritePair(p, base, edit)
        /\ evidence' = IF Counted(base, edit)
                       THEN Observe(evidence, PairOutcome(base, edit)) ELSE evidence
  BY <1>1 DEF FoldAA
<1>6. p \in ScheduledPair /\ stage \in SplitNames \cup {"aa"}
  BY <1>1, <1>2, <1>3 DEF Planned
<1>7. evidence' \in Evidence
  BY <1>3, <1>5, ObserveIs, OutcomesKnown
<1> HIDE DEF p
<1>8. /\ journal' \in Seq(RowSet) /\ Follows(journal, journal', p, base, edit)
      /\ \A s : s # stage => (NoRows(s) => NoRows(s)')
      /\ OfSplit(journal, stage) = journal => OfSplit(journal', stage) = journal'
  BY <1>3, <1>5, <1>6, Written
<1>9. /\ IdOf(p) \notin IdsUpTo(S, next)
      /\ IdsUpTo(S, next + 1) = IdsUpTo(S, next) \cup {IdOf(p)}
  <2> HIDE DEF S
  <2> QED
    BY <1>1, <1>2, <1>3, NextIsNew DEF p
<1>10. DOMAIN journal \subseteq Nat /\ \A k \in DOMAIN journal : journal[k].arm \in Arms
  <2>1. OfSplit(journal, "aa") = journal
    BY <1>4 DEF Calibrated
  <2>2. DOMAIN OfSplit(journal, "aa") \subseteq Nat
        /\ \A k \in DOMAIN OfSplit(journal, "aa") : OfSplit(journal, "aa")[k].arm \in Arms
    BY <1>3, SplitArms
  <2> QED
    BY <2>1, <2>2
<1>11. OnePerArm(journal', IdsUpTo(S, next + 1)) /\ Consistent(journal')
  <2>1. OnePerArm(journal, IdsUpTo(S, next)) /\ Consistent(journal)
    BY <1>4 DEF Calibrated
  <2> HIDE DEF S
  <2> QED
    BY <2>1, <1>8, <1>9, <1>10, PairAdded
<1>12. Calibrated'
  <2>1. OnePerArm(journal', IdsUpTo(AASchedule, next')) /\ Consistent(journal')
    BY <1>1, <1>11
  <2>2. OfSplit(journal', "aa") = journal'
    BY <1>1, <1>4, <1>8 DEF Calibrated
  <2>3. NoRows("held_in")' /\ NoRows("held_out")' /\ header' = NewHeader
    BY <1>1, <1>4, <1>8 DEF Calibrated
  <2> QED
    BY <2>1, <2>2, <2>3 DEF Calibrated
<1>13. Typed'
  <2>1. StageSchedule' = StageSchedule
    BY <1>1 DEF StageSchedule
  <2>2. next' \in Nat /\ next' <= Len(StageSchedule)
    BY <1>1, <1>2, <1>3
  <2> QED
    BY <1>1, <1>3, <1>7, <1>8, <2>1, <2>2 DEF IInv, Typed
<1>14. SplitInv' /\ EndInv'
  BY <1>1, <1>12 DEF SplitInv, EndInv, SplitNames
<1> QED
  BY <1>13, <1>14 DEF IInv

LEMMA EndAAHolds == ASSUME IInv, EndAA PROVE IInv'
<1>1. /\ stage = "aa" /\ stage' = "done" /\ runJSON' = header /\ header' = header
      /\ next' = next /\ evidence' = evidence /\ journal' = journal
  BY DEF EndAA
<1>2. Calibrated'
  BY <1>1 DEF IInv, EndInv, Calibrated, NoRows
<1>3. EndInv' /\ SplitInv'
  BY <1>1, <1>2 DEF EndInv, SplitInv, SplitNames
<1>4. Typed'
  BY <1>1 DEF IInv, Typed, Stages, Measuring, SplitNames
<1> QED
  BY <1>3, <1>4 DEF IInv

LEMMA DieHolds == ASSUME IInv, Die PROVE IInv'
BY DEF IInv, Die, Typed, SplitInv, EndInv, Stages, Measuring, SplitNames

LEMMA StutterHolds == ASSUME IInv, UNCHANGED vars PROVE IInv'
BY DEF vars, IInv, Typed, SplitInv, EndInv, Measuring, StageSchedule, NoRows,
       Calibrated, Settled, OneEntry, TwoEntries, Entry, Replayed

\* The invariant.
THEOREM RecordInvariant == Spec => []IInv
<1>1. IInv /\ [Next]_vars => IInv'
  <2> SUFFICES ASSUME IInv, [Next]_vars PROVE IInv'
    OBVIOUS
  <2>1. CASE FoldCounted
    BY <2>1, FoldCountedHolds
  <2>2. CASE FoldPending
    BY <2>2, FoldPendingHolds
  <2>3. CASE EndSplit
    BY <2>3, EndSplitHolds
  <2>4. CASE Decide
    BY <2>4, DecideHolds
  <2>5. CASE FoldAA
    BY <2>5, FoldAAHolds
  <2>6. CASE EndAA
    BY <2>6, EndAAHolds
  <2>7. CASE Die
    BY <2>7, DieHolds
  <2>8. CASE UNCHANGED vars
    BY <2>8, StutterHolds
  <2> QED
    BY <2>1, <2>2, <2>3, <2>4, <2>5, <2>6, <2>7, <2>8 DEF Next
<1> QED
  BY <1>1, InitHolds, PTL DEF Spec

-----------------------------------------------------------------------------
(***************************************************************************)
(* A finished run replays.                                                 *)
(***************************************************************************)
LEMMA NoRowsRead ==
  ASSUME NEW s, NoRows(s)
  PROVE  /\ OddPairs(OfSplit(journal, s)) = {} /\ Misstated(OfSplit(journal, s)) = {}
         /\ ~Replayed(journal, s) /\ ReplayVerdict(journal, s) = "inconclusive"
<1>1. DOMAIN OfSplit(journal, s) = {}
  BY DEF NoRows, OfSplit
<1>2. PairIds(OfSplit(journal, s)) = {} /\ Joined(OfSplit(journal, s)) = {}
  BY <1>1, Unwritten
<1> QED
  BY <1>2 DEF OddPairs, Misstated, Replayed, ReplayVerdict

\* A replay of an entry's rows makes its tally and its verdict again.
LEMMA EntryRead ==
  ASSUME Uncut, NEW k, NEW s, Entry(k, s), header.verdicts[k].evidence \in Evidence
  PROVE  /\ OddPairs(OfSplit(journal, s)) = {} /\ Misstated(OfSplit(journal, s)) = {}
         /\ Replayed(journal, s)
         /\ Replay(journal, s) = header.verdicts[k].evidence
         /\ ReplayVerdict(journal, s) = header.verdicts[k].verdict
<1> DEFINE e == header.verdicts[k].evidence  R == OfSplit(journal, s)
<1>1. Books(R, e) /\ header.verdicts[k].verdict = VerdictOn(s, e) /\ (0 < Cap => Replayed(journal, s))
  BY DEF Entry
<1>2. 0 < Cap
  <2>1. PlanSize("held_in") \in Nat \ {0} /\ Cap \in Nat
    BY RecordAssumption, SplitsKnown, ScheduleIs
  <2>2. PlanSize("held_in") <= Cap
    BY SplitsKnown DEF Uncut, PlanSize, TaskCount
  <2> QED
    BY <2>1, <2>2
<1>3. Recomputed(R) = e
  <2>1. e = [wins |-> e.wins, losses |-> e.losses, ties |-> e.ties, lost |-> e.lost]
    BY DEF Evidence
  <2>2. /\ e.wins = Cardinality(JoinedAs(R, {EditWon}))
        /\ e.losses = Cardinality(JoinedAs(R, {BaselineWon}))
        /\ e.ties = Cardinality(JoinedAs(R, {Tie})) /\ e.lost = Cardinality(LostFrom(R))
    BY <1>1 DEF Books, Counts
  <2> HIDE DEF e, R
  <2> QED
    BY <2>1, <2>2 DEF Recomputed
<1> QED
  BY <1>1, <1>2, <1>3 DEF Books, Replay, ReplayVerdict

\* The verdicts a settled run's decision rests on.
LEMMA VerdictsRead ==
  ASSUME Settled, header \in Headers
  PROVE  /\ VerdictIn(header, "held_in") = header.verdicts[1].verdict
         /\ OneEntry => VerdictIn(header, "held_out") = "inconclusive"
         /\ TwoEntries => VerdictIn(header, "held_out") = header.verdicts[2].verdict
<1> DEFINE of(s) == {k \in DOMAIN header.verdicts : header.verdicts[k].split = s}
<1>1. Min({1}) = 1 /\ Min({2}) = 2
  <2>1. Min({1, 1}) = 1 /\ Min({2, 2}) = 2
    BY MinOfTwo
  <2>2. {1, 1} = {1} /\ {2, 2} = {2}
    OBVIOUS
  <2> QED
    BY <2>1, <2>2
<1>2. ASSUME OneEntry PROVE of("held_in") = {1} /\ of("held_out") = {}
  <2>1. DOMAIN header.verdicts = {1}
    BY <1>2 DEF OneEntry, Headers
  <2> QED
    BY <2>1, <1>2 DEF OneEntry, Entry
<1>3. ASSUME TwoEntries PROVE of("held_in") = {1} /\ of("held_out") = {2}
  <2>1. DOMAIN header.verdicts = {1, 2}
    BY <1>3 DEF TwoEntries, Headers
  <2> QED
    BY <2>1, <1>3 DEF TwoEntries, Entry
<1> QED
  BY <1>1, <1>2, <1>3 DEF VerdictIn, Settled

\* What the record has of a split is what replaying its rows makes again.
LEMMA SettledReplays ==
  ASSUME Uncut, IInv, stage = "done", Settled, runJSON = header,
         header.promote = Promote(VerdictIn(header, "held_in"), VerdictIn(header, "held_out"))
  PROVE  Anomalies(runJSON, journal) = {}
<1>1. header \in Headers
  BY DEF IInv, Typed
<1>2. \A k \in DOMAIN header.verdicts : header.verdicts[k].evidence \in Evidence
  <2> DEFINE T == [split : SplitNames, evidence : Evidence, verdict : Verdicts]
  <2>1. header.verdicts \in Seq(T)
    BY <1>1 DEF Headers
  <2>2. \A x \in T : x.evidence \in Evidence
    OBVIOUS
  <2> HIDE DEF T
  <2>3. \A k \in DOMAIN header.verdicts : header.verdicts[k] \in T
    BY <2>1
  <2> QED
    BY <2>2, <2>3
<1>3. VerdictIn(header, "held_in") = header.verdicts[1].verdict
  BY <1>1, VerdictsRead
<1>4. OddPairs(OfSplit(journal, "aa")) = {} /\ Misstated(OfSplit(journal, "aa")) = {}
  BY NoRowsRead DEF Settled
<1>5. ASSUME NEW k, NEW s, Entry(k, s), k \in DOMAIN header.verdicts
      PROVE  /\ OddPairs(OfSplit(journal, s)) = {} /\ Misstated(OfSplit(journal, s)) = {}
             /\ Replayed(journal, s)
             /\ Replay(journal, s) = header.verdicts[k].evidence
             /\ ReplayVerdict(journal, s) = header.verdicts[k].verdict
  BY <1>2, <1>5, EntryRead
<1>6. ASSUME NEW s \in SplitNames \cup {"aa"}
      PROVE  OddPairs(OfSplit(journal, s)) \cup Misstated(OfSplit(journal, s)) = {}
  <2>1. CASE s = "aa"
    BY <2>1, <1>4
  <2>2. CASE s = "held_in"
    <3>1. Entry(1, "held_in") /\ 1 \in DOMAIN header.verdicts
      BY <1>1 DEF Settled, OneEntry, TwoEntries, Headers
    <3> QED
      BY <3>1, <2>2, <1>5
  <2>3. CASE s = "held_out"
    <3>1. CASE OneEntry
      BY <3>1, <2>3, NoRowsRead DEF OneEntry
    <3>2. CASE TwoEntries
      <4>1. Entry(2, "held_out") /\ 2 \in DOMAIN header.verdicts
        BY <1>1, <3>2 DEF TwoEntries, Headers
      <4> QED
        BY <4>1, <2>3, <1>5
    <3> QED
      BY <3>1, <3>2 DEF Settled
  <2> QED
    BY <2>1, <2>2, <2>3 DEF SplitNames
<1>7. ASSUME NEW k \in DOMAIN header.verdicts
      PROVE  LET s == header.verdicts[k].split
             IN  /\ Replayed(journal, s) /\ Replay(journal, s) = header.verdicts[k].evidence
                 /\ ReplayVerdict(journal, s) = header.verdicts[k].verdict
  <2>1. Entry(k, header.verdicts[k].split)
    <3>1. CASE OneEntry
      <4>1. k = 1
        BY <1>1, <3>1 DEF OneEntry, Headers
      <4> QED
        BY <4>1, <3>1 DEF OneEntry, Entry
    <3>2. CASE TwoEntries
      <4>1. k = 1 \/ k = 2
        BY <1>1, <3>2 DEF TwoEntries, Headers
      <4> QED
        BY <4>1, <3>2 DEF TwoEntries, Entry
    <3> QED
      BY <3>1, <3>2 DEF Settled
  <2> QED
    BY <2>1, <1>5
<1>8. ReplayPromote(journal) = header.promote
  <2>1. ReplayVerdict(journal, "held_in") = VerdictIn(header, "held_in")
    <3>1. Entry(1, "held_in") /\ 1 \in DOMAIN header.verdicts
      BY <1>1 DEF Settled, OneEntry, TwoEntries, Headers
    <3> QED
      BY <3>1, <1>3, <1>5
  <2>2. ReplayVerdict(journal, "held_out") = VerdictIn(header, "held_out")
    <3>1. CASE OneEntry
      BY <1>1, <3>1, NoRowsRead, VerdictsRead DEF OneEntry
    <3>2. CASE TwoEntries
      <4>1. Entry(2, "held_out") /\ 2 \in DOMAIN header.verdicts
        BY <1>1, <3>2 DEF TwoEntries, Headers
      <4> QED
        BY <1>1, <4>1, <1>5, <3>2, VerdictsRead
    <3> QED
      BY <3>1, <3>2 DEF Settled
  <2> QED
    BY <2>1, <2>2 DEF ReplayPromote
<1>9. /\ {s \in SplitNames \cup {"aa"} :
            OddPairs(OfSplit(journal, s)) \cup Misstated(OfSplit(journal, s)) # {}} = {}
      /\ {j \in DOMAIN header.verdicts :
            \/ ~Replayed(journal, header.verdicts[j].split)
            \/ ReplayVerdict(journal, header.verdicts[j].split) # header.verdicts[j].verdict
            \/ Replay(journal, header.verdicts[j].split) # header.verdicts[j].evidence} = {}
  BY <1>6, <1>7
<1> QED
  BY <1>8, <1>9 DEF Anomalies

\* A calibration's record states no verdict, and none is made again.
LEMMA CalibratedReplays ==
  ASSUME Calibrated, runJSON = header, journal \in Seq(RowSet)
  PROVE  Anomalies(runJSON, journal) = {}
<1>1. /\ NoRows("held_in") /\ NoRows("held_out") /\ OfSplit(journal, "aa") = journal
      /\ OnePerArm(journal, IdsUpTo(AASchedule, next)) /\ Consistent(journal)
  BY DEF Calibrated
<1>2. OddPairs(journal) = {} /\ Misstated(journal) = {}
  <2>1. Joined(journal) = PairIds(journal)
    BY <1>1, AllJoined DEF OnePerArm
  <2>2. ASSUME NEW id \in Joined(journal) PROVE Row(journal, id, "edit").stored = OutcomeOf(journal, id)
    <3> PICK k \in DOMAIN journal : RowsOf(journal, id, "edit") = {k}
      BY <1>1, <2>1 DEF OnePerArm, Arms
    <3>1. k \in RowsOf(journal, id, "edit")
      OBVIOUS
    <3>2. journal[k].pair = id
      BY <3>1 DEF RowsOf
    <3>3. Row(journal, id, "edit") = journal[k]
      <4>1. k \in Int
        BY <1>1
      <4> QED
        BY <4>1, RowIs
    <3> QED
      BY <1>1, <3>2, <3>3 DEF Consistent
  <2> QED
    BY <2>1, <2>2 DEF OddPairs, Misstated
<1>3. \A s \in SplitNames \cup {"aa"} :
        OddPairs(OfSplit(journal, s)) \cup Misstated(OfSplit(journal, s)) = {}
  BY <1>1, <1>2, NoRowsRead DEF SplitNames
<1>4. header.verdicts = <<>> /\ header.promote = FALSE
  BY DEF Calibrated, NewHeader
<1>5. ReplayPromote(journal) = FALSE
  BY <1>1, NoRowsRead DEF ReplayPromote, Promote
<1>6. {s \in SplitNames \cup {"aa"} :
         OddPairs(OfSplit(journal, s)) \cup Misstated(OfSplit(journal, s)) # {}} = {}
  BY <1>3
<1>7. DOMAIN header.verdicts = {}
  BY <1>4
<1> QED
  BY <1>4, <1>5, <1>6, <1>7 DEF Anomalies

\* Replaying the rows a finished run wrote finds nothing, in either mode, as
\* long as the cap cuts no schedule (replay.go, Replay; measure.go, schedule).
THEOREM RecordReplays == Uncut => (Spec => []FinishedRunReplays)
<1>1. ASSUME Uncut, IInv PROVE FinishedRunReplays
  <2> SUFFICES ASSUME stage = "done" PROVE Anomalies(runJSON, journal) = {}
    BY DEF FinishedRunReplays
  <2> QED
    BY <1>1, SettledReplays, CalibratedReplays DEF IInv, EndInv, Typed
<1> SUFFICES ASSUME Uncut PROVE Spec => []FinishedRunReplays
  OBVIOUS
<1>2. IInv => FinishedRunReplays
  BY <1>1
<1> QED
  BY <1>2, RecordInvariant, PTL

-----------------------------------------------------------------------------
(***************************************************************************)
(* A promotion stands on the rows.                                         *)
(***************************************************************************)
\* The answered pairs decide harm, gain and non-inferiority; the lost tasks
\* do not.
LEMMA SameReading ==
  ASSUME NEW d, NEW e, d.wins = e.wins, d.losses = e.losses, d.ties = e.ties
  PROVE  (Harm(d) <=> Harm(e)) /\ (Gain(d) <=> Gain(e)) /\ (NonInferior(d) <=> NonInferior(e))
<1>1. Pairs(d) = Pairs(e) /\ Discordant(d) = Discordant(e)
  BY DEF Pairs, Discordant
<1>2. DeltaCorners(d) = DeltaCorners(e)
  BY <1>1 DEF DeltaCorners
<1>3. DeltaLo(d) = DeltaLo(e)
  BY <1>1, <1>2 DEF DeltaLo
<1> QED
  BY <1>1, <1>3 DEF Harm, Gain, NonInferior

LEMMA GoodReading ==
  ASSUME NEW s \in SplitNames, NEW e, VerdictOn(s, e) \in {"improve", "hold"}
  PROVE  /\ ~Harm(e) /\ NonInferior(e)
         /\ VerdictOn(s, e) = "improve" => Gain(e)
         /\ s = "held_out" => CountOK(e)
BY DEF VerdictOn, Verdict, Reading

\* A promotion stands on the rows of both splits, where the run's count gate
\* allows no lost task (stats.go, Promote and Read; measure.go, Params).
THEOREM PromotionStands == CountGate = 0 => (Spec => []PromotionStandsOnTheRows)
<1>1. ASSUME CountGate = 0, IInv PROVE PromotionStandsOnTheRows
  <2> SUFFICES ASSUME stage = "done", runJSON.promote
               PROVE  /\ \A split \in SplitNames :
                           NonInferior(Replay(journal, split)) /\ ~Harm(Replay(journal, split))
                      /\ \E split \in SplitNames : Gain(Replay(journal, split))
                      /\ LostFrom(OfSplit(journal, "held_out")) = {}
    BY DEF PromotionStandsOnTheRows
  <2>1. /\ Settled /\ header \in Headers
        /\ Promote(VerdictIn(header, "held_in"), VerdictIn(header, "held_out"))
    BY <1>1 DEF IInv, EndInv, Calibrated, NewHeader, Typed
  <2>2. TwoEntries /\ VerdictIn(header, "held_in") = header.verdicts[1].verdict
        /\ VerdictIn(header, "held_out") = header.verdicts[2].verdict
    BY <2>1, VerdictsRead DEF Settled, Promote
  <2> DEFINE at(s) == IF s = "held_in" THEN 1 ELSE 2
             tally(s) == header.verdicts[at(s)].evidence
  <2>3. \A s \in SplitNames : /\ Books(OfSplit(journal, s), tally(s))
                              /\ header.verdicts[at(s)].verdict = VerdictOn(s, tally(s))
    BY <2>2 DEF TwoEntries, Entry, SplitNames
  <2>4. \A s \in SplitNames : VerdictOn(s, tally(s)) \in {"improve", "hold"}
    <3>1. {header.verdicts[1].verdict, header.verdicts[2].verdict} \subseteq {"improve", "hold"}
      BY <2>1, <2>2 DEF Promote
    <3>2. header.verdicts[1].verdict = VerdictOn("held_in", tally("held_in"))
          /\ header.verdicts[2].verdict = VerdictOn("held_out", tally("held_out"))
      BY <2>3, SplitsKnown
    <3> QED
      BY <3>1, <3>2 DEF SplitNames
  <2>5. \A s \in SplitNames : LET e == Replay(journal, s) IN
          /\ e.wins = tally(s).wins /\ e.losses = tally(s).losses /\ e.ties = tally(s).ties
    BY <2>3 DEF Replay, Recomputed, Books, Counts
  <2> HIDE DEF tally
  <2>6. \A s \in SplitNames : /\ Harm(Replay(journal, s)) <=> Harm(tally(s))
                              /\ Gain(Replay(journal, s)) <=> Gain(tally(s))
                              /\ NonInferior(Replay(journal, s)) <=> NonInferior(tally(s))
    BY <2>5, SameReading
  <2>7. \E s \in SplitNames : VerdictOn(s, tally(s)) = "improve"
    <3>1. "improve" \in {header.verdicts[1].verdict, header.verdicts[2].verdict}
      BY <2>1, <2>2 DEF Promote
    <3> QED
      BY <3>1, <2>3, SplitsKnown
  <2>8. LostFrom(OfSplit(journal, "held_out")) = {}
    <3>1. CountOK(tally("held_out")) /\ Books(OfSplit(journal, "held_out"), tally("held_out"))
      BY <2>3, <2>4, SplitsKnown, GoodReading
    <3>2. tally("held_out").lost <= 0
      BY <3>1, <1>1 DEF CountOK, CountGateOff
    <3>3. tally("held_out").lost \in Nat
      <4> DEFINE T == [split : SplitNames, evidence : Evidence, verdict : Verdicts]
      <4>1. header.verdicts \in Seq(T) /\ 2 \in DOMAIN header.verdicts
        BY <2>1, <2>2 DEF TwoEntries, Headers
      <4>2. \A x \in T : x.evidence.lost \in Nat
        BY DEF Evidence
      <4> HIDE DEF T
      <4>3. header.verdicts[2] \in T
        BY <4>1
      <4> QED
        BY <4>2, <4>3 DEF tally
    <3> QED
      BY <3>1, <3>2, <3>3 DEF Books
  <2> QED
    BY <2>4, <2>6, <2>7, <2>8, GoodReading
<1> SUFFICES ASSUME CountGate = 0 PROVE Spec => []PromotionStandsOnTheRows
  OBVIOUS
<1>2. IInv => PromotionStandsOnTheRows
  BY <1>1
<1> QED
  BY <1>2, RecordInvariant, PTL

-----------------------------------------------------------------------------
(***************************************************************************)
(* A calibration takes the splits in turn.                                 *)
(***************************************************************************)
\* The pairs taken from a split are the first of its schedule.
LEMMA TakenIs ==
  ASSUME Calibrated, next \in 0..TurnCount, NEW s \in {1, 2}
  PROVE  Cardinality({task \in Range(Tasks[Splits[s]]) \X (0..(Repeats - 1)) :
                        task \in PairIds(journal)}) = Had(s, next)
<1> DEFINE split == Splits[s]
           S == Schedule(split, AAPairs)
           A == AASchedule
           taken == {task \in Range(Tasks[split]) \X (0..(Repeats - 1)) : task \in PairIds(journal)}
           first == {IdOf(S[k]) : k \in 1..Had(s, next)}
<1>1. Splits[1] = "held_in" /\ Splits[2] = "held_out" /\ \A r \in {1, 2} : Splits[r] \in SplitNames
  BY DEF Splits, SplitNames
<1>2. /\ Planned(S) /\ \A k \in 1..Len(S) : InSuite(split, IdOf(S[k]))
      /\ Len(S) = IF s = 1 THEN InCount ELSE OutCount
  BY <1>1, SchedulePlanned, RecordAssumption DEF InCount, OutCount
<1>3. PairIds(journal) = IdsUpTo(A, next)
  BY DEF Calibrated, OnePerArm
<1>4. /\ Had(s, next) \in Nat
      /\ \A k \in 1..Had(s, next) : \E i \in 1..next : Turn(i) = <<k, s>>
      /\ \A i \in 1..next : Turn(i)[2] = s => Turn(i)[1] \in 1..Had(s, next)
  BY HadIs
<1>5. \A i \in 1..next : i \in 1..TurnCount
  BY TurnsAre
<1>6. \A i \in 1..next : A[i] = Schedule(Splits[Turn(i)[2]], AAPairs)[Turn(i)[1]]
  BY <1>5, CalibrationPlanned
<1>7. \A k \in 1..Had(s, next) : k \in 1..Len(S) /\ \E i \in 1..next : A[i] = S[k]
  <2> TAKE k \in 1..Had(s, next)
  <2> PICK i \in 1..next : Turn(i) = <<k, s>>
    BY <1>4
  <2>1. Turn(i)[1] = k /\ Turn(i)[2] = s
    OBVIOUS
  <2>2. k \in 1..Len(S)
    BY <2>1, <1>2, <1>5, TurnIs
  <2>3. A[i] = S[k]
    BY <2>1, <1>6
  <2> QED
    BY <2>2, <2>3
<1>8. ASSUME NEW x \in taken PROVE x \in first
  <2> PICK i \in 1..next : x = IdOf(A[i])
    BY <1>3 DEF IdsUpTo
  <2> DEFINE r == Turn(i)[2]
  <2>1. r \in {1, 2} /\ Turn(i)[1] \in 1..(IF r = 1 THEN InCount ELSE OutCount)
    BY <1>5, TurnIs
  <2>2. InSuite(Splits[r], x)
    <3> DEFINE U == Schedule(Splits[r], AAPairs)
    <3>1. /\ \A k \in 1..Len(U) : InSuite(Splits[r], IdOf(U[k]))
          /\ Len(U) = IF r = 1 THEN InCount ELSE OutCount
      BY <1>1, <2>1, SchedulePlanned, RecordAssumption DEF InCount, OutCount
    <3>2. x = IdOf(U[Turn(i)[1]])
      BY <1>6
    <3> HIDE DEF U
    <3> QED
      BY <2>1, <3>1, <3>2
  <2>3. InSuite(split, x)
    BY DEF InSuite, Range
  <2>4. r = s
    BY <1>1, <2>1, <2>2, <2>3, OneSplit
  <2>5. Turn(i)[1] \in 1..Had(s, next) /\ x = IdOf(S[Turn(i)[1]])
    BY <1>4, <1>6, <2>4
  <2> QED
    BY <2>5
<1>9. ASSUME NEW k \in 1..Had(s, next) PROVE IdOf(S[k]) \in taken
  <2>1. k \in 1..Len(S) /\ IdOf(S[k]) \in PairIds(journal)
    BY <1>3, <1>7 DEF IdsUpTo
  <2>2. InSuite(split, IdOf(S[k]))
    BY <1>2, <2>1
  <2>3. IdOf(S[k]) \in Range(Tasks[split]) \X (0..(Repeats - 1))
    BY <2>2 DEF InSuite, IdOf, Range
  <2> QED
    BY <2>1, <2>3
<1>10. taken = first
  BY <1>8, <1>9
<1>11. Cardinality(first) = Had(s, next)
  <2>1. 1..Had(s, next) \in SUBSET (1..Len(S))
    BY <1>7
  <2> HIDE DEF S
  <2>2. Cardinality(first) = Cardinality(1..Had(s, next))
    BY <1>2, <2>1, IdsOf
  <2>3. Cardinality(1..Had(s, next)) = Had(s, next)
    BY <1>4, FS_Interval
  <2> QED
    BY <2>2, <2>3
<1> QED
  BY <1>10, <1>11

\* A calibration leaves a split behind only when that one is used up
\* (measure.go, calibrate).
THEOREM CalibrationBalanced == Spec => []CalibrationIsBalanced
<1>1. IInv => CalibrationIsBalanced
  <2> SUFFICES ASSUME IInv, stage = "aa" PROVE CalibrationIsBalanced
    BY DEF CalibrationIsBalanced
  <2>1. Calibrated /\ next \in 0..TurnCount
    BY CalibrationPlanned DEF IInv, EndInv, Typed, Measuring, StageSchedule
  <2> DEFINE taken(split) == Cardinality({task \in Range(Tasks[split]) \X (0..(Repeats - 1)) :
                                            task \in PairIds(journal)})
  <2>2. taken("held_in") = Had(1, next) /\ taken("held_out") = Had(2, next)
    <3>1. taken(Splits[1]) = Had(1, next) /\ taken(Splits[2]) = Had(2, next)
      BY <2>1, TakenIs
    <3> QED
      BY <3>1 DEF Splits
  <2>3. /\ Had(1, next) - Had(2, next) > 1 => Had(2, next) = OutCount
        /\ Had(2, next) > Had(1, next) => Had(1, next) = InCount
    BY <2>1, TurnsAre DEF Had, Fewer
  <2> HIDE DEF taken
  <2>4. /\ taken("held_in") - taken("held_out") > 1 => taken("held_out") = OutCount
        /\ taken("held_out") > taken("held_in") => taken("held_in") = InCount
    BY <2>2, <2>3
  <2> QED
    BY <2>4 DEF CalibrationIsBalanced, taken, InCount, OutCount
<1> QED
  BY <1>1, RecordInvariant, PTL
=============================================================================
