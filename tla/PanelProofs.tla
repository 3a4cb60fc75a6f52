---------------------------- MODULE PanelProofs ----------------------------
(***************************************************************************)
(* Theorems about Panel, for any suite, harness, requests and days, and    *)
(* for any number of commands wherever they stop.                          *)
(***************************************************************************)
EXTENDS Panel, FiniteSetTheorems, WellFoundedInduction, TLAPS

IsSeq(s) == \E S : s \in Seq(S)

\* A command has what the steps of its stage read.
JobOK(job) ==
  /\ "stage" \in DOMAIN job /\ job.stage \in {"judging", "ended"} \cup Writing
  /\ job.stage # "ended" => {"id", "target", "result"} \subseteq DOMAIN job
  /\ job.stage = "judging" =>
       /\ {"items", "recorded", "seeds"} \subseteq DOMAIN job
       /\ DOMAIN job.items = Items /\ job.seeds \in Nat

\* An item is asked about at most once a seed, and a rescoring has a recorded
\* run for every seed.
ItemsOK(job, runs) ==
  job.stage = "judging" =>
    /\ \A i \in Items :
         /\ Len(runs[i]) <= job.seeds
         /\ job.items[i] \in {"waiting", "judging"} => Len(runs[i]) < job.seeds
    /\ job.recorded # None => \A i \in Items : Len(job.recorded.entries[i].runs) = job.seeds

RunsOK(runs) == DOMAIN runs = Items /\ \A i \in Items : IsSeq(runs[i])

Shaped(jb, tr) ==
  /\ IsSeq(jb) /\ IsSeq(tr) /\ DOMAIN tr = DOMAIN jb
  /\ \A j \in DOMAIN jb : JobOK(jb[j]) /\ ItemsOK(jb[j], tr[j]) /\ RunsOK(tr[j])

\* The reports and journals there are, on disk or about to be written.
Reports(jb, ds) ==
  ({ds[d].report : d \in DOMAIN ds} \ {None})
    \cup {jb[j].result.report : j \in {k \in DOMAIN jb : jb[k].stage \in Writing}}
Journals(jb, ds) ==
  ({ds[d].journal : d \in DOMAIN ds} \ {None})
    \cup {jb[j].result.journal : j \in {k \in DOMAIN jb : jb[k].stage \in Writing}}

\* The command has asked all it will ask: its traces stay what they are.
DoneAsking(jb, j) == j \in DOMAIN jb /\ jb[j].stage # "judging"

\* A journal is of one command, which is done asking.
Settled(jb, y) ==
  /\ DoneAsking(jb, y.by)
  /\ \A i \in Items :
       /\ IsSeq(y.entries[i].runs)
       /\ \A s \in DOMAIN y.entries[i].runs : y.entries[i].runs[s].at.job = y.by

\* What a journal and the traces say was measured.
Again(tr, y) == [i \in Items |->
  [gold |-> y.entries[i].gold, label |-> y.entries[i].label, human |-> y.entries[i].human,
   runs |-> [s \in DOMAIN y.entries[i].runs |->
     tr[y.entries[i].runs[s].at.job][y.entries[i].runs[s].at.item][y.entries[i].runs[s].at.seed]]]]

Rebuilds(tr, x, y) == Report(Again(tr, y), x.numbers.carried) = x.numbers

\* A report and a journal of one command go together, wherever each is.
Consistent(jb, ds, tr) ==
  /\ \A d \in DOMAIN ds : DOMAIN ds[d] = {"report", "journal"}
  /\ \A y \in Journals(jb, ds) : Settled(jb, y)
  /\ \A y \in Journals(jb, ds), z \in Journals(jb, ds) : y.by = z.by => y = z
  /\ \A x \in Reports(jb, ds) : DoneAsking(jb, x.by)
  /\ \A x \in Reports(jb, ds), y \in Journals(jb, ds) : x.by = y.by => Rebuilds(tr, x, y)
  /\ \A j \in DOMAIN jb : jb[j].stage = "judging" /\ jb[j].recorded # None => Settled(jb, jb[j].recorded)

-----------------------------------------------------------------------------
(***************************************************************************)
(* Sequences of anything                                                   *)
(***************************************************************************)
\* A sequence is a function on an initial segment.
LEMMA SeqIs ==
  ASSUME NEW s, IsSeq(s)
  PROVE  Len(s) \in Nat /\ DOMAIN s = 1..Len(s) /\ s = [n \in 1..Len(s) |-> s[n]]
BY DEF IsSeq

\* What is added comes last.
LEMMA SeqAppend ==
  ASSUME NEW s, IsSeq(s), NEW e
  PROVE  /\ IsSeq(Append(s, e)) /\ Len(Append(s, e)) = Len(s) + 1
         /\ DOMAIN Append(s, e) = DOMAIN s \cup {Len(s) + 1} /\ Len(s) + 1 \notin DOMAIN s
         /\ Append(s, e)[Len(s) + 1] = e /\ \A n \in DOMAIN s : Append(s, e)[n] = s[n]
<1>1. PICK S : s \in Seq(S)
  BY DEF IsSeq
<1>2. s \in Seq(S \cup {e})
  BY <1>1
<1>3. Append(s, e) \in Seq(S \cup {e})
  BY <1>2
<1> QED
  BY <1>1, <1>2, <1>3 DEF IsSeq

\* An entry may be replaced.
LEMMA SeqExcept ==
  ASSUME NEW s, IsSeq(s), NEW e, NEW n \in DOMAIN s
  PROVE  /\ IsSeq([s EXCEPT ![n] = e]) /\ Len([s EXCEPT ![n] = e]) = Len(s)
         /\ DOMAIN [s EXCEPT ![n] = e] = DOMAIN s
         /\ [s EXCEPT ![n] = e][n] = e
         /\ \A m \in DOMAIN s : m # n => [s EXCEPT ![n] = e][m] = s[m]
<1>1. PICK S : s \in Seq(S)
  BY DEF IsSeq
<1>2. s \in Seq(S \cup {e})
  BY <1>1
<1>3. [s EXCEPT ![n] = e] \in Seq(S \cup {e})
  BY <1>2
<1> QED
  BY <1>1, <1>2, <1>3 DEF IsSeq

\* A function on an initial segment is a sequence.
LEMMA SeqBuilt ==
  ASSUME NEW n \in Nat, NEW S, NEW s, s \in [1..n -> S]
  PROVE  IsSeq(s) /\ Len(s) = n
<1>1. s \in Seq(S)
  OBVIOUS
<1>2. IsSeq(s)
  BY <1>1 DEF IsSeq
<1>3. Len(s) = n
  BY <1>1
<1> QED
  BY <1>2, <1>3

\* So is a function on the indices of one.
LEMMA SeqLike ==
  ASSUME NEW t, IsSeq(t), NEW s, DOMAIN s = DOMAIN t, s = [n \in DOMAIN t |-> s[n]]
  PROVE  IsSeq(s) /\ Len(s) = Len(t)
<1> DEFINE S == {s[n] : n \in 1..Len(t)}
<1>1. Len(t) \in Nat /\ DOMAIN t = 1..Len(t)
  BY SeqIs
<1>2. s \in [1..Len(t) -> S]
  BY <1>1
<1> HIDE DEF S
<1> QED
  BY <1>1, <1>2, SeqBuilt

\* A set of integers that is bounded below has its Min.
LEMMA MinIs ==
  ASSUME NEW S \in SUBSET Int, S # {}, NEW low \in Int, \A x \in S : low <= x
  PROVE  Min(S) \in S /\ \A x \in S : Min(S) <= x
<1> DEFINE T == {n \in Nat : n + low \in S}
<1>1. T \subseteq Nat /\ T # {}
  <2>1. PICK x \in S : TRUE
    OBVIOUS
  <2>2. x - low \in Nat /\ (x - low) + low = x
    BY <2>1
  <2> QED
    BY <2>1, <2>2
<1> DEFINE R == {ss \in Nat \X Nat : ss[1] < ss[2]}
<1>2. IsWellFoundedOn(R, Nat)
  BY NatLessThanWellFounded, Zenon DEF OpToRel
<1> HIDE DEF T
<1>3. PICK n \in T : \A m \in T : ~ (<<m, n>> \in R)
  <2> HIDE DEF R
  <2> QED
    BY <1>1, <1>2, WFMin, Zenon
<1> USE DEF T
<1>4. n + low \in S /\ \A x \in S : n + low <= x
  <2> SUFFICES ASSUME NEW x \in S PROVE n + low <= x
    BY <1>3
  <2>1. x - low \in T
    <3>1. x - low \in Nat /\ (x - low) + low = x
      OBVIOUS
    <3> QED
      BY <3>1
  <2>2. ~ (x - low < n) /\ n \in Nat
    BY <1>3, <2>1
  <2> QED
    BY <2>2
<1>5. \E y \in S : \A x \in S : y <= x
  BY <1>4
<1> QED
  BY <1>5 DEF Min

\* And one that is bounded above its Max.
LEMMA MaxIs ==
  ASSUME NEW S \in SUBSET Int, S # {}, NEW high \in Int, \A x \in S : x <= high
  PROVE  Max(S) \in S /\ \A x \in S : x <= Max(S)
<1> DEFINE T == {-x : x \in S}
<1>1. T \in SUBSET Int /\ T # {} /\ -high \in Int /\ \A x \in T : -high <= x
  <2>1. \A x \in S : -x \in Int /\ -high <= -x
    OBVIOUS
  <2>2. -high \in Int
    OBVIOUS
  <2>3. T # {} /\ \A y \in T : y \in Int /\ -high <= y
    BY <2>1
  <2> QED
    BY <2>2, <2>3
<1>2. Min(T) \in T /\ \A x \in T : Min(T) <= x
  <2> HIDE DEF T
  <2> QED
    BY <1>1, MinIs
<1>3. PICK y \in S : \A x \in S : -y <= -x
  <2>1. PICK y \in S : Min(T) = -y
    BY <1>2
  <2> QED
    BY <1>2, <2>1
<1>4. \A x \in S : y >= x
  BY <1>3
<1> QED
  BY <1>4 DEF Max

\* One command moves on, and no traces but its own change.
MovesOn(jb, tr, j, new, jb2, tr2) ==
  /\ Shaped(jb, tr) /\ j \in DOMAIN jb /\ jb2 = [jb EXCEPT ![j] = new]
  /\ IsSeq(tr2) /\ DOMAIN tr2 = DOMAIN tr /\ \A k \in DOMAIN tr : k # j => tr2[k] = tr[k]
  /\ JobOK(new) /\ ItemsOK(new, tr2[j]) /\ RunsOK(tr2[j])

\* The stages of the commands, as one of them moves on.
Moved(jb, jb2, j, new) ==
  /\ DOMAIN jb2 = DOMAIN jb /\ jb2[j] = new
  /\ \A k \in DOMAIN jb : k # j => jb2[k] = jb[k]

-----------------------------------------------------------------------------
(***************************************************************************)
(* The commands                                                            *)
(***************************************************************************)
\* A command moves on.
LEMMA JobMoves ==
  ASSUME NEW jb, NEW tr, NEW j, NEW new, NEW jb2, NEW tr2, MovesOn(jb, tr, j, new, jb2, tr2)
  PROVE  Shaped(jb2, tr2) /\ Moved(jb, jb2, j, new)
<1>1. IsSeq(jb) /\ DOMAIN tr = DOMAIN jb
  BY DEF MovesOn, Shaped
<1>2. /\ IsSeq(jb2) /\ DOMAIN jb2 = DOMAIN jb /\ jb2[j] = new
      /\ \A k \in DOMAIN jb : k # j => jb2[k] = jb[k]
  BY <1>1, SeqExcept DEF MovesOn
<1>3. \A k \in DOMAIN jb2 : JobOK(jb2[k]) /\ ItemsOK(jb2[k], tr2[k]) /\ RunsOK(tr2[k])
  BY <1>1, <1>2 DEF MovesOn, Shaped
<1>4. IsSeq(tr2) /\ DOMAIN tr2 = DOMAIN jb2
  BY <1>1, <1>2 DEF MovesOn
<1> QED
  BY <1>2, <1>3, <1>4 DEF Shaped, Moved

\* A command begins, with no traces yet.
Begun(jb, tr, new, runs, jb2, tr2) ==
  /\ Shaped(jb2, tr2)
  /\ DOMAIN jb2 = DOMAIN jb \cup {Len(jb) + 1} /\ Len(jb) + 1 \notin DOMAIN jb
  /\ jb2[Len(jb) + 1] = new /\ tr2[Len(jb) + 1] = runs
  /\ \A k \in DOMAIN jb : jb2[k] = jb[k] /\ tr2[k] = tr[k]

\* The commands keep their shape as one begins.
LEMMA JobBegins ==
  ASSUME NEW jb, NEW tr, Shaped(jb, tr), NEW new, NEW runs,
         JobOK(new), ItemsOK(new, runs), RunsOK(runs)
  PROVE  Begun(jb, tr, new, runs, Append(jb, new), Append(tr, runs))
<1> DEFINE jb2 == Append(jb, new)
           tr2 == Append(tr, runs)
<1>1. IsSeq(jb) /\ IsSeq(tr) /\ DOMAIN tr = DOMAIN jb
  BY DEF Shaped
<1>2. Len(tr) = Len(jb)
  BY <1>1, SeqIs
<1>3. /\ IsSeq(jb2) /\ DOMAIN jb2 = DOMAIN jb \cup {Len(jb) + 1} /\ Len(jb) + 1 \notin DOMAIN jb
      /\ jb2[Len(jb) + 1] = new /\ \A k \in DOMAIN jb : jb2[k] = jb[k]
  BY <1>1, SeqAppend
<1>4. /\ IsSeq(tr2) /\ DOMAIN tr2 = DOMAIN jb \cup {Len(jb) + 1}
      /\ tr2[Len(jb) + 1] = runs /\ \A k \in DOMAIN jb : tr2[k] = tr[k]
  BY <1>1, <1>2, SeqAppend
<1> HIDE DEF jb2, tr2
<1>5. Begun(jb, tr, new, runs, jb2, tr2)
  BY <1>1, <1>3, <1>4 DEF Shaped, Begun
<1> QED
  BY <1>5 DEF jb2, tr2

\* What a report carries.
LEMMA CarriedIs == \A items, carried : Report(items, carried).carried = carried
BY DEF Report

-----------------------------------------------------------------------------
(***************************************************************************)
(* Reports, journals and traces                                            *)
(***************************************************************************)
\* A change of reports, journals and traces: commands that are done asking stay
\* done and their traces stay, and what is new is consistent with the rest.
Fits(jb, ds, tr, jb2, ds2, tr2, X, Y) ==
  /\ \A k \in DOMAIN jb : DoneAsking(jb, k) => DoneAsking(jb2, k) /\ tr2[k] = tr[k]
  /\ \A d \in DOMAIN ds2 : DOMAIN ds2[d] = {"report", "journal"}
  /\ Reports(jb2, ds2) \subseteq Reports(jb, ds) \cup X
  /\ Journals(jb2, ds2) \subseteq Journals(jb, ds) \cup Y
  /\ \A x \in X : DoneAsking(jb2, x.by)
  /\ \A y \in Y : Settled(jb2, y)
  /\ \A y \in Y, z \in Journals(jb, ds) \cup Y : y.by = z.by => y = z
  /\ \A x \in X \cup Reports(jb, ds), y \in Y : x.by = y.by => Rebuilds(tr2, x, y)
  /\ \A x \in X, y \in Journals(jb, ds) : x.by = y.by => Rebuilds(tr2, x, y)
  /\ \A j \in DOMAIN jb2 : jb2[j].stage = "judging" /\ jb2[j].recorded # None =>
       Settled(jb, jb2[j].recorded)

\* What a settled journal says was measured stays.
LEMMA AgainStays ==
  ASSUME NEW jb, NEW tr, NEW tr2, NEW y, Settled(jb, y),
         \A k : DoneAsking(jb, k) => tr2[k] = tr[k]
  PROVE  Again(tr2, y) = Again(tr, y)
<1>1. tr2[y.by] = tr[y.by]
  BY DEF Settled
<1>2. \A i \in Items : \A s \in DOMAIN y.entries[i].runs : y.entries[i].runs[s].at.job = y.by
  BY DEF Settled
<1> DEFINE Read(t, i) == [s \in DOMAIN y.entries[i].runs |->
             t[y.entries[i].runs[s].at.job][y.entries[i].runs[s].at.item][y.entries[i].runs[s].at.seed]]
<1>3. \A i \in Items : Read(tr2, i) = Read(tr, i)
  BY <1>1, <1>2
<1>4. \A t : Again(t, y) = [i \in Items |->
        [gold |-> y.entries[i].gold, label |-> y.entries[i].label,
         human |-> y.entries[i].human, runs |-> Read(t, i)]]
  BY DEF Again
<1> HIDE DEF Read
<1> QED
  BY <1>3, <1>4

\* What is consistent stays so.
LEMMA StillConsistent ==
  ASSUME NEW jb, NEW ds, NEW tr, Consistent(jb, ds, tr), NEW jb2, NEW ds2, NEW tr2,
         NEW X, NEW Y, Fits(jb, ds, tr, jb2, ds2, tr2, X, Y)
  PROVE  Consistent(jb2, ds2, tr2)
<1>1. \A k : DoneAsking(jb, k) => DoneAsking(jb2, k) /\ tr2[k] = tr[k]
  BY DEF Fits, DoneAsking
<1>2. \A y : Settled(jb, y) => Settled(jb2, y)
  BY <1>1 DEF Settled
<1>3. ASSUME NEW y, Settled(jb, y) PROVE Again(tr2, y) = Again(tr, y)
  BY <1>1, <1>3, AgainStays
<1>4. \A y \in Journals(jb2, ds2) : Settled(jb2, y)
  BY <1>2 DEF Consistent, Fits
<1>5. \A y \in Journals(jb2, ds2), z \in Journals(jb2, ds2) : y.by = z.by => y = z
  BY DEF Consistent, Fits
<1>6. \A x \in Reports(jb2, ds2) : DoneAsking(jb2, x.by)
  BY <1>1 DEF Consistent, Fits
<1>7. \A x \in Reports(jb2, ds2), y \in Journals(jb2, ds2) : x.by = y.by => Rebuilds(tr2, x, y)
  <2> SUFFICES ASSUME NEW x \in Reports(jb, ds), NEW y \in Journals(jb, ds), x.by = y.by
               PROVE  Rebuilds(tr2, x, y)
    BY DEF Fits
  <2>1. Rebuilds(tr, x, y) /\ Settled(jb, y)
    BY DEF Consistent
  <2> QED
    BY <1>3, <2>1 DEF Rebuilds
<1>8. \A j \in DOMAIN jb2 : jb2[j].stage = "judging" /\ jb2[j].recorded # None =>
        Settled(jb2, jb2[j].recorded)
  BY <1>2 DEF Fits
<1> QED
  BY <1>4, <1>5, <1>6, <1>7, <1>8 DEF Consistent, Fits

-----------------------------------------------------------------------------
(***************************************************************************)
(* The steps                                                               *)
(***************************************************************************)
MInv == Shaped(jobs, traces) /\ Consistent(jobs, dirs, traces)

\* A command that asks, while it asks.
LEMMA AskingKeeps ==
  ASSUME Consistent(jobs, dirs, traces), NEW j \in DOMAIN jobs, jobs[j].stage = "judging",
         NEW new, new.stage = "judging", new.recorded = jobs[j].recorded,
         Moved(jobs, jobs', j, new), DOMAIN traces = DOMAIN jobs,
         \A k \in DOMAIN traces : k # j => traces'[k] = traces[k], dirs' = dirs
  PROVE  Consistent(jobs', dirs', traces')
<1> DEFINE none == {}
<1>1. {k \in DOMAIN jobs' : jobs'[k].stage \in Writing} = {k \in DOMAIN jobs : jobs[k].stage \in Writing}
  BY DEF Moved, Writing
<1>2. \A k \in {n \in DOMAIN jobs : jobs[n].stage \in Writing} : jobs'[k] = jobs[k]
  BY DEF Moved, Writing
<1>3. Reports(jobs', dirs') \subseteq Reports(jobs, dirs) \cup none
  BY <1>1, <1>2 DEF Reports
<1>4. Journals(jobs', dirs') \subseteq Journals(jobs, dirs) \cup none
  BY <1>1, <1>2 DEF Journals
<1>5. \A k \in DOMAIN jobs : DoneAsking(jobs, k) => DoneAsking(jobs', k) /\ traces'[k] = traces[k]
  BY DEF DoneAsking, Moved
<1>6. \A k \in DOMAIN jobs' : jobs'[k].stage = "judging" /\ jobs'[k].recorded # None =>
        Settled(jobs, jobs'[k].recorded)
  BY DEF Moved, Consistent
<1>7. \A d \in DOMAIN dirs' : DOMAIN dirs'[d] = {"report", "journal"}
  BY DEF Consistent
<1>8. \A x \in none : FALSE
  OBVIOUS
<1> HIDE DEF none
<1>9. Fits(jobs, dirs, traces, jobs', dirs', traces', none, none)
  BY <1>3, <1>4, <1>5, <1>6, <1>7, <1>8 DEF Fits
<1> QED
  BY <1>9, StillConsistent

\* An item takes its place, or leaves it without an answer.
LEMMA PutKeeps ==
  ASSUME MInv, NEW j \in DOMAIN jobs, jobs[j].stage = "judging", NEW i \in Items,
         NEW state \in {"judging", "failed"}, jobs[j].items[i] \in {"waiting", "judging"},
         Put(j, i, state), UNCHANGED <<traces, dirs>>
  PROVE  MInv'
<1> DEFINE new == [jobs[j] EXCEPT !.items[i] = state]
<1>1. JobOK(jobs[j]) /\ ItemsOK(jobs[j], traces[j]) /\ RunsOK(traces[j])
  BY DEF MInv, Shaped
<1>2. {"stage", "id", "target", "result", "items", "recorded", "seeds"} \subseteq DOMAIN jobs[j]
  BY <1>1 DEF JobOK
<1>3. /\ new.stage = "judging" /\ new.recorded = jobs[j].recorded /\ new.seeds = jobs[j].seeds
      /\ DOMAIN new = DOMAIN jobs[j] /\ DOMAIN new.items = DOMAIN jobs[j].items
      /\ new.items[i] \in {"judging", "failed"}
      /\ \A k \in Items : k # i => new.items[k] = jobs[j].items[k]
  BY <1>1, <1>2 DEF JobOK
<1>4. jobs' = [jobs EXCEPT ![j] = new]
  BY DEF Put
<1> HIDE DEF new
<1>5. JobOK(new)
  BY <1>1, <1>2, <1>3 DEF JobOK
<1>6. ItemsOK(new, traces[j])
  BY <1>1, <1>3 DEF ItemsOK
<1>7. Shaped(jobs', traces') /\ Moved(jobs, jobs', j, new)
  <2>1. MovesOn(jobs, traces, j, new, jobs', traces')
    BY <1>1, <1>4, <1>5, <1>6 DEF MInv, Shaped, MovesOn
  <2> QED
    BY <2>1, JobMoves
<1>8. Consistent(jobs', dirs', traces')
  BY <1>3, <1>7, AskingKeeps DEF MInv, Shaped
<1> QED
  BY <1>7, <1>8 DEF MInv

\* A run is answered.
LEMMA AnswerKeeps ==
  ASSUME MInv, NEW j \in DOMAIN jobs, NEW i \in Items, Answer(j, i)
  PROVE  MInv'
<1> DEFINE last == Len(traces[j][i]) + 1 = jobs[j].seeds
           new == IF last THEN [jobs[j] EXCEPT !.items[i] = "judged"] ELSE jobs[j]
<1>1. /\ IsSeq(jobs) /\ IsSeq(traces) /\ DOMAIN traces = DOMAIN jobs
      /\ JobOK(jobs[j]) /\ ItemsOK(jobs[j], traces[j]) /\ RunsOK(traces[j])
  BY DEF MInv, Shaped
<1>2. /\ jobs[j].stage = "judging" /\ jobs[j].items[i] = "judging" /\ dirs' = dirs
      /\ IF last THEN Put(j, i, "judged") ELSE UNCHANGED jobs
  BY DEF Answer, Stage
<1>3. {"stage", "id", "target", "result", "items", "recorded", "seeds"} \subseteq DOMAIN jobs[j]
  BY <1>1, <1>2 DEF JobOK
<1>4. /\ new.stage = "judging" /\ new.recorded = jobs[j].recorded /\ new.seeds = jobs[j].seeds
      /\ DOMAIN new = DOMAIN jobs[j] /\ DOMAIN new.items = DOMAIN jobs[j].items
      /\ last => new.items[i] = "judged"
      /\ ~last => new.items[i] = "judging"
      /\ \A k \in Items : k # i => new.items[k] = jobs[j].items[k]
  BY <1>1, <1>2, <1>3 DEF JobOK
<1>5. jobs' = [jobs EXCEPT ![j] = new]
  <2>1. CASE last
    BY <1>2, <2>1 DEF Put
  <2>2. CASE ~last
    BY <1>1, <1>2, <2>2, SeqIs
  <2> QED
    BY <2>1, <2>2
<1>6. PICK run : traces' = [traces EXCEPT ![j][i] = Append(@, run)]
  BY DEF Answer
<1>7. /\ IsSeq(traces') /\ DOMAIN traces' = DOMAIN traces /\ RunsOK(traces'[j])
      /\ traces'[j][i] = Append(traces[j][i], run)
      /\ \A k \in Items : k # i => traces'[j][k] = traces[j][k]
      /\ \A k \in DOMAIN traces : k # j => traces'[k] = traces[k]
  <2> DEFINE runs == [traces[j] EXCEPT ![i] = Append(traces[j][i], run)]
  <2>1. /\ DOMAIN runs = Items /\ runs[i] = Append(traces[j][i], run)
        /\ \A k \in Items : k # i => runs[k] = traces[j][k]
    BY <1>1 DEF RunsOK
  <2>2. traces' = [traces EXCEPT ![j] = runs]
    BY <1>6
  <2> HIDE DEF runs
  <2>3. /\ IsSeq(traces') /\ DOMAIN traces' = DOMAIN traces /\ traces'[j] = runs /\ RunsOK(runs)
        /\ \A k \in DOMAIN traces : k # j => traces'[k] = traces[k]
    <3>1. IsSeq(Append(traces[j][i], run))
      BY <1>1, SeqAppend DEF RunsOK
    <3>2. RunsOK(runs)
      BY <1>1, <2>1, <3>1 DEF RunsOK
    <3>3. /\ IsSeq([traces EXCEPT ![j] = runs]) /\ DOMAIN [traces EXCEPT ![j] = runs] = DOMAIN traces
          /\ [traces EXCEPT ![j] = runs][j] = runs
          /\ \A k \in DOMAIN traces : k # j => [traces EXCEPT ![j] = runs][k] = traces[k]
      BY <1>1, SeqExcept
    <3> QED
      BY <2>2, <3>2, <3>3
  <2> QED
    BY <2>1, <2>3
<1> HIDE DEF new
<1>8. JobOK(new)
  BY <1>1, <1>2, <1>3, <1>4 DEF JobOK
<1>9. Len(traces'[j][i]) = Len(traces[j][i]) + 1 /\ Len(traces[j][i]) \in Nat
  BY <1>1, <1>7, SeqAppend, SeqIs DEF RunsOK
<1>10. ItemsOK(new, traces'[j])
  <2>1. Len(traces[j][i]) < jobs[j].seeds /\ jobs[j].seeds \in Nat
    BY <1>1, <1>2 DEF ItemsOK, JobOK
  <2>2. Len(traces'[j][i]) <= new.seeds
    BY <1>4, <1>9, <2>1
  <2>3. new.items[i] \in {"waiting", "judging"} => Len(traces'[j][i]) < new.seeds
    BY <1>4, <1>9, <2>1
  <2> QED
    BY <1>1, <1>2, <1>4, <1>7, <2>2, <2>3 DEF ItemsOK
<1>11. Shaped(jobs', traces') /\ Moved(jobs, jobs', j, new)
  <2>1. MovesOn(jobs, traces, j, new, jobs', traces')
    BY <1>5, <1>7, <1>8, <1>10 DEF MInv, MovesOn
  <2> QED
    BY <2>1, JobMoves
<1>12. Consistent(jobs', dirs', traces')
  BY <1>1, <1>2, <1>4, <1>7, <1>11, AskingKeeps DEF MInv
<1> QED
  BY <1>11, <1>12 DEF MInv

\* The report and the journal of a command that is done asking.
LEMMA AssembleKeeps ==
  ASSUME MInv, NEW j \in DOMAIN jobs, Assemble(j)
  PROVE  MInv'
<1> DEFINE items == [i \in Items |-> Measurement(jobs[j].labels, i, traces[j][i])]
           carried == [allBad |-> AllBad(jobs[j].labels), ceiling |-> Ceiling(jobs[j].labels),
                       swept |-> Swept(j), seeds |-> jobs[j].seeds, from |-> jobs[j].from]
           report == [by |-> j, numbers |-> Report(items, carried)]
           journal == [by |-> j, entries |-> [i \in Items |-> Entry(j, i, items[i])]]
           new == [jobs[j] EXCEPT !.stage = "report",
                                  !.result = [report |-> report, journal |-> journal]]
           X == {report}
           Y == {journal}
<1>1. /\ jobs[j].stage = "judging" /\ jobs' = [jobs EXCEPT ![j] = new]
      /\ UNCHANGED <<traces, dirs>>
  BY DEF Assemble, Stage
<1>2. /\ IsSeq(traces) /\ DOMAIN traces = DOMAIN jobs
      /\ JobOK(jobs[j]) /\ RunsOK(traces[j])
  BY DEF MInv, Shaped
<1>3. {"stage", "id", "target", "result"} \subseteq DOMAIN jobs[j]
  BY <1>1, <1>2 DEF JobOK
<1>4. /\ \A i \in Items :
           /\ IsSeq(journal.entries[i].runs)
           /\ \A s \in DOMAIN journal.entries[i].runs : journal.entries[i].runs[s].at.job = j
      /\ Again(traces, journal) = items
  <2>1. \A i \in Items : IsSeq(traces[j][i]) /\ DOMAIN traces[j] = Items
    BY <1>2 DEF RunsOK
  <2>2. \A i \in Items :
          /\ items[i].runs = traces[j][i]
          /\ items[i] = [gold |-> items[i].gold, label |-> items[i].label,
                         human |-> items[i].human, runs |-> traces[j][i]]
    BY DEF Measurement
  <2> HIDE DEF items
  <2>3. \A i \in Items :
          /\ journal.entries[i].gold = items[i].gold /\ journal.entries[i].label = items[i].label
          /\ journal.entries[i].human = items[i].human
          /\ DOMAIN journal.entries[i].runs = DOMAIN traces[j][i]
          /\ journal.entries[i].runs = [s \in DOMAIN traces[j][i] |-> journal.entries[i].runs[s]]
    BY <2>2 DEF Entry
  <2>5. \A i \in Items : \A s \in DOMAIN traces[j][i] :
          journal.entries[i].runs[s].at = [job |-> j, item |-> i, seed |-> s]
    BY <2>2 DEF Entry
  <2> HIDE DEF journal
  <2>4. \A i \in Items : IsSeq(journal.entries[i].runs)
    BY <2>1, <2>3, SeqLike
  <2>6. \A i \in Items : \A s \in DOMAIN journal.entries[i].runs :
          journal.entries[i].runs[s].at.job = j
    <3> SUFFICES ASSUME NEW i \in Items, NEW s \in DOMAIN journal.entries[i].runs
                 PROVE  journal.entries[i].runs[s].at.job = j
      OBVIOUS
    <3>1. DOMAIN journal.entries[i].runs = DOMAIN traces[j][i]
      BY <2>3
    <3>2. journal.entries[i].runs[s].at = [job |-> j, item |-> i, seed |-> s]
      BY <2>5, <3>1
    <3> QED
      BY <3>2
  <2>7. ASSUME NEW i \in Items
        PROVE  [s \in DOMAIN journal.entries[i].runs |->
                  traces[journal.entries[i].runs[s].at.job][journal.entries[i].runs[s].at.item]
                        [journal.entries[i].runs[s].at.seed]] = traces[j][i]
    <3>1. traces[j][i] = [s \in DOMAIN traces[j][i] |-> traces[j][i][s]]
      BY <2>1, SeqIs
    <3>2. \A s \in DOMAIN traces[j][i] :
            traces[journal.entries[i].runs[s].at.job][journal.entries[i].runs[s].at.item]
                  [journal.entries[i].runs[s].at.seed] = traces[j][i][s]
      <4> SUFFICES ASSUME NEW s \in DOMAIN traces[j][i]
                   PROVE  traces[journal.entries[i].runs[s].at.job][journal.entries[i].runs[s].at.item]
                            [journal.entries[i].runs[s].at.seed] = traces[j][i][s]
        OBVIOUS
      <4>1. journal.entries[i].runs[s].at = [job |-> j, item |-> i, seed |-> s]
        BY <2>5
      <4> QED
        BY <4>1
    <3>3. DOMAIN journal.entries[i].runs = DOMAIN traces[j][i]
      BY <2>3
    <3> QED
      BY <3>1, <3>2, <3>3
  <2>8. Again(traces, journal) = [i \in Items |->
          [gold |-> items[i].gold, label |-> items[i].label, human |-> items[i].human,
           runs |-> traces[j][i]]]
    BY <2>3, <2>7 DEF Again
  <2>9. items = [i \in Items |-> items[i]]
    BY DEF items
  <2> QED
    BY <2>2, <2>4, <2>6, <2>8, <2>9
<1>5. report.by = j /\ report.numbers.carried = carried /\ report.numbers = Report(items, carried)
  BY CarriedIs
<1>6. journal.by = j
  OBVIOUS
<1>7. /\ new.stage = "report" /\ new.result.report = report /\ new.result.journal = journal
      /\ DOMAIN new = DOMAIN jobs[j]
  BY <1>3
<1> HIDE DEF items, carried, report, journal, new
<1>8. JobOK(new) /\ ItemsOK(new, traces'[j])
  BY <1>3, <1>7 DEF JobOK, ItemsOK, Writing
<1>9. Shaped(jobs', traces') /\ Moved(jobs, jobs', j, new)
  <2>1. MovesOn(jobs, traces, j, new, jobs', traces')
    BY <1>1, <1>2, <1>8 DEF MInv, MovesOn
  <2> QED
    BY <2>1, JobMoves
<1>10. Consistent(jobs, dirs, traces)
  BY DEF MInv
<1>11. DoneAsking(jobs', j) /\ ~DoneAsking(jobs, j)
  BY <1>1, <1>7, <1>9 DEF DoneAsking, Moved
<1>12. \A k \in DOMAIN jobs : DoneAsking(jobs, k) => DoneAsking(jobs', k) /\ traces'[k] = traces[k]
  BY <1>1, <1>9, <1>11 DEF DoneAsking, Moved
<1>13. Reports(jobs', dirs') \subseteq Reports(jobs, dirs) \cup X
  BY <1>1, <1>7, <1>9 DEF Reports, Moved
<1>14. Journals(jobs', dirs') \subseteq Journals(jobs, dirs) \cup Y
  BY <1>1, <1>7, <1>9 DEF Journals, Moved
<1>15. \A x \in X : DoneAsking(jobs', x.by)
  BY <1>5, <1>11
<1>16. \A y \in Y : Settled(jobs', y)
  BY <1>4, <1>6, <1>11 DEF Settled
<1>17. \A y \in Journals(jobs, dirs) : y.by # j
  BY <1>10, <1>11 DEF Consistent, Settled
<1>18. \A x \in Reports(jobs, dirs) : x.by # j
  BY <1>10, <1>11 DEF Consistent
<1>19. \A y \in Y, z \in Journals(jobs, dirs) \cup Y : y.by = z.by => y = z
  BY <1>6, <1>17
<1>20. Rebuilds(traces', report, journal)
  BY <1>1, <1>4, <1>5 DEF Rebuilds
<1>21. \A x \in X \cup Reports(jobs, dirs), y \in Y : x.by = y.by => Rebuilds(traces', x, y)
  BY <1>6, <1>18, <1>20
<1>22. \A x \in X, y \in Journals(jobs, dirs) : x.by = y.by => Rebuilds(traces', x, y)
  BY <1>5, <1>17
<1>23. \A k \in DOMAIN jobs' : jobs'[k].stage = "judging" /\ jobs'[k].recorded # None =>
         Settled(jobs, jobs'[k].recorded)
  BY <1>7, <1>9, <1>10 DEF Moved, Consistent
<1>24. \A d \in DOMAIN dirs' : DOMAIN dirs'[d] = {"report", "journal"}
  BY <1>1, <1>10 DEF Consistent
<1> HIDE DEF X, Y
<1>25. Fits(jobs, dirs, traces, jobs', dirs', traces', X, Y)
  BY <1>12, <1>13, <1>14, <1>15, <1>16, <1>19, <1>21, <1>22, <1>23, <1>24 DEF Fits
<1>26. Consistent(jobs', dirs', traces')
  BY <1>10, <1>25, StillConsistent
<1> QED
  BY <1>9, <1>26 DEF MInv

\* A command that is done asking goes on, or any command ends.
LEMMA GoingOnKeeps ==
  ASSUME MInv, NEW j \in DOMAIN jobs, NEW new, JobOK(new), new.stage # "judging",
         new.stage \in Writing => jobs[j].stage \in Writing /\ new.result = jobs[j].result,
         jobs' = [jobs EXCEPT ![j] = new], UNCHANGED traces,
         \A d \in DOMAIN dirs' :
           /\ DOMAIN dirs'[d] = {"report", "journal"}
           /\ dirs'[d].report \in Reports(jobs, dirs) \cup {None}
           /\ dirs'[d].journal \in Journals(jobs, dirs) \cup {None}
  PROVE  MInv'
<1> DEFINE none == {}
<1>1. Shaped(jobs, traces) /\ Consistent(jobs, dirs, traces)
  BY DEF MInv
<1>2. IsSeq(traces) /\ DOMAIN traces = DOMAIN jobs /\ RunsOK(traces[j]) /\ ItemsOK(new, traces'[j])
  BY <1>1 DEF Shaped, ItemsOK
<1>3. Shaped(jobs', traces') /\ Moved(jobs, jobs', j, new)
  <2>1. MovesOn(jobs, traces, j, new, jobs', traces')
    BY <1>1, <1>2 DEF MovesOn
  <2> QED
    BY <2>1, JobMoves
<1>4. \A k \in DOMAIN jobs : DoneAsking(jobs, k) => DoneAsking(jobs', k) /\ traces'[k] = traces[k]
  BY <1>3 DEF DoneAsking, Moved
<1>5. \A k \in DOMAIN jobs' : jobs'[k].stage \in Writing =>
        jobs[k].stage \in Writing /\ jobs'[k].result = jobs[k].result
  BY <1>3 DEF Moved
<1>6. Reports(jobs', dirs') \subseteq Reports(jobs, dirs) \cup none
  BY <1>3, <1>5 DEF Reports, Moved
<1>7. Journals(jobs', dirs') \subseteq Journals(jobs, dirs) \cup none
  BY <1>3, <1>5 DEF Journals, Moved
<1>8. \A k \in DOMAIN jobs' : jobs'[k].stage = "judging" /\ jobs'[k].recorded # None =>
        Settled(jobs, jobs'[k].recorded)
  BY <1>1, <1>3 DEF Moved, Consistent
<1>9. \A x \in none : FALSE
  OBVIOUS
<1> HIDE DEF none
<1>10. Fits(jobs, dirs, traces, jobs', dirs', traces', none, none)
  BY <1>4, <1>6, <1>7, <1>8, <1>9 DEF Fits
<1>11. Consistent(jobs', dirs', traces')
  BY <1>1, <1>10, StillConsistent
<1> QED
  BY <1>3, <1>11 DEF MInv

\* A command of the last stages goes on to another of them.
Proceeds(old, new) ==
  /\ old.stage \in Writing /\ new.stage \in Writing
  /\ new.id = old.id /\ new.target = old.target /\ new.result = old.result
  /\ DOMAIN new = DOMAIN old
  /\ "labels" \in DOMAIN old => new.labels = old.labels

\* The stage is all that changes.
LEMMA ToProceeds ==
  ASSUME MInv, NEW j \in DOMAIN jobs, jobs[j].stage \in Writing, NEW stage \in Writing
  PROVE  LET new == [jobs[j] EXCEPT !.stage = stage]
         IN  Proceeds(jobs[j], new) /\ JobOK(new) /\ new.stage = stage
<1> DEFINE new == [jobs[j] EXCEPT !.stage = stage]
<1>1. JobOK(jobs[j])
  BY DEF MInv, Shaped
<1>2. {"stage", "id", "target", "result"} \subseteq DOMAIN jobs[j]
  BY <1>1 DEF JobOK, Writing
<1>3. DOMAIN new = DOMAIN jobs[j] /\ new.stage = stage /\ \A f \in DOMAIN jobs[j] : f # "stage" => new[f] = jobs[j][f]
  BY <1>2
<1>4. /\ new.id = jobs[j].id /\ new.target = jobs[j].target /\ new.result = jobs[j].result
      /\ "labels" \in DOMAIN jobs[j] => new.labels = jobs[j].labels
  BY <1>2, <1>3
<1> HIDE DEF new
<1>5. JobOK(new)
  BY <1>2, <1>3 DEF JobOK, Writing
<1>6. Proceeds(jobs[j], new)
  BY <1>3, <1>4 DEF Proceeds
<1> QED
  BY <1>3, <1>5, <1>6 DEF new

\* An ended command has nothing to read.
LEMMA EndedOK == JobOK([stage |-> "ended"])
BY DEF JobOK, Writing

\* A file of a directory.
LEMMA ContentIs ==
  ASSUME Consistent(jobs, dirs, traces), NEW target, NEW file \in {"report", "journal"}, NEW value
  PROVE  LET content == [Content(target) EXCEPT ![file] = value]
         IN  /\ DOMAIN content = {"report", "journal"} /\ content[file] = value
             /\ \A other \in {"report", "journal"} : other # file => content[other] = Content(target)[other]
<1>1. DOMAIN Content(target) = {"report", "journal"}
  BY DEF Consistent, Content
<1> QED
  BY <1>1

\* A report or a journal is opened or written.
LEMMA FileKeeps ==
  ASSUME MInv, NEW j \in DOMAIN jobs, jobs[j].stage \in Writing,
         NEW new, JobOK(new), Proceeds(jobs[j], new) \/ new = [stage |-> "ended"],
         jobs' = [jobs EXCEPT ![j] = new], UNCHANGED traces,
         NEW file \in {"report", "journal"}, NEW value \in {None, jobs[j].result[file]},
         dirs' = Bind(dirs, jobs[j].target, [Content(jobs[j].target) EXCEPT ![file] = value])
  PROVE  MInv'
<1> DEFINE target == jobs[j].target
           content == [Content(target) EXCEPT ![file] = value]
<1>1. Consistent(jobs, dirs, traces)
  BY DEF MInv
<1>2. /\ DOMAIN content = {"report", "journal"} /\ content[file] = value
      /\ \A other \in {"report", "journal"} : other # file => content[other] = Content(target)[other]
  BY <1>1, ContentIs
<1>3. /\ jobs[j].result.report \in Reports(jobs, dirs)
      /\ jobs[j].result.journal \in Journals(jobs, dirs)
  BY DEF Reports, Journals
<1>4. ASSUME NEW d \in DOMAIN dirs
      PROVE  /\ DOMAIN dirs[d] = {"report", "journal"}
             /\ dirs[d].report \in Reports(jobs, dirs) \cup {None}
             /\ dirs[d].journal \in Journals(jobs, dirs) \cup {None}
  BY <1>1 DEF Consistent, Reports, Journals
<1>5. /\ Content(target).report \in Reports(jobs, dirs) \cup {None}
      /\ Content(target).journal \in Journals(jobs, dirs) \cup {None}
  BY <1>4 DEF Content
<1> HIDE DEF content, target
<1>6. /\ content.report \in Reports(jobs, dirs) \cup {None}
      /\ content.journal \in Journals(jobs, dirs) \cup {None}
  <2>1. CASE file = "report"
    BY <1>2, <1>3, <1>5, <2>1
  <2>2. CASE file = "journal"
    BY <1>2, <1>3, <1>5, <2>2
  <2> QED
    BY <2>1, <2>2
<1>7. dirs' = Bind(dirs, target, content)
  BY DEF content, target
<1>8. /\ DOMAIN dirs' = DOMAIN dirs \cup {target} /\ dirs'[target] = content
      /\ \A d \in DOMAIN dirs : d # target => dirs'[d] = dirs[d]
  BY <1>7 DEF Bind
<1>9. \A d \in DOMAIN dirs' :
        /\ DOMAIN dirs'[d] = {"report", "journal"}
        /\ dirs'[d].report \in Reports(jobs, dirs) \cup {None}
        /\ dirs'[d].journal \in Journals(jobs, dirs) \cup {None}
  BY <1>2, <1>4, <1>6, <1>8
<1>10. /\ new.stage # "judging"
       /\ new.stage \in Writing => jobs[j].stage \in Writing /\ new.result = jobs[j].result
  BY DEF Proceeds, Writing
<1> QED
  BY <1>9, <1>10, GoingOnKeeps

\* The report is opened, or written.
LEMMA ReportKeeps ==
  ASSUME MInv, NEW j \in DOMAIN jobs, OpenReport(j) \/ WriteReport(j)
  PROVE  MInv'
<1>1. CASE OpenReport(j)
  BY <1>1, ToProceeds, FileKeeps DEF OpenReport, Stage, To, Writing
<1>2. CASE WriteReport(j)
  BY <1>2, ToProceeds, FileKeeps DEF WriteReport, Stage, To, Writing
<1> QED
  BY <1>1, <1>2

\* The journal is opened, or written, and a replay ends.
LEMMA JournalKeeps ==
  ASSUME MInv, NEW j \in DOMAIN jobs, OpenJournal(j) \/ WriteJournal(j)
  PROVE  MInv'
<1>1. CASE OpenJournal(j)
  BY <1>1, ToProceeds, FileKeeps DEF OpenJournal, Stage, To, Writing
<1>2. CASE WriteJournal(j) /\ jobs[j].id = None
  BY <1>2, EndedOK, FileKeeps DEF WriteJournal, Stage, End, Writing
<1>3. CASE WriteJournal(j) /\ jobs[j].id # None
  BY <1>3, ToProceeds, FileKeeps DEF WriteJournal, Stage, To, Writing
<1> QED
  BY <1>1, <1>2, <1>3

\* The document is opened.
LEMMA OpenDocumentKeeps ==
  ASSUME MInv, NEW j \in DOMAIN jobs, OpenDocument(j)
  PROVE  MInv'
<1> DEFINE new == [jobs[j] EXCEPT !.stage = "document_open"]
<1>1. /\ jobs[j].stage \in Writing /\ jobs' = [jobs EXCEPT ![j] = new] /\ UNCHANGED <<traces, dirs>>
  BY DEF OpenDocument, Stage, To, Writing
<1>2. Proceeds(jobs[j], new) /\ JobOK(new) /\ new.stage = "document_open"
  BY <1>1, ToProceeds DEF Writing
<1> HIDE DEF new
<1>3. \A d \in DOMAIN dirs' :
        /\ DOMAIN dirs'[d] = {"report", "journal"}
        /\ dirs'[d].report \in Reports(jobs, dirs) \cup {None}
        /\ dirs'[d].journal \in Journals(jobs, dirs) \cup {None}
  BY <1>1 DEF MInv, Consistent, Reports, Journals
<1> QED
  BY <1>1, <1>2, <1>3, GoingOnKeeps DEF Proceeds, Writing

\* A command ends: its document is written, or it dies.
LEMMA EndKeeps ==
  ASSUME MInv, NEW j \in DOMAIN jobs, End(j), UNCHANGED <<traces, dirs>>
  PROVE  MInv'
<1> DEFINE new == [stage |-> "ended"]
<1>1. JobOK(new) /\ jobs' = [jobs EXCEPT ![j] = new] /\ new.stage = "ended"
  BY EndedOK DEF End
<1> HIDE DEF new
<1>2. Consistent(jobs, dirs, traces) /\ new.stage # "judging" /\ new.stage \notin Writing
  BY <1>1 DEF MInv, Writing
<1>3. \A d \in DOMAIN dirs' :
        /\ DOMAIN dirs'[d] = {"report", "journal"}
        /\ dirs'[d].report \in Reports(jobs, dirs) \cup {None}
        /\ dirs'[d].journal \in Journals(jobs, dirs) \cup {None}
  BY <1>2 DEF Consistent, Reports, Journals
<1> QED
  BY <1>1, <1>2, <1>3, GoingOnKeeps

\* A calibration begins: a rescoring reads a settled journal.
LEMMA CalibrateKeeps ==
  ASSUME MInv, NEW r \in Requests, NEW source \in DOMAIN dirs \cup {None}, Calibrate(r, source)
  PROVE  MInv'
<1> DEFINE none == {}
           recorded == IF source = None THEN None ELSE dirs[source].journal
           new == [stage |-> "judging", id |-> <<today, FreeSeq>>, target |-> Target(r.out, FreeSeq),
                   replaces |-> SupersededBy, labels |-> r.labels, near |-> r.near,
                   from |-> source, recorded |-> recorded,
                   seeds |-> IF source = None THEN r.seeds ELSE Seeds(recorded),
                   items |-> [i \in Items |-> "waiting"], result |-> None]
           runs == [i \in Items |-> <<>>]
           fresh == Len(jobs) + 1
<1>1. /\ jobs' = Append(jobs, new) /\ traces' = Append(traces, runs) /\ UNCHANGED dirs
      /\ source # None => Rescorable(source)
  BY DEF Calibrate
<1>2. Shaped(jobs, traces) /\ Consistent(jobs, dirs, traces)
  BY DEF MInv
<1>3. new.recorded # None =>
        /\ source # None /\ new.recorded = dirs[source].journal
        /\ Settled(jobs, new.recorded)
  BY <1>2 DEF Consistent, Journals
<1>4. /\ new.seeds \in Nat /\ 0 < new.seeds
      /\ new.recorded # None => \A i \in Items : Len(new.recorded.entries[i].runs) = new.seeds
  <2>1. CASE source = None
    BY <2>1, PanelAssumption
  <2>2. CASE source # None
    <3>1. /\ new.seeds = Seeds(recorded) /\ recorded = dirs[source].journal /\ recorded # None
          /\ Seeds(recorded) > 0 /\ \A i \in Items : Len(recorded.entries[i].runs) = Seeds(recorded)
      BY <1>1, <2>2 DEF Rescorable
    <3>2. PICK i \in Items : TRUE
      BY ReportAssumption
    <3>3. Len(recorded.entries[i].runs) \in Nat
      <4>1. Settled(jobs, recorded)
        BY <1>3, <3>1
      <4> HIDE DEF recorded
      <4> QED
        BY <3>2, <4>1, SeqIs DEF Settled
    <3> HIDE DEF recorded
    <3> QED
      BY <3>1, <3>2, <3>3
  <2> QED
    BY <2>1, <2>2
<1>5. /\ new.stage = "judging" /\ new.items = [i \in Items |-> "waiting"]
      /\ DOMAIN new = {"stage", "id", "target", "replaces", "labels", "near", "from", "recorded",
                       "seeds", "items", "result"}
  OBVIOUS
<1>6. DOMAIN runs = Items /\ \A i \in Items : runs[i] = <<>>
  OBVIOUS
<1> HIDE DEF new, recorded, runs, fresh
<1>7. JobOK(new)
  BY <1>4, <1>5 DEF JobOK
<1>8. IsSeq(<<>>) /\ Len(<<>>) = 0
  BY DEF IsSeq
<1>9. RunsOK(runs)
  BY <1>6, <1>8 DEF RunsOK
<1>10. ItemsOK(new, runs)
  BY <1>4, <1>6, <1>8 DEF ItemsOK
<1>11. /\ Shaped(jobs', traces') /\ DOMAIN jobs' = DOMAIN jobs \cup {fresh} /\ fresh \notin DOMAIN jobs
       /\ jobs'[fresh] = new /\ traces'[fresh] = runs
       /\ \A k \in DOMAIN jobs : jobs'[k] = jobs[k] /\ traces'[k] = traces[k]
  <2>1. Begun(jobs, traces, new, runs, jobs', traces')
    BY <1>1, <1>2, <1>7, <1>9, <1>10, JobBegins
  <2> QED
    BY <2>1 DEF Begun, fresh
<1>12. \A k \in DOMAIN jobs' : jobs'[k].stage \in Writing => k \in DOMAIN jobs /\ jobs'[k] = jobs[k]
  BY <1>5, <1>11 DEF Writing
<1>13. Reports(jobs', dirs') \subseteq Reports(jobs, dirs) \cup none
  BY <1>1, <1>12 DEF Reports
<1>14. Journals(jobs', dirs') \subseteq Journals(jobs, dirs) \cup none
  BY <1>1, <1>12 DEF Journals
<1>15. \A k \in DOMAIN jobs : DoneAsking(jobs, k) => DoneAsking(jobs', k) /\ traces'[k] = traces[k]
  BY <1>11 DEF DoneAsking
<1>16. \A k \in DOMAIN jobs' : jobs'[k].stage = "judging" /\ jobs'[k].recorded # None =>
         Settled(jobs, jobs'[k].recorded)
  BY <1>2, <1>3, <1>11 DEF Consistent
<1>17. \A d \in DOMAIN dirs' : DOMAIN dirs'[d] = {"report", "journal"}
  BY <1>1, <1>2 DEF Consistent
<1>18. \A x \in none : FALSE
  OBVIOUS
<1> HIDE DEF none
<1>19. Fits(jobs, dirs, traces, jobs', dirs', traces', none, none)
  BY <1>13, <1>14, <1>15, <1>16, <1>17, <1>18 DEF Fits
<1>20. Consistent(jobs', dirs', traces')
  BY <1>2, <1>19, StillConsistent
<1> QED
  BY <1>11, <1>20 DEF MInv

\* A replay rebuilds the one journal there is of its command.
LEMMA ReplayKeeps ==
  ASSUME MInv, NEW d \in DOMAIN dirs, Replay(d)
  PROVE  MInv'
<1> DEFINE none == {}
           journal == dirs[d].journal
           report == [by |-> journal.by, numbers |-> Rebuilt(d)]
           new == [stage |-> "report", id |-> None, target |-> d,
                   result |-> [report |-> report, journal |-> journal]]
           runs == [i \in Items |-> <<>>]
           fresh == Len(jobs) + 1
           X == {report}
<1>1. /\ jobs' = Append(jobs, new) /\ traces' = Append(traces, runs) /\ UNCHANGED dirs
      /\ dirs[d].report # None /\ journal # None
  BY DEF Replay, Written
<1>2. Shaped(jobs, traces) /\ Consistent(jobs, dirs, traces)
  BY DEF MInv
<1>3. journal \in Journals(jobs, dirs)
  BY <1>1 DEF Journals
<1>4. /\ report.by = journal.by
      /\ report.numbers = Report(Again(traces, journal), report.numbers.carried)
  <2>1. Rebuilt(d) = Report(Again(traces, journal), dirs[d].report.numbers.carried)
    BY DEF Rebuilt, Reread, Again
  <2>2. Rebuilt(d).carried = dirs[d].report.numbers.carried
    BY <2>1, CarriedIs
  <2> QED
    BY <2>1, <2>2
<1>5. /\ new.stage = "report" /\ new.result.report = report /\ new.result.journal = journal
      /\ DOMAIN new = {"stage", "id", "target", "result"}
  OBVIOUS
<1>6. DOMAIN runs = Items /\ \A i \in Items : runs[i] = <<>>
  OBVIOUS
<1> HIDE DEF new, journal, report, runs, fresh
<1>7. JobOK(new) /\ ItemsOK(new, runs)
  BY <1>5 DEF JobOK, ItemsOK, Writing
<1>8. RunsOK(runs)
  <2>1. IsSeq(<<>>)
    BY DEF IsSeq
  <2> QED
    BY <1>6, <2>1 DEF RunsOK
<1>9. /\ Shaped(jobs', traces') /\ DOMAIN jobs' = DOMAIN jobs \cup {fresh} /\ fresh \notin DOMAIN jobs
      /\ jobs'[fresh] = new
      /\ \A k \in DOMAIN jobs : jobs'[k] = jobs[k] /\ traces'[k] = traces[k]
  <2>1. Begun(jobs, traces, new, runs, jobs', traces')
    BY <1>1, <1>2, <1>7, <1>8, JobBegins
  <2> QED
    BY <2>1 DEF Begun, fresh
<1>10. \A k \in DOMAIN jobs : DoneAsking(jobs, k) => DoneAsking(jobs', k) /\ traces'[k] = traces[k]
  BY <1>9 DEF DoneAsking
<1>11. Reports(jobs', dirs') \subseteq Reports(jobs, dirs) \cup X
  BY <1>1, <1>5, <1>9 DEF Reports
<1>12. Journals(jobs', dirs') \subseteq Journals(jobs, dirs) \cup none
  BY <1>1, <1>3, <1>5, <1>9 DEF Journals
<1>13. Settled(jobs, journal)
  BY <1>2, <1>3 DEF Consistent
<1>14. \A x \in X : DoneAsking(jobs', x.by)
  BY <1>4, <1>10, <1>13 DEF Settled, DoneAsking
<1>15. Again(traces', journal) = Again(traces, journal)
  BY <1>10, <1>13, AgainStays DEF DoneAsking
<1>16. \A y \in Journals(jobs, dirs) : report.by = y.by => y = journal
  BY <1>2, <1>3, <1>4 DEF Consistent
<1>17. \A x \in X, y \in Journals(jobs, dirs) : x.by = y.by => Rebuilds(traces', x, y)
  BY <1>4, <1>15, <1>16 DEF Rebuilds
<1>18. \A k \in DOMAIN jobs' : jobs'[k].stage = "judging" /\ jobs'[k].recorded # None =>
         Settled(jobs, jobs'[k].recorded)
  BY <1>2, <1>5, <1>9 DEF Consistent
<1>19. \A k \in DOMAIN dirs' : DOMAIN dirs'[k] = {"report", "journal"}
  BY <1>1, <1>2 DEF Consistent
<1>20. \A y \in none : FALSE
  OBVIOUS
<1> HIDE DEF none, X
<1>21. Fits(jobs, dirs, traces, jobs', dirs', traces', X, none)
  BY <1>10, <1>11, <1>12, <1>14, <1>17, <1>18, <1>19, <1>20 DEF Fits
<1>22. Consistent(jobs', dirs', traces')
  BY <1>2, <1>21, StillConsistent
<1> QED
  BY <1>9, <1>22 DEF MInv

-----------------------------------------------------------------------------
(***************************************************************************)
(* The theorems                                                            *)
(***************************************************************************)
\* At the start there is nothing.
LEMMA InitHolds == Init => MInv
<1> SUFFICES ASSUME Init PROVE MInv
  OBVIOUS
<1>1. jobs = <<>> /\ traces = <<>> /\ DOMAIN dirs = {}
  BY DEF Init
<1>2. IsSeq(<<>>) /\ DOMAIN <<>> = {}
  BY DEF IsSeq
<1>3. Shaped(jobs, traces)
  BY <1>1, <1>2 DEF Shaped
<1>4. Reports(jobs, dirs) = {} /\ Journals(jobs, dirs) = {}
  BY <1>1, <1>2 DEF Reports, Journals
<1>5. Consistent(jobs, dirs, traces)
  BY <1>1, <1>2, <1>4 DEF Consistent
<1> QED
  BY <1>3, <1>5 DEF MInv

\* Every step of a command keeps them.
LEMMA NextKeeps == MInv /\ [Next]_vars => MInv'
<1> SUFFICES ASSUME MInv, [Next]_vars PROVE MInv'
  OBVIOUS
<1>1. CASE Tomorrow \/ UNCHANGED vars
  BY <1>1 DEF Tomorrow, vars, MInv
<1>2. ASSUME NEW r \in Requests, NEW source \in DOMAIN dirs \cup {None}, Calibrate(r, source)
      PROVE  MInv'
  BY <1>2, CalibrateKeeps
<1>3. ASSUME NEW d \in DOMAIN dirs, Replay(d) PROVE MInv'
  BY <1>3, ReplayKeeps
<1>4. ASSUME NEW j \in DOMAIN jobs, Step(j) \/ Stop(j) PROVE MInv'
  <2>1. ASSUME NEW i \in Items, Take(j, i) \/ Fail(j, i) PROVE MInv'
    <3>1. CASE Take(j, i)
      BY <3>1, PutKeeps DEF Take, Stage
    <3>2. CASE Fail(j, i)
      BY <3>2, PutKeeps DEF Fail, Stage
    <3> QED
      BY <2>1, <3>1, <3>2
  <2>2. ASSUME NEW i \in Items, Answer(j, i) PROVE MInv'
    BY <2>2, AnswerKeeps
  <2>3. CASE Assemble(j)
    BY <2>3, AssembleKeeps
  <2>4. CASE OpenReport(j) \/ WriteReport(j)
    BY <2>4, ReportKeeps
  <2>5. CASE OpenJournal(j) \/ WriteJournal(j)
    BY <2>5, JournalKeeps
  <2>6. CASE OpenDocument(j)
    BY <2>6, OpenDocumentKeeps
  <2>7. CASE WriteDocument(j)
    BY <2>7, EndKeeps DEF WriteDocument
  <2>8. CASE Stop(j)
    BY <2>8, EndKeeps DEF Stop
  <2> QED
    BY <1>4, <2>1, <2>2, <2>3, <2>4, <2>5, <2>6, <2>7, <2>8 DEF Step
<1> QED
  BY <1>1, <1>2, <1>3, <1>4 DEF Next

\* The invariant of the commands, wherever they stop.
THEOREM Invariant == Spec => []MInv
<1> QED
  BY InitHolds, NextKeeps, PTL DEF Spec

\* A report and a journal of one calibration are rebuilt from the traces, in
\* every state, whatever else is running (replay.go, Replay).
THEOREM ReplaysReproduce == Spec => []ReplayReproduces
<1>1. MInv => ReplayReproduces
  <2> SUFFICES ASSUME MInv, NEW d \in DOMAIN dirs, Written(d),
                      dirs[d].report.by = dirs[d].journal.by
               PROVE  Rebuilt(d) = dirs[d].report.numbers
    BY DEF ReplayReproduces
  <2>1. dirs[d].report \in Reports(jobs, dirs) /\ dirs[d].journal \in Journals(jobs, dirs)
    BY DEF Written, Reports, Journals
  <2>2. Rebuilds(traces, dirs[d].report, dirs[d].journal)
    BY <2>1 DEF MInv, Consistent
  <2>3. Rebuilt(d) = Report(Again(traces, dirs[d].journal), dirs[d].report.numbers.carried)
    BY DEF Rebuilt, Reread, Again
  <2> QED
    BY <2>2, <2>3 DEF Rebuilds
<1> QED
  BY <1>1, Invariant, PTL

-----------------------------------------------------------------------------
(***************************************************************************)
(* Rescoring                                                               *)
(***************************************************************************)
\* The harness's rule reads the calls of a run and makes none.
ResettleKeepsCalls == \A run : Resettle(run).pairs = run.pairs

\* The run a journal names for an item at a seed.
Recalled(tr, y, i, s) ==
  tr[y.entries[i].runs[s].at.job][y.entries[i].runs[s].at.item][y.entries[i].runs[s].at.seed]

\* Every run a rescoring has left is over the calls its source recorded.
SameCalls(jb, tr) ==
  \A j \in DOMAIN jb : jb[j].stage = "judging" /\ jb[j].recorded # None =>
    \A i \in Items : \A s \in DOMAIN tr[j][i] :
      tr[j][i][s].pairs = Recalled(tr, jb[j].recorded, i, s).pairs

\* Where a run of a rescoring comes from, over a step: it was there before, or
\* it has the calls its source recorded.
Founded(jb, tr, jb2, tr2, j, i, s) ==
  \/ /\ j \in DOMAIN jb /\ jb[j].stage = "judging" /\ jb[j].recorded = jb2[j].recorded
     /\ s \in DOMAIN tr[j][i] /\ tr2[j][i][s] = tr[j][i][s]
  \/ /\ Settled(jb, jb2[j].recorded) /\ s \in DOMAIN jb2[j].recorded.entries[i].runs
     /\ tr2[j][i][s].pairs = Recalled(tr, jb2[j].recorded, i, s).pairs

\* What its source recorded stays what it is.
LEMMA CallsStay ==
  ASSUME NEW jb, NEW ds, NEW tr, Shaped(jb, tr), Consistent(jb, ds, tr), SameCalls(jb, tr),
         NEW jb2, NEW tr2, \A k : DoneAsking(jb, k) => tr2[k] = tr[k],
         \A j \in DOMAIN jb2 : jb2[j].stage = "judging" /\ jb2[j].recorded # None =>
           \A i \in Items : \A s \in DOMAIN tr2[j][i] : Founded(jb, tr, jb2, tr2, j, i, s)
  PROVE  SameCalls(jb2, tr2)
<1> SUFFICES ASSUME NEW j \in DOMAIN jb2, jb2[j].stage = "judging", jb2[j].recorded # None,
                    NEW i \in Items, NEW s \in DOMAIN tr2[j][i]
             PROVE  tr2[j][i][s].pairs = Recalled(tr2, jb2[j].recorded, i, s).pairs
  BY DEF SameCalls
<1> DEFINE y == jb2[j].recorded
<1>1. ASSUME Settled(jb, y), s \in DOMAIN y.entries[i].runs
      PROVE  Recalled(tr2, y, i, s) = Recalled(tr, y, i, s)
  <2> HIDE DEF y
  <2>1. DoneAsking(jb, y.by) /\ y.entries[i].runs[s].at.job = y.by
    BY <1>1 DEF Settled
  <2>2. tr2[y.entries[i].runs[s].at.job] = tr[y.entries[i].runs[s].at.job]
    BY <2>1
  <2> QED
    BY <2>2 DEF Recalled
<1>2. Founded(jb, tr, jb2, tr2, j, i, s)
  OBVIOUS
<1>3. CASE /\ j \in DOMAIN jb /\ jb[j].stage = "judging" /\ jb[j].recorded = y
           /\ s \in DOMAIN tr[j][i] /\ tr2[j][i][s] = tr[j][i][s]
  <2> HIDE DEF y
  <2>0. y # None
    BY DEF y
  <2>1. /\ ItemsOK(jb[j], tr[j]) /\ RunsOK(tr[j]) /\ Settled(jb, y)
    BY <1>3, <2>0 DEF Shaped, Consistent
  <2>2. Len(tr[j][i]) <= jb[j].seeds /\ Len(y.entries[i].runs) = jb[j].seeds
    BY <1>3, <2>0, <2>1 DEF ItemsOK
  <2>3. /\ DOMAIN tr[j][i] = 1..Len(tr[j][i])
        /\ DOMAIN y.entries[i].runs = 1..Len(y.entries[i].runs)
        /\ Len(tr[j][i]) \in Nat /\ Len(y.entries[i].runs) \in Nat
    BY <2>1, SeqIs DEF RunsOK, Settled
  <2>4. s \in DOMAIN y.entries[i].runs
    BY <1>3, <2>2, <2>3
  <2>5. tr[j][i][s].pairs = Recalled(tr, y, i, s).pairs
    BY <1>3, <2>0 DEF SameCalls
  <2>6. Recalled(tr2, y, i, s) = Recalled(tr, y, i, s)
    BY <1>1, <2>1, <2>4
  <2>7. tr2[j][i][s].pairs = Recalled(tr2, y, i, s).pairs
    BY <1>3, <2>5, <2>6
  <2> QED
    BY <2>7 DEF y
<1>4. CASE /\ Settled(jb, y) /\ s \in DOMAIN y.entries[i].runs
           /\ tr2[j][i][s].pairs = Recalled(tr, y, i, s).pairs
  BY <1>1, <1>4
<1> QED
  BY <1>2, <1>3, <1>4 DEF Founded

\* How a command goes on.
Goes(old, new) ==
  \/ new = [stage |-> "ended"]
  \/ /\ old.stage = "judging" /\ new.id = old.id /\ new.target = old.target
     /\ \/ new.stage = "judging" /\ new.recorded = old.recorded
        \/ new.stage = "report"
  \/ /\ Proceeds(old, new)
     /\ new.stage \in {"document", "document_open"} => old.stage = "document" \/ old.id # None

\* A step of a command is that command going on.
LEMMA CommandSteps ==
  ASSUME MInv, NEW j \in DOMAIN jobs, Step(j) \/ Stop(j)
  PROVE  \E new : jobs' = [jobs EXCEPT ![j] = new] /\ Goes(jobs[j], new)
<1> DEFINE Goal == \E new : jobs' = [jobs EXCEPT ![j] = new] /\ Goes(jobs[j], new)
<1>1. IsSeq(jobs) /\ JobOK(jobs[j])
  BY DEF MInv, Shaped
<1>2. ASSUME NEW i \in Items, NEW state, jobs[j].stage = "judging", Put(j, i, state) PROVE Goal
  <2> DEFINE new == [jobs[j] EXCEPT !.items[i] = state]
  <2>1. {"stage", "id", "target", "items", "recorded"} \subseteq DOMAIN jobs[j]
    BY <1>1, <1>2 DEF JobOK
  <2>2. /\ jobs' = [jobs EXCEPT ![j] = new] /\ new.recorded = jobs[j].recorded
        /\ new.id = jobs[j].id /\ new.target = jobs[j].target /\ new.stage = jobs[j].stage
    BY <1>2, <2>1 DEF Put
  <2> HIDE DEF new
  <2>3. Goes(jobs[j], new)
    BY <1>2, <2>2 DEF Goes
  <2> QED
    BY <2>2, <2>3
<1>3. ASSUME UNCHANGED jobs, jobs[j].stage = "judging" PROVE Goal
  <2>1. jobs' = [jobs EXCEPT ![j] = jobs[j]]
    BY <1>1, <1>3, SeqIs
  <2>2. Goes(jobs[j], jobs[j])
    BY <1>3 DEF Goes
  <2> QED
    BY <2>1, <2>2
<1>4. ASSUME End(j) PROVE Goal
  <2> DEFINE new == [stage |-> "ended"]
  <2>1. jobs' = [jobs EXCEPT ![j] = new] /\ Goes(jobs[j], new)
    BY <1>4 DEF End, Goes
  <2> HIDE DEF new
  <2> QED
    BY <2>1
<1>5. ASSUME NEW stage \in Writing, To(j, stage), jobs[j].stage \in Writing,
             stage \in {"document", "document_open"} => jobs[j].stage = "document" \/ jobs[j].id # None
      PROVE  Goal
  <2> DEFINE new == [jobs[j] EXCEPT !.stage = stage]
  <2>1. jobs' = [jobs EXCEPT ![j] = new]
    BY <1>5 DEF To
  <2>2. Proceeds(jobs[j], new) /\ new.stage = stage
    BY <1>5, ToProceeds
  <2> HIDE DEF new
  <2>3. Goes(jobs[j], new)
    BY <1>5, <2>2 DEF Goes
  <2> QED
    BY <2>1, <2>3
<1>6. CASE Assemble(j)
  <2>1. PICK result : jobs' = [jobs EXCEPT ![j].stage = "report", ![j].result = result]
    BY <1>6 DEF Assemble
  <2> DEFINE new == [jobs[j] EXCEPT !.stage = "report", !.result = result]
  <2>2. jobs[j].stage = "judging"
    BY <1>6 DEF Assemble, Stage
  <2>3. {"stage", "id", "target", "result"} \subseteq DOMAIN jobs[j]
    BY <1>1, <2>2 DEF JobOK
  <2>4. /\ jobs' = [jobs EXCEPT ![j] = new] /\ new.stage = "report"
        /\ new.id = jobs[j].id /\ new.target = jobs[j].target
    BY <2>1, <2>3
  <2> HIDE DEF new
  <2>5. Goes(jobs[j], new)
    BY <2>2, <2>4 DEF Goes
  <2> QED
    BY <2>4, <2>5
<1>7. ASSUME NEW i \in Items, Take(j, i) \/ Answer(j, i) \/ Fail(j, i) PROVE Goal
  BY <1>2, <1>3, <1>7 DEF Take, Answer, Fail, Stage
<1>8. CASE OpenReport(j) \/ WriteReport(j)
  BY <1>5, <1>8 DEF OpenReport, WriteReport, Stage, Writing
<1>9. CASE OpenJournal(j) \/ WriteJournal(j)
  BY <1>4, <1>5, <1>9 DEF OpenJournal, WriteJournal, Stage, Writing
<1>10. CASE OpenDocument(j) \/ WriteDocument(j) \/ Stop(j)
  BY <1>4, <1>5, <1>10 DEF OpenDocument, WriteDocument, Stop, Stage, Writing
<1> QED
  BY <1>6, <1>7, <1>8, <1>9, <1>10 DEF Step

\* A step which leaves the traces alone begins no rescoring.
LEMMA NoneBegins ==
  ASSUME MInv, NEW j \in DOMAIN jobs,
         \/ \E i \in Items : Take(j, i) \/ Fail(j, i)
         \/ Assemble(j) \/ OpenReport(j) \/ WriteReport(j) \/ OpenJournal(j) \/ WriteJournal(j)
         \/ OpenDocument(j) \/ WriteDocument(j) \/ Stop(j)
  PROVE  /\ UNCHANGED traces /\ DOMAIN jobs' = DOMAIN jobs
         /\ \A k \in DOMAIN jobs' : jobs'[k].stage = "judging" =>
              jobs[k].stage = "judging" /\ jobs'[k].recorded = jobs[k].recorded
<1>1. PICK new : jobs' = [jobs EXCEPT ![j] = new] /\ Goes(jobs[j], new)
  BY CommandSteps DEF Step
<1>2. new.stage = "judging" => jobs[j].stage = "judging" /\ new.recorded = jobs[j].recorded
  <2>1. CASE new = [stage |-> "ended"]
    BY <2>1
  <2>2. CASE new # [stage |-> "ended"]
    BY <1>1, <2>2 DEF Goes, Proceeds, Writing
  <2> QED
    BY <2>1, <2>2
<1>3. UNCHANGED traces
  BY DEF Take, Fail, Assemble, OpenReport, WriteReport, OpenJournal, WriteJournal, OpenDocument, WriteDocument, Stop
<1> QED
  BY <1>1, <1>2, <1>3

\* The answer of a rescoring is over the calls its source recorded.
LEMMA AnswerRescores ==
  ASSUME MInv, ResettleKeepsCalls, SameCalls(jobs, traces),
         NEW j \in DOMAIN jobs, NEW i \in Items, Answer(j, i)
  PROVE  SameCalls(jobs', traces')
<1> DEFINE y == jobs[j].recorded
           s == Len(traces[j][i]) + 1
<1>1. /\ Shaped(jobs, traces) /\ Consistent(jobs, dirs, traces)
      /\ IsSeq(traces) /\ DOMAIN traces = DOMAIN jobs
      /\ JobOK(jobs[j]) /\ ItemsOK(jobs[j], traces[j]) /\ RunsOK(traces[j])
  BY DEF MInv, Shaped
<1>2. jobs[j].stage = "judging" /\ jobs[j].items[i] = "judging"
  BY DEF Answer, Stage
<1>3. PICK run \in Possible(j, i) :
        /\ traces' = [traces EXCEPT ![j][i] = Append(@, run)]
        /\ UNCHANGED jobs \/ Put(j, i, "judged")
  BY DEF Answer
<1>4. /\ DOMAIN jobs' = DOMAIN jobs /\ jobs'[j].recorded = y
      /\ \A k \in DOMAIN jobs : k # j => jobs'[k] = jobs[k]
  <2>1. "recorded" \in DOMAIN jobs[j] /\ "items" \in DOMAIN jobs[j]
    BY <1>1, <1>2 DEF JobOK
  <2>2. CASE UNCHANGED jobs
    BY <2>2
  <2>3. CASE Put(j, i, "judged")
    BY <2>1, <2>3 DEF Put
  <2> QED
    BY <1>3, <2>2, <2>3
<1>5. /\ DOMAIN traces' = DOMAIN traces
      /\ \A k \in DOMAIN traces : k # j => traces'[k] = traces[k]
      /\ \A k \in Items : k # i => traces'[j][k] = traces[j][k]
      /\ traces'[j][i] = Append(traces[j][i], run)
  BY <1>1, <1>3 DEF RunsOK
<1>6. /\ DOMAIN traces'[j][i] = DOMAIN traces[j][i] \cup {s} /\ traces'[j][i][s] = run
      /\ \A n \in DOMAIN traces[j][i] : traces'[j][i][n] = traces[j][i][n]
  <2>1. IsSeq(traces[j][i])
    BY <1>1 DEF RunsOK
  <2> DEFINE longer == Append(traces[j][i], run)
  <2>2. /\ DOMAIN longer = DOMAIN traces[j][i] \cup {s} /\ longer[s] = run
        /\ \A n \in DOMAIN traces[j][i] : longer[n] = traces[j][i][n]
    BY <2>1, SeqAppend
  <2> HIDE DEF longer, s
  <2> QED
    BY <1>5, <2>2 DEF longer
<1>7. y # None => /\ Settled(jobs, y) /\ s \in DOMAIN y.entries[i].runs
                  /\ run.pairs = Recalled(traces, y, i, s).pairs
  <2> SUFFICES ASSUME y # None
               PROVE  /\ Settled(jobs, y) /\ s \in DOMAIN y.entries[i].runs
                      /\ run.pairs = Recalled(traces, y, i, s).pairs
    OBVIOUS
  <2>1. Settled(jobs, y)
    BY <1>1, <1>2 DEF Consistent
  <2>2. Len(traces[j][i]) < jobs[j].seeds /\ Len(y.entries[i].runs) = jobs[j].seeds
    BY <1>1, <1>2 DEF ItemsOK
  <2>3. run = Resettle(Recalled(traces, y, i, s))
    <3>1. run \in {Resettle(traces[r.at.job][r.at.item][r.at.seed]) :
                     r \in {q \in {y.entries[i].runs[s]} : q.near}}
      BY DEF Possible
    <3>2. PICK r \in {q \in {y.entries[i].runs[s]} : q.near} :
            run = Resettle(traces[r.at.job][r.at.item][r.at.seed])
      BY <3>1
    <3>3. r = y.entries[i].runs[s]
      BY <3>2
    <3> HIDE DEF y, s
    <3> QED
      BY <3>2, <3>3 DEF Recalled
  <2> HIDE DEF y
  <2>4. s \in DOMAIN y.entries[i].runs
    BY <1>1, <2>1, <2>2, SeqIs DEF RunsOK, Settled
  <2>5. run.pairs = Recalled(traces, y, i, s).pairs
    BY <2>3 DEF ResettleKeepsCalls
  <2> QED
    BY <2>1, <2>4, <2>5
<1> HIDE DEF y, s
<1>8. \A k : DoneAsking(jobs, k) => traces'[k] = traces[k]
  BY <1>1, <1>2, <1>5 DEF DoneAsking
<1>9. ASSUME NEW k \in DOMAIN jobs', jobs'[k].stage = "judging", jobs'[k].recorded # None,
             NEW m \in Items, NEW n \in DOMAIN traces'[k][m]
      PROVE  Founded(jobs, traces, jobs', traces', k, m, n)
  <2>1. CASE k # j
    BY <1>1, <1>4, <1>5, <1>9, <2>1 DEF Founded
  <2>2. CASE k = j /\ (m # i \/ n \in DOMAIN traces[j][i])
    <3>1. n \in DOMAIN traces[j][m] /\ traces'[j][m][n] = traces[j][m][n]
      BY <1>5, <1>6, <1>9, <2>2
    <3> QED
      BY <1>2, <1>4, <2>2, <3>1 DEF Founded, y
  <2>3. CASE k = j /\ m = i /\ n \notin DOMAIN traces[j][i]
    <3>1. n = s
      BY <1>6, <1>9, <2>3
    <3>2. jobs'[j].recorded = y /\ y # None
      BY <1>4, <1>9, <2>3
    <3>3. /\ Settled(jobs, jobs'[k].recorded) /\ n \in DOMAIN jobs'[k].recorded.entries[m].runs
          /\ traces'[k][m][n].pairs = Recalled(traces, jobs'[k].recorded, m, n).pairs
      BY <1>6, <1>7, <2>3, <3>1, <3>2
    <3> QED
      BY <3>3 DEF Founded
  <2> QED
    BY <2>1, <2>2, <2>3
<1> QED
  BY <1>1, <1>8, <1>9, CallsStay

\* A command that begins has no runs yet.
LEMMA BeginningRescores ==
  ASSUME MInv, SameCalls(jobs, traces), NEW new, NEW runs, DOMAIN runs = Items,
         \A i \in Items : runs[i] = <<>>,
         jobs' = Append(jobs, new), traces' = Append(traces, runs)
  PROVE  SameCalls(jobs', traces')
<1>1. /\ Shaped(jobs, traces) /\ Consistent(jobs, dirs, traces)
      /\ IsSeq(jobs) /\ IsSeq(traces) /\ DOMAIN traces = DOMAIN jobs
  BY DEF MInv, Shaped
<1>2. Len(jobs) = Len(traces)
  BY <1>1, SeqIs
<1>3. /\ DOMAIN jobs' = DOMAIN jobs \cup {Len(jobs) + 1}
      /\ \A k \in DOMAIN jobs : jobs'[k] = jobs[k]
  <2> DEFINE longer == Append(jobs, new)
  <2>1. /\ DOMAIN longer = DOMAIN jobs \cup {Len(jobs) + 1}
        /\ \A k \in DOMAIN jobs : longer[k] = jobs[k]
    BY <1>1, SeqAppend
  <2> HIDE DEF longer
  <2> QED
    BY <2>1 DEF longer
<1>4. traces'[Len(jobs) + 1] = runs /\ \A k \in DOMAIN jobs : traces'[k] = traces[k]
  <2> DEFINE longer == Append(traces, runs)
  <2>1. longer[Len(traces) + 1] = runs /\ \A k \in DOMAIN traces : longer[k] = traces[k]
    BY <1>1, SeqAppend
  <2> HIDE DEF longer
  <2> QED
    BY <1>1, <1>2, <2>1 DEF longer
<1>5. \A k : DoneAsking(jobs, k) => traces'[k] = traces[k]
  BY <1>4 DEF DoneAsking
<1>6. ASSUME NEW k \in DOMAIN jobs', jobs'[k].stage = "judging", jobs'[k].recorded # None,
             NEW i \in Items, NEW s \in DOMAIN traces'[k][i]
      PROVE  Founded(jobs, traces, jobs', traces', k, i, s)
  <2>1. k \in DOMAIN jobs
    <3> SUFFICES ASSUME k = Len(jobs) + 1 PROVE FALSE
      BY <1>3
    <3>1. traces'[k][i] = <<>>
      BY <1>4
    <3>2. DOMAIN traces'[k][i] = {}
      BY <3>1
    <3> QED
      BY <1>6, <3>2
  <2> QED
    BY <1>3, <1>4, <1>6, <2>1 DEF Founded
<1> QED
  BY <1>1, <1>5, <1>6, CallsStay

\* A rescoring settles the recorded calls and nothing else: every run it left
\* is over the calls its source recorded, where the harness's rule keeps the
\* calls it reads (rescore.go).
THEOREM CallsKept == ResettleKeepsCalls => (Spec => []SameCallsRescored)
<1> SUFFICES ASSUME ResettleKeepsCalls PROVE Spec => []SameCallsRescored
  OBVIOUS
<1> DEFINE Inv == MInv /\ SameCalls(jobs, traces)
<1>1. Init => Inv
  BY InitHolds DEF Init, SameCalls
<1>2. Inv /\ [Next]_vars => Inv'
  <2> SUFFICES ASSUME MInv, SameCalls(jobs, traces), [Next]_vars PROVE SameCalls(jobs', traces')
    BY NextKeeps
  <2>1. CASE Tomorrow \/ UNCHANGED vars
    BY <2>1 DEF Tomorrow, vars
  <2>2. ASSUME NEW r \in Requests, NEW source \in DOMAIN dirs \cup {None}, Calibrate(r, source)
        PROVE  SameCalls(jobs', traces')
    <3> DEFINE runs == [i \in Items |-> <<>>]
    <3>1. DOMAIN runs = Items /\ \A i \in Items : runs[i] = <<>>
      OBVIOUS
    <3>2. traces' = Append(traces, runs) /\ \E new : jobs' = Append(jobs, new)
      BY <2>2 DEF Calibrate
    <3> HIDE DEF runs
    <3> QED
      BY <3>1, <3>2, BeginningRescores
  <2>3. ASSUME NEW d \in DOMAIN dirs, Replay(d) PROVE SameCalls(jobs', traces')
    <3> DEFINE runs == [i \in Items |-> <<>>]
    <3>1. DOMAIN runs = Items /\ \A i \in Items : runs[i] = <<>>
      OBVIOUS
    <3>2. traces' = Append(traces, runs) /\ \E new : jobs' = Append(jobs, new)
      BY <2>3 DEF Replay
    <3> HIDE DEF runs
    <3> QED
      BY <3>1, <3>2, BeginningRescores
  <2>4. ASSUME NEW j \in DOMAIN jobs, NEW i \in Items, Answer(j, i)
        PROVE  SameCalls(jobs', traces')
    BY <2>4, AnswerRescores
  <2>5. ASSUME NEW j \in DOMAIN jobs,
               \/ \E i \in Items : Take(j, i) \/ Fail(j, i)
               \/ Assemble(j) \/ OpenReport(j) \/ WriteReport(j) \/ OpenJournal(j) \/ WriteJournal(j)
               \/ OpenDocument(j) \/ WriteDocument(j) \/ Stop(j)
        PROVE  SameCalls(jobs', traces')
    BY <2>5, NoneBegins DEF SameCalls
  <2> QED
    BY <2>1, <2>2, <2>3, <2>4, <2>5 DEF Next, Step
<1>3. Inv => SameCallsRescored
  BY DEF SameCalls, SameCallsRescored, Recalled
<1> HIDE DEF Inv
<1> QED
  BY <1>1, <1>2, <1>3, PTL DEF Spec

-----------------------------------------------------------------------------
(***************************************************************************)
(* The days                                                                *)
(***************************************************************************)
\* A document comes from a command that was given a day of its own.
JobDated(job) ==
  /\ job.stage # "ended" /\ job.id # None => job.id[1] \in Range(Days)
  /\ job.stage \in {"document", "document_open"} => job.id # None

Dated ==
  /\ today \in Range(Days)
  /\ \A id \in DOMAIN vault : vault[id].day \in Range(Days)
  /\ \A j \in DOMAIN jobs : JobDated(jobs[j])

\* The days are numbers, and the last is the greatest.
LEMMA DaysAre ==
  /\ Len(Days) \in Nat \ {0} /\ DOMAIN Days = 1..Len(Days)
  /\ Range(Days) \subseteq Nat
  /\ Days[Len(Days)] \in Nat
  /\ \A day \in Range(Days) : day <= Days[Len(Days)]
<1>1. Days \in Seq(Nat) /\ Days # <<>>
  BY PanelAssumption
<1>2. Len(Days) \in Nat \ {0} /\ DOMAIN Days = 1..Len(Days) /\ \A n \in DOMAIN Days : Days[n] \in Nat
  BY <1>1
<1>3. \A n \in DOMAIN Days : n < Len(Days) => Days[n] < Days[Len(Days)]
  BY <1>2, PanelAssumption
<1>4. \A n \in DOMAIN Days : Days[n] <= Days[Len(Days)]
  BY <1>2, <1>3
<1> QED
  BY <1>2, <1>4 DEF Range

\* A command that goes on keeps its day.
LEMMA GoesDated ==
  ASSUME NEW old, NEW new, JobOK(old), JobDated(old), Goes(old, new)
  PROVE  JobDated(new)
<1>1. CASE new = [stage |-> "ended"]
  BY <1>1 DEF JobDated
<1>2. CASE new # [stage |-> "ended"]
  BY <1>2 DEF Goes, Proceeds, JobDated, Writing
<1> QED
  BY <1>1, <1>2

\* Every step keeps the days.
LEMMA DatedKeeps == MInv /\ Dated /\ [Next]_vars => Dated'
<1> SUFFICES ASSUME MInv, Dated, [Next]_vars PROVE Dated'
  OBVIOUS
<1>1. IsSeq(jobs) /\ \A j \in DOMAIN jobs : JobOK(jobs[j])
  BY DEF MInv, Shaped
<1>2. CASE UNCHANGED vars
  BY <1>2 DEF vars, Dated
<1>3. CASE Tomorrow
  <2>1. today' \in Range(Days)
    BY <1>3, DaysAre DEF Tomorrow, Range
  <2> QED
    BY <1>3, <2>1 DEF Tomorrow, Dated
<1>4. ASSUME NEW new, JobDated(new), jobs' = Append(jobs, new), UNCHANGED <<today, vault>>
      PROVE  Dated'
  <2> DEFINE longer == Append(jobs, new)
  <2>1. /\ DOMAIN longer = DOMAIN jobs \cup {Len(jobs) + 1} /\ longer[Len(jobs) + 1] = new
        /\ \A k \in DOMAIN jobs : longer[k] = jobs[k]
    BY <1>1, SeqAppend
  <2>2. jobs' = longer
    BY <1>4
  <2> HIDE DEF longer
  <2>3. \A k \in DOMAIN jobs' : JobDated(jobs'[k])
    BY <1>4, <2>1, <2>2 DEF Dated
  <2> QED
    BY <1>4, <2>3 DEF Dated
<1>5. ASSUME NEW r \in Requests, NEW source \in DOMAIN dirs \cup {None}, Calibrate(r, source)
      PROVE  Dated'
  <2>1. PICK target, replaces, recorded, seeds :
          jobs' = Append(jobs,
            [stage |-> "judging", id |-> <<today, FreeSeq>>, target |-> target,
             replaces |-> replaces, labels |-> r.labels, near |-> r.near,
             from |-> source, recorded |-> recorded, seeds |-> seeds,
             items |-> [i \in Items |-> "waiting"], result |-> None])
    BY <1>5 DEF Calibrate
  <2> DEFINE new == [stage |-> "judging", id |-> <<today, FreeSeq>>, target |-> target,
             replaces |-> replaces, labels |-> r.labels, near |-> r.near,
             from |-> source, recorded |-> recorded, seeds |-> seeds,
             items |-> [i \in Items |-> "waiting"], result |-> None]
  <2>2. new.stage = "judging" /\ new.id[1] = today
    OBVIOUS
  <2>3. jobs' = Append(jobs, new) /\ UNCHANGED <<today, vault>>
    BY <1>5, <2>1 DEF Calibrate
  <2> HIDE DEF new
  <2>4. JobDated(new)
    BY <2>2 DEF JobDated, Dated
  <2> QED
    BY <1>4, <2>3, <2>4
<1>6. ASSUME NEW d \in DOMAIN dirs, Replay(d) PROVE Dated'
  <2>1. PICK result : jobs' = Append(jobs, [stage |-> "report", id |-> None, target |-> d, result |-> result])
    BY <1>6 DEF Replay
  <2> DEFINE new == [stage |-> "report", id |-> None, target |-> d, result |-> result]
  <2>2. new.stage = "report" /\ new.id = None
    OBVIOUS
  <2>3. jobs' = Append(jobs, new) /\ UNCHANGED <<today, vault>>
    BY <1>6, <2>1 DEF Replay
  <2> HIDE DEF new
  <2>4. JobDated(new)
    BY <2>2 DEF JobDated
  <2> QED
    BY <1>4, <2>3, <2>4
<1>7. ASSUME NEW j \in DOMAIN jobs, Step(j) \/ Stop(j) PROVE Dated'
  <2>1. PICK new : jobs' = [jobs EXCEPT ![j] = new] /\ Goes(jobs[j], new)
    BY <1>7, CommandSteps
  <2>2. JobDated(new)
    BY <1>1, <2>1, GoesDated DEF Dated
  <2>3. \A k \in DOMAIN jobs' : JobDated(jobs'[k])
    BY <2>1, <2>2 DEF Dated
  <2>4. UNCHANGED today
    BY <1>7 DEF Step, Stop, Take, Answer, Fail, Assemble, OpenReport, WriteReport, OpenJournal,
                WriteJournal, OpenDocument, WriteDocument
  <2>5. CASE WriteDocument(j)
    <3>1. PICK report, replaces, says, from :
            vault' = Bind(vault, jobs[j].id, [by |-> j, day |-> jobs[j].id[1], report |-> report,
                                              replaces |-> replaces, says |-> says, from |-> from])
      BY <2>5 DEF WriteDocument
    <3> DEFINE document == [by |-> j, day |-> jobs[j].id[1], report |-> report,
                            replaces |-> replaces, says |-> says, from |-> from]
    <3>2. document.day = jobs[j].id[1]
      OBVIOUS
    <3>3. vault' = Bind(vault, jobs[j].id, document)
      BY <3>1
    <3> HIDE DEF document
    <3>4. document.day \in Range(Days)
      BY <2>5, <3>2 DEF WriteDocument, Stage, Dated, JobDated
    <3>5. \A id \in DOMAIN vault' : vault'[id].day \in Range(Days)
      BY <3>3, <3>4 DEF Bind, Dated
    <3> QED
      BY <2>3, <2>4, <3>5 DEF Dated
  <2>6. CASE OpenDocument(j)
    <3>1. \A id \in DOMAIN vault' : id \in DOMAIN vault /\ vault'[id] = vault[id]
      BY <2>6 DEF OpenDocument, Restrict
    <3> QED
      BY <2>3, <2>4, <3>1 DEF Dated
  <2>7. CASE ~WriteDocument(j) /\ ~OpenDocument(j)
    <3>1. UNCHANGED vault
      BY <1>7, <2>7 DEF Step, Stop, Take, Answer, Fail, Assemble, OpenReport, WriteReport, OpenJournal,
                        WriteJournal
    <3> QED
      BY <2>3, <2>4, <3>1 DEF Dated
  <2> QED
    BY <2>5, <2>6, <2>7
<1> QED
  BY <1>2, <1>3, <1>5, <1>6, <1>7 DEF Next

\* The warning that nobody compared the judge with people lately comes on the
\* very day the last such document leaves its period (status.go, StatusOf;
\* calibration.go, InForceUntil).
THEOREM WarnedInTime == Spec => []WarnedOnTheDay
<1>1. Init => Dated
  <2> SUFFICES ASSUME Init PROVE Dated
    OBVIOUS
  <2>1. today \in Range(Days) /\ DOMAIN vault = {} /\ DOMAIN jobs = {}
    BY DaysAre DEF Init, Range
  <2> QED
    BY <2>1 DEF Dated
<1>2. Dated => WarnedOnTheDay
  <2> SUFFICES ASSUME Dated PROVE WarnedOnTheDay
    OBVIOUS
  <2> DEFINE days == {vault[id].day : id \in Compared}
  <2>1. days \in SUBSET Nat /\ today \in Nat /\ ValidityDays \in Nat
    BY DaysAre, PanelAssumption DEF Dated, Compared
  <2>2. \A id \in Compared : InForceUntil(id) = vault[id].day + ValidityDays + 1 /\ vault[id].day \in days
    BY <2>1 DEF InForceUntil, LastDay
  <2>3. CASE Compared = {}
    BY <2>3 DEF WarnedOnTheDay, Warned
  <2>4. CASE Compared # {}
    <3>1. Max(days) \in days /\ \A day \in days : day <= Max(days)
      <4>1. days \in SUBSET Int /\ days # {} /\ \A day \in days : day <= Days[Len(Days)]
        BY <2>1, <2>4, DaysAre DEF Dated, Compared
      <4> DEFINE high == Days[Len(Days)]
      <4>2. high \in Int /\ \A day \in days : day <= high
        BY <4>1, DaysAre
      <4> HIDE DEF days, high
      <4> QED
        BY <4>1, <4>2, MaxIs
    <3>2. PICK id \in Compared : vault[id].day = Max(days)
      BY <3>1
    <3>3. Warned <=> today - Max(days) > ValidityDays
      BY <2>4 DEF Warned
    <3> DEFINE last == Max(days)
    <3>4. last \in Nat /\ \A other \in Compared : vault[other].day <= last /\ vault[other].day \in Nat
      BY <2>1, <2>2, <3>1
    <3>5. vault[id].day = last /\ (Warned <=> today - last > ValidityDays)
      BY <3>2, <3>3
    <3> HIDE DEF last, days
    <3>6. today < InForceUntil(id) <=> ~(today - last > ValidityDays)
      BY <2>1, <2>2, <3>2, <3>4, <3>5
    <3>7. \A other \in Compared : today < InForceUntil(other) => ~(today - last > ValidityDays)
      BY <2>1, <2>2, <3>4
    <3> QED
      BY <3>2, <3>5, <3>6, <3>7 DEF WarnedOnTheDay
  <2> QED
    BY <2>3, <2>4
<1> QED
  BY <1>1, <1>2, Invariant, DatedKeeps, PTL DEF Spec

-----------------------------------------------------------------------------
(***************************************************************************)
(* A document and its report                                               *)
(***************************************************************************)
\* One command at a time, --out naming a directory of its own on one day, and
\* None standing for nothing else.
OneAtATime == MaxLive = 1
NamedOnOneDay ==
  \A r, s \in Requests : r.out # None =>
    /\ r.out \notin Range(Days)
    /\ r.out = s.out => \A day \in r.days, other \in s.days : day = other
NoneIsNothing ==
  \A a, b : /\ <<a, b>> # None
            /\ [by |-> a, numbers |-> b] # None
            /\ [by |-> a, entries |-> b] # None

\* The directories the calibration of a slot may write.
IsSlot(id) == \E day \in Range(Days) : \E n : id = <<day, n>>
Owned(id) ==
  {<<id[1], id[2]>>} \cup {<<r.out, id[2]>> : r \in {q \in Requests : q.out # None /\ id[1] \in q.days}}

Whole(content) == content.report # None /\ content.journal # None

\* What can be read of a document's directory is its own, and only a file that
\* was opened and not filled since cannot be read.
Holds(held, d, document, tn) ==
  /\ held.report # None => held.report.by = document.by /\ Published(held.report.numbers) = document.says
  /\ held.journal # None => held.journal.by = document.by
  /\ held.report # None \/ held.journal # None
  /\ held.report = None => <<"report", d>> \in tn
  /\ held.journal = None => <<"journal", d>> \in tn

Backed(ds, vt, tn) ==
  \A id \in DOMAIN vt :
    /\ IsSlot(id) /\ vt[id].report \in Owned(id)
    /\ vt[id].report \in DOMAIN ds /\ Holds(ds[vt[id].report], vt[id].report, vt[id], tn)

\* A calibration has a slot no document has; what it wrote is still there.
Calibrates(job, j, ds, vt) ==
  /\ IsSlot(job.id) /\ job.id \notin DOMAIN vt /\ job.target \in Owned(job.id)
  /\ job.stage \in Writing =>
       Whole(job.result) /\ job.result.report.by = j /\ job.result.journal.by = j
  /\ job.stage \in {"journal", "journal_open", "document", "document_open"} =>
       job.target \in DOMAIN ds /\ ds[job.target].report = job.result.report
  /\ job.stage \in {"document", "document_open"} => ds[job.target].journal = job.result.journal

\* A replay writes what no document can tell from what was there, and leaves
\* one of the two files whole while it writes the other.
Rewrites(job, ds, vt) ==
  /\ job.stage \in {"report", "report_open", "journal", "journal_open"} /\ Whole(job.result)
  /\ \A id \in DOMAIN vt : vt[id].report = job.target =>
       /\ job.result.report.by = vt[id].by /\ Published(job.result.report.numbers) = vt[id].says
       /\ job.result.journal.by = vt[id].by
  /\ job.target \in DOMAIN ds
  /\ IF job.stage \in {"report", "report_open"} THEN ds[job.target].journal # None
     ELSE ds[job.target].report # None

Owns(job, j, ds, vt) ==
  IF job.id = None THEN Rewrites(job, ds, vt) ELSE Calibrates(job, j, ds, vt)

Alone(jb) == \A j, k \in DOMAIN jb : jb[j].stage # "ended" /\ jb[k].stage # "ended" => j = k

OInv ==
  /\ MInv /\ Alone(jobs) /\ today \in Range(Days) /\ IsFiniteSet(DOMAIN vault)
  /\ Backed(dirs, vault, torn)
  /\ \A j \in DOMAIN jobs : jobs[j].stage # "ended" => Owns(jobs[j], j, dirs, vault)

\* Two slots share no directory.
LEMMA OwnedOnce ==
  ASSUME NamedOnOneDay, NEW id, IsSlot(id), NEW other, IsSlot(other),
         NEW target, target \in Owned(id), target \in Owned(other)
  PROVE  id = other
<1>1. /\ id = <<id[1], id[2]>> /\ id[1] \in Range(Days)
      /\ other = <<other[1], other[2]>> /\ other[1] \in Range(Days)
  BY DEF IsSlot
<1>2. target[2] = id[2] /\ target[2] = other[2]
  BY DEF Owned
<1>3. /\ target[1] = id[1] \/ \E r \in Requests : r.out # None /\ id[1] \in r.days /\ target[1] = r.out
      /\ target[1] = other[1]
           \/ \E r \in Requests : r.out # None /\ other[1] \in r.days /\ target[1] = r.out
  BY DEF Owned
<1>4. id[1] = other[1]
  BY <1>1, <1>3 DEF NamedOnOneDay
<1> QED
  BY <1>1, <1>2, <1>4

\* freeSlot finds a number no document has: there are more numbers to look at
\* than documents.
LEMMA SlotIsFree ==
  ASSUME IsFiniteSet(DOMAIN vault)
  PROVE  <<today, FreeSeq>> \notin DOMAIN vault
<1> DEFINE count == Cardinality(DOMAIN vault)
           free == {n \in 0..count : <<today, n>> \notin DOMAIN vault}
           f == [n \in 0..count |-> <<today, n>>]
<1>1. count \in Nat
  BY FS_CardinalityType
<1>2. free # {}
  <2> SUFFICES ASSUME \A n \in 0..count : <<today, n>> \in DOMAIN vault PROVE FALSE
    OBVIOUS
  <2>1. f \in Injection(0..count, DOMAIN vault)
    BY DEF Injection, IsInjective
  <2>2. Cardinality(0..count) <= Cardinality(DOMAIN vault)
    BY <2>1, FS_Injection
  <2>3. Cardinality(0..count) = count + 1
    BY <1>1, FS_Interval
  <2> QED
    BY <1>1, <2>2, <2>3
<1>3. free \in SUBSET Int /\ \A n \in free : 0 <= n
  BY <1>1
<1>4. \A n \in free : <<today, n>> \notin DOMAIN vault
  OBVIOUS
<1>5. FreeSeq = Min(free)
  BY DEF FreeSeq
<1> HIDE DEF free
<1>6. Min(free) \in free
  <2> DEFINE low == 0
  <2>1. low \in Int /\ \A n \in free : low <= n
    BY <1>3
  <2> HIDE DEF low
  <2> QED
    BY <1>2, <1>3, <2>1, MinIs
<1> QED
  BY <1>4, <1>5, <1>6

\* With one command at a time, a command begins when nothing runs.
LEMMA NothingRuns ==
  ASSUME MInv, OneAtATime, Room
  PROVE  \A j \in DOMAIN jobs : jobs[j].stage = "ended"
<1> DEFINE live == {j \in DOMAIN jobs : Live(j)}
<1>1. IsSeq(jobs)
  BY DEF MInv, Shaped
<1>2. IsFiniteSet(DOMAIN jobs)
  BY <1>1, SeqIs, FS_Interval
<1>3. IsFiniteSet(live) /\ Cardinality(live) \in Nat /\ Cardinality(live) < 1
  BY <1>2, FS_Subset, FS_CardinalityType DEF Room, OneAtATime
<1>4. Cardinality(live) = 0
  BY <1>3
<1>5. live = {}
  BY <1>3, <1>4, FS_EmptySet
<1> QED
  BY <1>5 DEF Live

\* A command begins with what it owns.
LEMMA BeginningOwns ==
  ASSUME OInv, \A j \in DOMAIN jobs : jobs[j].stage = "ended", NEW new,
         jobs' = Append(jobs, new), \A j : Owns(new, j, dirs, vault),
         UNCHANGED <<today, dirs, vault, torn>>, MInv'
  PROVE  OInv'
<1>1. IsSeq(jobs)
  BY DEF OInv, MInv, Shaped
<1> DEFINE longer == Append(jobs, new)
<1>2. /\ DOMAIN longer = DOMAIN jobs \cup {Len(jobs) + 1} /\ longer[Len(jobs) + 1] = new
      /\ \A k \in DOMAIN jobs : longer[k] = jobs[k]
  BY <1>1, SeqAppend
<1>3. jobs' = longer
  OBVIOUS
<1> HIDE DEF longer
<1>4. Alone(jobs')
  BY <1>2, <1>3 DEF Alone
<1>5. \A j \in DOMAIN jobs' : jobs'[j].stage # "ended" => Owns(jobs'[j], j, dirs', vault')
  BY <1>2, <1>3
<1>6. Backed(dirs', vault', torn')
  BY DEF OInv
<1> QED
  BY <1>4, <1>5, <1>6 DEF OInv

\* The one command there is goes on.
LEMMA GoingOnOwns ==
  ASSUME OInv, NEW j \in DOMAIN jobs, jobs[j].stage # "ended", NEW new,
         jobs' = [jobs EXCEPT ![j] = new],
         new.stage # "ended" => Owns(new, j, dirs', vault'),
         Backed(dirs', vault', torn'), IsFiniteSet(DOMAIN vault'), UNCHANGED today, MInv'
  PROVE  OInv'
<1>1. DOMAIN jobs' = DOMAIN jobs /\ jobs'[j] = new /\ \A k \in DOMAIN jobs : k # j => jobs'[k] = jobs[k]
  OBVIOUS
<1>2. \A k \in DOMAIN jobs : k # j => jobs[k].stage = "ended"
  BY DEF OInv, Alone
<1>3. Alone(jobs')
  BY <1>1, <1>2 DEF Alone
<1>4. \A k \in DOMAIN jobs' : jobs'[k].stage # "ended" => Owns(jobs'[k], k, dirs', vault')
  BY <1>1, <1>2
<1> QED
  BY <1>3, <1>4 DEF OInv

\* A file is opened or written where no document can tell.
LEMMA WritingBacks ==
  ASSUME NEW ds, NEW vt, NEW tn, Backed(ds, vt, tn), NEW target, NEW content, NEW tn2,
         \A id \in DOMAIN vt : vt[id].report = target => Holds(content, target, vt[id], tn2),
         \A file, d : d # target /\ <<file, d>> \in tn => <<file, d>> \in tn2
  PROVE  Backed(Bind(ds, target, content), vt, tn2)
<1> DEFINE ds2 == Bind(ds, target, content)
<1>1. /\ DOMAIN ds2 = DOMAIN ds \cup {target} /\ ds2[target] = content
      /\ \A d \in DOMAIN ds : d # target => ds2[d] = ds[d]
  BY DEF Bind
<1> HIDE DEF ds2
<1>2. ASSUME NEW id \in DOMAIN vt
      PROVE  /\ IsSlot(id) /\ vt[id].report \in Owned(id)
             /\ vt[id].report \in DOMAIN ds2 /\ Holds(ds2[vt[id].report], vt[id].report, vt[id], tn2)
  <2>1. /\ IsSlot(id) /\ vt[id].report \in Owned(id)
        /\ vt[id].report \in DOMAIN ds /\ Holds(ds[vt[id].report], vt[id].report, vt[id], tn)
    BY DEF Backed
  <2>2. CASE vt[id].report = target
    BY <1>1, <2>1, <2>2
  <2>3. CASE vt[id].report # target
    BY <1>1, <2>1, <2>3 DEF Holds
  <2> QED
    BY <2>2, <2>3
<1>3. Backed(ds2, vt, tn2)
  BY <1>2 DEF Backed
<1> QED
  BY <1>3 DEF ds2

\* A calibration's directory is no document's.
LEMMA TargetIsFree ==
  ASSUME NamedOnOneDay, NEW job, NEW j, NEW ds, NEW vt, NEW tn, Backed(ds, vt, tn),
         Calibrates(job, j, ds, vt)
  PROVE  \A id \in DOMAIN vt : vt[id].report # job.target
<1> SUFFICES ASSUME NEW id \in DOMAIN vt, vt[id].report = job.target PROVE FALSE
  OBVIOUS
<1>1. IsSlot(id) /\ job.target \in Owned(id)
  BY DEF Backed
<1>2. IsSlot(job.id) /\ job.target \in Owned(job.id) /\ job.id # id
  BY DEF Calibrates
<1> QED
  BY <1>1, <1>2, OwnedOnce

\* A calibration begins in a free slot.
LEMMA CalibrateOwns ==
  ASSUME OInv, OneAtATime, NoneIsNothing, MInv',
         NEW r \in Requests, NEW source \in DOMAIN dirs \cup {None}, Calibrate(r, source)
  PROVE  OInv'
<1> DEFINE id == <<today, FreeSeq>>
           target == Target(r.out, FreeSeq)
<1>1. PICK replaces, recorded, seeds :
        jobs' = Append(jobs,
          [stage |-> "judging", id |-> id, target |-> target,
           replaces |-> replaces, labels |-> r.labels, near |-> r.near,
           from |-> source, recorded |-> recorded, seeds |-> seeds,
           items |-> [i \in Items |-> "waiting"], result |-> None])
  BY DEF Calibrate
<1> DEFINE new == [stage |-> "judging", id |-> id, target |-> target,
           replaces |-> replaces, labels |-> r.labels, near |-> r.near,
           from |-> source, recorded |-> recorded, seeds |-> seeds,
           items |-> [i \in Items |-> "waiting"], result |-> None]
<1>2. /\ jobs' = Append(jobs, new) /\ UNCHANGED <<today, dirs, vault, torn>> /\ Room /\ today \in r.days
  BY <1>1 DEF Calibrate
<1>3. new.stage = "judging" /\ new.id = id /\ new.target = target
  OBVIOUS
<1>4. \A j \in DOMAIN jobs : jobs[j].stage = "ended"
  BY <1>2, NothingRuns DEF OInv
<1>5. /\ today \in Range(Days) /\ IsFiniteSet(DOMAIN vault)
  BY DEF OInv
<1>6. IsSlot(id) /\ id \notin DOMAIN vault /\ id # None
  BY <1>5, SlotIsFree DEF IsSlot, NoneIsNothing
<1>7. id[1] = today /\ id[2] = FreeSeq
  OBVIOUS
<1>8. target \in Owned(id)
  <2> HIDE DEF id
  <2>1. CASE r.out = None
    BY <1>7, <2>1 DEF Owned, Target
  <2>2. CASE r.out # None
    BY <1>2, <1>7, <2>2 DEF Owned, Target
  <2> QED
    BY <2>1, <2>2
<1> HIDE DEF new, id, target
<1>9. \A j : Owns(new, j, dirs, vault)
  BY <1>3, <1>6, <1>8 DEF Owns, Calibrates, Writing
<1> QED
  BY <1>2, <1>4, <1>9, BeginningOwns

\* A replay begins with what no document can tell from what is there.
LEMMA ReplayOwns ==
  ASSUME OInv, OneAtATime, NoneIsNothing, MInv', NEW d \in DOMAIN dirs, Replay(d)
  PROVE  OInv'
<1> DEFINE report == [by |-> dirs[d].journal.by, numbers |-> Rebuilt(d)]
           new == [stage |-> "report", id |-> None, target |-> d,
                   result |-> [report |-> report, journal |-> dirs[d].journal]]
<1>1. /\ jobs' = Append(jobs, new) /\ UNCHANGED <<today, dirs, vault, torn>> /\ Room
      /\ Whole(dirs[d]) /\ Published(Rebuilt(d)) = Published(dirs[d].report.numbers)
  BY DEF Replay, Written, Whole
<1>2. \A j \in DOMAIN jobs : jobs[j].stage = "ended"
  BY <1>1, NothingRuns DEF OInv
<1>3. report.numbers = Rebuilt(d) /\ report.by = dirs[d].journal.by /\ report # None
  BY DEF NoneIsNothing
<1>4. /\ new.stage = "report" /\ new.id = None /\ new.target = d
      /\ new.result.report = report /\ new.result.journal = dirs[d].journal
  OBVIOUS
<1> HIDE DEF new, report
<1>5. \A id \in DOMAIN vault : vault[id].report = d =>
        /\ dirs[d].journal.by = vault[id].by /\ Published(dirs[d].report.numbers) = vault[id].says
  BY <1>1 DEF OInv, Backed, Holds, Whole
<1>6. \A j : Owns(new, j, dirs, vault)
  BY <1>1, <1>3, <1>4, <1>5 DEF Owns, Rewrites, Whole
<1> QED
  BY <1>1, <1>2, <1>6, BeginningOwns

\* A command that asks, or stops, changes no file.
LEMMA AskingOwns ==
  ASSUME OInv, MInv', NEW j \in DOMAIN jobs,
         (\E i \in Items : Take(j, i) \/ Answer(j, i) \/ Fail(j, i)) \/ Stop(j)
  PROVE  OInv'
<1>1. IsSeq(jobs) /\ JobOK(jobs[j]) /\ Backed(dirs, vault, torn) /\ IsFiniteSet(DOMAIN vault)
  BY DEF OInv, MInv, Shaped
<1>2. UNCHANGED <<today, dirs, vault, torn>> /\ jobs[j].stage # "ended"
  BY DEF Take, Answer, Fail, Stop, Stage, Live
<1>3. Owns(jobs[j], j, dirs, vault)
  BY <1>2 DEF OInv
<1>4. CASE Stop(j)
  <2> DEFINE new == [stage |-> "ended"]
  <2>1. jobs' = [jobs EXCEPT ![j] = new] /\ new.stage = "ended"
    BY <1>4 DEF Stop, End
  <2> HIDE DEF new
  <2> QED
    BY <1>1, <1>2, <2>1, GoingOnOwns
<1>5. CASE UNCHANGED jobs
  <2>1. jobs' = [jobs EXCEPT ![j] = jobs[j]]
    BY <1>1, <1>5, SeqIs
  <2> QED
    BY <1>1, <1>2, <1>3, <2>1, GoingOnOwns
<1>6. ASSUME NEW i \in Items, NEW state, jobs[j].stage = "judging", Put(j, i, state)
      PROVE  OInv'
  <2> DEFINE new == [jobs[j] EXCEPT !.items[i] = state]
  <2>1. {"stage", "id", "target", "items"} \subseteq DOMAIN jobs[j]
    BY <1>1, <1>6 DEF JobOK
  <2>2. /\ jobs' = [jobs EXCEPT ![j] = new]
        /\ new.id = jobs[j].id /\ new.target = jobs[j].target /\ new.stage = "judging"
    BY <1>6, <2>1 DEF Put
  <2> HIDE DEF new
  <2>3. Owns(new, j, dirs, vault)
    BY <1>3, <1>6, <2>2 DEF Owns, Rewrites, Calibrates, Writing
  <2> QED
    BY <1>1, <1>2, <2>2, <2>3, GoingOnOwns
<1> QED
  BY <1>4, <1>5, <1>6 DEF Take, Answer, Fail, Stage

\* A calibration that is done asking has a report and a journal of its own.
LEMMA AssembleOwns ==
  ASSUME OInv, NoneIsNothing, MInv', NEW j \in DOMAIN jobs, Assemble(j)
  PROVE  OInv'
<1>1. PICK numbers, entries :
        jobs' = [jobs EXCEPT ![j].stage = "report",
                             ![j].result = [report |-> [by |-> j, numbers |-> numbers],
                                            journal |-> [by |-> j, entries |-> entries]]]
  BY DEF Assemble
<1> DEFINE report == [by |-> j, numbers |-> numbers]
           journal == [by |-> j, entries |-> entries]
           new == [jobs[j] EXCEPT !.stage = "report",
                                  !.result = [report |-> report, journal |-> journal]]
<1>2. /\ JobOK(jobs[j]) /\ Backed(dirs, vault, torn) /\ IsFiniteSet(DOMAIN vault)
      /\ jobs[j].stage = "judging" /\ UNCHANGED <<today, dirs, vault, torn>>
  BY DEF OInv, MInv, Shaped, Assemble, Stage
<1>3. {"stage", "id", "target", "result"} \subseteq DOMAIN jobs[j]
  BY <1>2 DEF JobOK
<1>4. /\ jobs' = [jobs EXCEPT ![j] = new] /\ new.stage = "report"
      /\ new.id = jobs[j].id /\ new.target = jobs[j].target
      /\ new.result.report = report /\ new.result.journal = journal
  BY <1>1, <1>3
<1>5. report # None /\ journal # None /\ report.by = j /\ journal.by = j
  BY DEF NoneIsNothing
<1>6. Owns(jobs[j], j, dirs, vault)
  BY <1>2 DEF OInv
<1> HIDE DEF new, report, journal
<1>7. Owns(new, j, dirs, vault)
  BY <1>2, <1>4, <1>5, <1>6 DEF Owns, Rewrites, Calibrates, Whole
<1> QED
  BY <1>2, <1>4, <1>7, GoingOnOwns

\* Once a report or a journal is opened, or written, the command goes on, or a
\* replay ends, and owns what it needs.
LEMMA FileOwns ==
  ASSUME OInv, NamedOnOneDay, MInv', NEW j \in DOMAIN jobs, jobs[j].stage \in Writing,
         NEW new, jobs' = [jobs EXCEPT ![j] = new], UNCHANGED <<today, vault>>,
         NEW content, dirs' = Bind(dirs, jobs[j].target, content),
         \A file, d : d # jobs[j].target /\ <<file, d>> \in torn => <<file, d>> \in torn',
         jobs[j].id = None =>
           /\ \A id \in DOMAIN vault : vault[id].report = jobs[j].target =>
                Holds(content, jobs[j].target, vault[id], torn')
           /\ new.stage # "ended" => new.id = None /\ Rewrites(new, dirs', vault),
         jobs[j].id # None => new.id = jobs[j].id /\ Calibrates(new, j, dirs', vault)
  PROVE  OInv'
<1>1. Backed(dirs, vault, torn) /\ IsFiniteSet(DOMAIN vault) /\ Owns(jobs[j], j, dirs, vault)
  BY DEF OInv, Writing
<1>2. \A id \in DOMAIN vault : vault[id].report = jobs[j].target =>
        Holds(content, jobs[j].target, vault[id], torn')
  <2>1. CASE jobs[j].id = None
    BY <2>1
  <2>2. CASE jobs[j].id # None
    <3>1. Calibrates(jobs[j], j, dirs, vault)
      BY <1>1, <2>2 DEF Owns
    <3> QED
      BY <1>1, <3>1, TargetIsFree
  <2> QED
    BY <2>1, <2>2
<1>3. Backed(dirs', vault, torn')
  BY <1>1, <1>2, WritingBacks
<1>4. new.stage # "ended" => Owns(new, j, dirs', vault')
  BY DEF Owns
<1>5. jobs[j].stage # "ended" /\ Backed(dirs', vault', torn') /\ IsFiniteSet(DOMAIN vault')
  BY <1>1, <1>3 DEF Writing
<1> QED
  BY <1>4, <1>5, GoingOnOwns

\* The report is opened: a replay finds the journal whole.
LEMMA OpenReportOwns ==
  ASSUME OInv, NamedOnOneDay, MInv', NEW j \in DOMAIN jobs, OpenReport(j)
  PROVE  OInv'
<1> DEFINE new == [jobs[j] EXCEPT !.stage = "report_open"]
           target == jobs[j].target
           content == [Content(target) EXCEPT !.report = None]
<1>1. /\ jobs[j].stage = "report" /\ jobs' = [jobs EXCEPT ![j] = new] /\ UNCHANGED <<today, vault>>
      /\ dirs' = Bind(dirs, target, content) /\ torn' = torn \cup {<<"report", target>>}
  BY DEF OpenReport, Stage, To
<1>2. /\ MInv /\ Consistent(jobs, dirs, traces) /\ Owns(jobs[j], j, dirs, vault) /\ Backed(dirs, vault, torn)
  BY <1>1 DEF OInv, MInv
<1>3. Proceeds(jobs[j], new) /\ new.stage = "report_open"
  BY <1>1, <1>2, ToProceeds DEF Writing
<1>4. content.report = None /\ content.journal = Content(target).journal
  BY <1>2, ContentIs
<1>5. DOMAIN dirs' = DOMAIN dirs \cup {target} /\ dirs'[target] = content
  BY <1>1 DEF Bind
<1> HIDE DEF new, content
<1>6. ASSUME jobs[j].id = None
      PROVE  /\ \A id \in DOMAIN vault : vault[id].report = target => Holds(content, target, vault[id], torn')
             /\ new.id = None /\ Rewrites(new, dirs', vault)
  <2>1. Rewrites(jobs[j], dirs, vault) /\ Content(target) = dirs[target]
    BY <1>2, <1>6 DEF Owns, Rewrites, Content
  <2>2. content.journal # None
    BY <1>1, <1>4, <2>1 DEF Rewrites
  <2>3. \A id \in DOMAIN vault : vault[id].report = target => Holds(content, target, vault[id], torn')
    <3> SUFFICES ASSUME NEW id \in DOMAIN vault, vault[id].report = target
                 PROVE  Holds(content, target, vault[id], torn')
      OBVIOUS
    <3>1. Holds(dirs[target], target, vault[id], torn)
      BY <1>2 DEF Backed
    <3> HIDE DEF target
    <3> QED
      BY <1>1, <1>4, <2>1, <2>2, <3>1 DEF Holds
  <2>4. Rewrites(new, dirs', vault)
    BY <1>3, <1>5, <2>1, <2>2 DEF Rewrites, Proceeds
  <2> QED
    BY <1>3, <1>6, <2>3, <2>4 DEF Proceeds
<1>7. ASSUME jobs[j].id # None
      PROVE  new.id = jobs[j].id /\ Calibrates(new, j, dirs', vault)
  <2>1. Calibrates(jobs[j], j, dirs, vault)
    BY <1>2, <1>7 DEF Owns
  <2> QED
    BY <1>1, <1>3, <2>1 DEF Calibrates, Proceeds
<1>8. \A file, d : d # target /\ <<file, d>> \in torn => <<file, d>> \in torn'
  BY <1>1
<1>9. jobs[j].stage \in Writing
  BY <1>1 DEF Writing
<1> QED
  BY <1>1, <1>6, <1>7, <1>8, <1>9, FileOwns

\* The report is written.
LEMMA WriteReportOwns ==
  ASSUME OInv, NamedOnOneDay, MInv', NEW j \in DOMAIN jobs, WriteReport(j)
  PROVE  OInv'
<1> DEFINE new == [jobs[j] EXCEPT !.stage = "journal"]
           target == jobs[j].target
           content == [Content(target) EXCEPT !.report = jobs[j].result.report]
<1>1. /\ jobs[j].stage = "report_open" /\ jobs' = [jobs EXCEPT ![j] = new] /\ UNCHANGED <<today, vault>>
      /\ dirs' = Bind(dirs, target, content) /\ torn' = torn \ {<<"report", target>>}
  BY DEF WriteReport, Stage, To
<1>2. /\ MInv /\ Consistent(jobs, dirs, traces) /\ Owns(jobs[j], j, dirs, vault) /\ Backed(dirs, vault, torn)
  BY <1>1 DEF OInv, MInv
<1>3. Proceeds(jobs[j], new) /\ new.stage = "journal"
  BY <1>1, <1>2, ToProceeds DEF Writing
<1>4. content.report = jobs[j].result.report /\ content.journal = Content(target).journal
  BY <1>2, ContentIs
<1>5. DOMAIN dirs' = DOMAIN dirs \cup {target} /\ dirs'[target] = content
  BY <1>1 DEF Bind
<1> HIDE DEF new, content
<1>6. ASSUME jobs[j].id = None
      PROVE  /\ \A id \in DOMAIN vault : vault[id].report = target => Holds(content, target, vault[id], torn')
             /\ new.id = None /\ Rewrites(new, dirs', vault)
  <2>1. Rewrites(jobs[j], dirs, vault) /\ Content(target) = dirs[target]
    BY <1>2, <1>6 DEF Owns, Rewrites, Content
  <2>2. content.journal # None /\ content.report # None
    BY <1>1, <1>4, <2>1 DEF Rewrites, Whole
  <2>3. \A id \in DOMAIN vault : vault[id].report = target => Holds(content, target, vault[id], torn')
    BY <1>2, <1>4, <2>1, <2>2 DEF Holds, Backed, Rewrites
  <2>4. Rewrites(new, dirs', vault)
    BY <1>3, <1>5, <2>1, <2>2 DEF Rewrites, Proceeds
  <2> QED
    BY <1>3, <1>6, <2>3, <2>4 DEF Proceeds
<1>7. ASSUME jobs[j].id # None
      PROVE  new.id = jobs[j].id /\ Calibrates(new, j, dirs', vault)
  <2>1. Calibrates(jobs[j], j, dirs, vault)
    BY <1>2, <1>7 DEF Owns
  <2> QED
    BY <1>3, <1>4, <1>5, <2>1 DEF Calibrates, Proceeds
<1>8. \A file, d : d # target /\ <<file, d>> \in torn => <<file, d>> \in torn'
  BY <1>1
<1>9. jobs[j].stage \in Writing
  BY <1>1 DEF Writing
<1> QED
  BY <1>1, <1>6, <1>7, <1>8, <1>9, FileOwns

\* The journal is opened: the report is whole.
LEMMA OpenJournalOwns ==
  ASSUME OInv, NamedOnOneDay, MInv', NEW j \in DOMAIN jobs, OpenJournal(j)
  PROVE  OInv'
<1> DEFINE new == [jobs[j] EXCEPT !.stage = "journal_open"]
           target == jobs[j].target
           content == [Content(target) EXCEPT !.journal = None]
<1>1. /\ jobs[j].stage = "journal" /\ jobs' = [jobs EXCEPT ![j] = new] /\ UNCHANGED <<today, vault>>
      /\ dirs' = Bind(dirs, target, content) /\ torn' = torn \cup {<<"journal", target>>}
  BY DEF OpenJournal, Stage, To
<1>2. /\ MInv /\ Consistent(jobs, dirs, traces) /\ Owns(jobs[j], j, dirs, vault) /\ Backed(dirs, vault, torn)
  BY <1>1 DEF OInv, MInv
<1>3. Proceeds(jobs[j], new) /\ new.stage = "journal_open"
  BY <1>1, <1>2, ToProceeds DEF Writing
<1>4. content.journal = None /\ content.report = Content(target).report
  BY <1>2, ContentIs
<1>5. DOMAIN dirs' = DOMAIN dirs \cup {target} /\ dirs'[target] = content
  BY <1>1 DEF Bind
<1> HIDE DEF new, content
<1>6. ASSUME jobs[j].id = None
      PROVE  /\ \A id \in DOMAIN vault : vault[id].report = target => Holds(content, target, vault[id], torn')
             /\ new.id = None /\ Rewrites(new, dirs', vault)
  <2>1. Rewrites(jobs[j], dirs, vault) /\ Content(target) = dirs[target]
    BY <1>2, <1>6 DEF Owns, Rewrites, Content
  <2>2. content.report # None
    BY <1>1, <1>4, <2>1 DEF Rewrites
  <2>3. \A id \in DOMAIN vault : vault[id].report = target => Holds(content, target, vault[id], torn')
    <3> SUFFICES ASSUME NEW id \in DOMAIN vault, vault[id].report = target
                 PROVE  Holds(content, target, vault[id], torn')
      OBVIOUS
    <3>1. Holds(dirs[target], target, vault[id], torn)
      BY <1>2 DEF Backed
    <3> HIDE DEF target
    <3> QED
      BY <1>1, <1>4, <2>1, <2>2, <3>1 DEF Holds
  <2>4. Rewrites(new, dirs', vault)
    BY <1>3, <1>5, <2>1, <2>2 DEF Rewrites, Proceeds
  <2> QED
    BY <1>3, <1>6, <2>3, <2>4 DEF Proceeds
<1>7. ASSUME jobs[j].id # None
      PROVE  new.id = jobs[j].id /\ Calibrates(new, j, dirs', vault)
  <2>1. Calibrates(jobs[j], j, dirs, vault)
    BY <1>2, <1>7 DEF Owns
  <2>2. target \in DOMAIN dirs /\ content.report = jobs[j].result.report
    BY <1>1, <1>4, <2>1 DEF Calibrates, Content
  <2> QED
    BY <1>1, <1>3, <1>5, <2>1, <2>2 DEF Calibrates, Proceeds, Writing
<1>8. \A file, d : d # target /\ <<file, d>> \in torn => <<file, d>> \in torn'
  BY <1>1
<1>9. jobs[j].stage \in Writing
  BY <1>1 DEF Writing
<1> QED
  BY <1>1, <1>6, <1>7, <1>8, <1>9, FileOwns

\* The journal is written, and a replay ends.
LEMMA WriteJournalOwns ==
  ASSUME OInv, NamedOnOneDay, MInv', NEW j \in DOMAIN jobs, WriteJournal(j)
  PROVE  OInv'
<1> DEFINE new == IF jobs[j].id = None THEN [stage |-> "ended"]
                  ELSE [jobs[j] EXCEPT !.stage = "document"]
           target == jobs[j].target
           content == [Content(target) EXCEPT !.journal = jobs[j].result.journal]
<1>1. /\ jobs[j].stage = "journal_open" /\ jobs' = [jobs EXCEPT ![j] = new] /\ UNCHANGED <<today, vault>>
      /\ dirs' = Bind(dirs, target, content) /\ torn' = torn \ {<<"journal", target>>}
  BY DEF WriteJournal, Stage, To, End
<1>2. /\ MInv /\ Consistent(jobs, dirs, traces) /\ Owns(jobs[j], j, dirs, vault) /\ Backed(dirs, vault, torn)
  BY <1>1 DEF OInv, MInv
<1>3. jobs[j].id # None => Proceeds(jobs[j], new) /\ new.stage = "document"
  BY <1>1, <1>2, ToProceeds DEF Writing
<1>4. content.journal = jobs[j].result.journal /\ content.report = Content(target).report
  BY <1>2, ContentIs
<1>5. DOMAIN dirs' = DOMAIN dirs \cup {target} /\ dirs'[target] = content
  BY <1>1 DEF Bind
<1> HIDE DEF content
<1>6. ASSUME jobs[j].id = None
      PROVE  /\ \A id \in DOMAIN vault : vault[id].report = target => Holds(content, target, vault[id], torn')
             /\ new.stage = "ended"
  <2>1. Rewrites(jobs[j], dirs, vault) /\ Content(target) = dirs[target]
    BY <1>2, <1>6 DEF Owns, Rewrites, Content
  <2>2. content.report # None /\ content.journal # None
    BY <1>1, <1>4, <2>1 DEF Rewrites, Whole
  <2>3. \A id \in DOMAIN vault : vault[id].report = target => Holds(content, target, vault[id], torn')
    BY <1>2, <1>4, <2>1, <2>2 DEF Holds, Backed, Rewrites
  <2> QED
    BY <1>6, <2>3
<1> HIDE DEF new
<1>7. ASSUME jobs[j].id # None
      PROVE  new.id = jobs[j].id /\ Calibrates(new, j, dirs', vault)
  <2>1. Calibrates(jobs[j], j, dirs, vault)
    BY <1>2, <1>7 DEF Owns
  <2>2. target \in DOMAIN dirs /\ content.report = jobs[j].result.report
    BY <1>1, <1>4, <2>1 DEF Calibrates, Content
  <2> QED
    BY <1>1, <1>3, <1>4, <1>5, <1>7, <2>1, <2>2 DEF Calibrates, Proceeds, Writing
<1>8. \A file, d : d # target /\ <<file, d>> \in torn => <<file, d>> \in torn'
  BY <1>1
<1>9. jobs[j].stage \in Writing
  BY <1>1 DEF Writing
<1> QED
  BY <1>1, <1>6, <1>7, <1>8, <1>9, FileOwns

\* The document is opened: no document was there.
LEMMA OpenDocumentOwns ==
  ASSUME OInv, MInv, Dated, MInv', NEW j \in DOMAIN jobs, OpenDocument(j)
  PROVE  OInv'
<1> DEFINE new == [jobs[j] EXCEPT !.stage = "document_open"]
<1>1. /\ jobs[j].stage = "document" /\ jobs' = [jobs EXCEPT ![j] = new] /\ UNCHANGED <<today, dirs>>
      /\ vault' = Restrict(vault, DOMAIN vault \ {jobs[j].id}) /\ torn \subseteq torn'
  BY DEF OpenDocument, Stage, To
<1>2. Proceeds(jobs[j], new) /\ new.stage = "document_open"
  BY <1>1, ToProceeds DEF Writing
<1>3. Calibrates(jobs[j], j, dirs, vault) /\ jobs[j].id # None
  BY <1>1 DEF OInv, Owns, Dated, JobDated
<1>4. DOMAIN vault' = DOMAIN vault /\ \A id \in DOMAIN vault : vault'[id] = vault[id]
  BY <1>1, <1>3 DEF Restrict, Calibrates
<1> HIDE DEF new
<1>5. Calibrates(new, j, dirs', vault') /\ new.id # None
  BY <1>1, <1>2, <1>3, <1>4 DEF Calibrates, Proceeds, Writing
<1>6. \A held, d, other : Holds(held, d, other, torn) => Holds(held, d, other, torn')
  BY <1>1 DEF Holds
<1>7. Backed(dirs', vault', torn')
  BY <1>1, <1>4, <1>6 DEF OInv, Backed
<1>8. IsFiniteSet(DOMAIN vault')
  BY <1>4 DEF OInv
<1> QED
  BY <1>1, <1>5, <1>7, <1>8, GoingOnOwns DEF Owns

\* The document is written: its report and its journal are there.
LEMMA WriteDocumentOwns ==
  ASSUME OInv, NamedOnOneDay, MInv, Dated, MInv', NEW j \in DOMAIN jobs, WriteDocument(j)
  PROVE  OInv'
<1> DEFINE id == jobs[j].id
           target == jobs[j].target
           new == [stage |-> "ended"]
<1>1. PICK day, replaces, from :
        vault' = Bind(vault, id,
          [by |-> j, day |-> day, report |-> target, replaces |-> replaces,
           says |-> Published(jobs[j].result.report.numbers), from |-> from])
  BY DEF WriteDocument
<1> DEFINE document == [by |-> j, day |-> day, report |-> target, replaces |-> replaces,
                        says |-> Published(jobs[j].result.report.numbers), from |-> from]
<1>2. /\ jobs[j].stage = "document_open" /\ UNCHANGED <<today, dirs>>
      /\ vault' = Bind(vault, id, document) /\ torn' = torn \ {<<"document", id>>}
      /\ jobs' = [jobs EXCEPT ![j] = new] /\ new.stage = "ended"
  BY <1>1 DEF WriteDocument, Stage, End
<1>3. /\ document.by = j /\ document.report = target
      /\ document.says = Published(jobs[j].result.report.numbers)
  OBVIOUS
<1>4. id # None
  BY <1>2 DEF Dated, JobDated
<1>5. /\ Calibrates(jobs[j], j, dirs, vault) /\ Backed(dirs, vault, torn) /\ IsFiniteSet(DOMAIN vault)
  BY <1>2, <1>4 DEF OInv, Owns
<1>6. /\ IsSlot(id) /\ target \in Owned(id) /\ target \in DOMAIN dirs
      /\ Holds(dirs[target], target, document, torn')
  BY <1>2, <1>3, <1>5 DEF Calibrates, Whole, Writing, Holds
<1> HIDE DEF document, new, id, target
<1>7. /\ DOMAIN vault' = DOMAIN vault \cup {id} /\ vault'[id] = document
      /\ \A other \in DOMAIN vault : other # id => vault'[other] = vault[other]
  BY <1>2 DEF Bind
<1>8. \A held, d, other : Holds(held, d, other, torn) => Holds(held, d, other, torn')
  BY <1>2 DEF Holds
<1>9. Backed(dirs', vault', torn')
  <2>1. /\ IsSlot(id) /\ vault'[id].report \in Owned(id) /\ vault'[id].report \in DOMAIN dirs'
        /\ Holds(dirs'[vault'[id].report], vault'[id].report, vault'[id], torn')
    BY <1>2, <1>3, <1>6, <1>7
  <2>2. ASSUME NEW other \in DOMAIN vault, other # id
        PROVE  /\ IsSlot(other) /\ vault'[other].report \in Owned(other)
               /\ vault'[other].report \in DOMAIN dirs'
               /\ Holds(dirs'[vault'[other].report], vault'[other].report, vault'[other], torn')
    BY <1>2, <1>5, <1>7, <1>8, <2>2 DEF Backed
  <2> QED
    BY <1>7, <2>1, <2>2 DEF Backed
<1>10. IsFiniteSet(DOMAIN vault')
  BY <1>5, <1>7, FS_AddElement
<1> QED
  BY <1>2, <1>9, <1>10, GoingOnOwns

\* With one command at a time, and no directory named on two days, a
\* document's evidence is its own through later calibrations, rescorings,
\* replays and deaths, also inside a write: what can be read in its directory
\* is what it was written about, or a replay of it, one of the two files can
\* be read, and no other document names the directory (report.go, Write;
\* judge.go, freeSlot and replayCalibration).
THEOREM OwnEvidence ==
  OneAtATime /\ NamedOnOneDay /\ NoneIsNothing => (Spec => []EvidenceIsItsOwn)
<1> SUFFICES ASSUME OneAtATime, NamedOnOneDay, NoneIsNothing PROVE Spec => []EvidenceIsItsOwn
  OBVIOUS
<1>1. Init => Dated /\ OInv
  <2> SUFFICES ASSUME Init PROVE Dated /\ OInv
    OBVIOUS
  <2>1. today \in Range(Days) /\ DOMAIN vault = {} /\ DOMAIN jobs = {}
    BY DaysAre DEF Init, Range
  <2>2. IsFiniteSet(DOMAIN vault)
    BY <2>1, FS_EmptySet
  <2> QED
    BY <2>1, <2>2, InitHolds DEF Dated, OInv, Alone, Backed
<1>2. Dated /\ OInv /\ [Next]_vars => (Dated /\ OInv)'
  <2> SUFFICES ASSUME Dated, OInv, [Next]_vars PROVE Dated' /\ OInv'
    OBVIOUS
  <2>1. MInv /\ MInv' /\ Dated'
    BY NextKeeps, DatedKeeps DEF OInv
  <2>2. CASE UNCHANGED vars \/ Tomorrow
    BY <2>1, <2>2 DEF vars, Tomorrow, OInv, Dated
  <2>3. ASSUME NEW r \in Requests, NEW source \in DOMAIN dirs \cup {None}, Calibrate(r, source)
        PROVE  OInv'
    BY <2>1, <2>3, CalibrateOwns
  <2>4. ASSUME NEW d \in DOMAIN dirs, Replay(d) PROVE OInv'
    BY <2>1, <2>4, ReplayOwns
  <2>5. ASSUME NEW j \in DOMAIN jobs, Step(j) \/ Stop(j) PROVE OInv'
    BY <2>1, <2>5, AskingOwns, AssembleOwns, OpenReportOwns, WriteReportOwns, OpenJournalOwns,
       WriteJournalOwns, OpenDocumentOwns, WriteDocumentOwns DEF Step
  <2> QED
    BY <2>1, <2>2, <2>3, <2>4, <2>5 DEF Next
<1>3. OInv => EvidenceIsItsOwn
  <2> SUFFICES ASSUME OInv, NEW id \in DOMAIN vault
               PROVE  /\ Holds(Content(vault[id].report), vault[id].report, vault[id], torn)
                      /\ \A other \in DOMAIN vault : vault[other].report = vault[id].report => other = id
    BY DEF EvidenceIsItsOwn, Holds
  <2>1. Backed(dirs, vault, torn)
    BY DEF OInv
  <2>2. \A other \in DOMAIN vault : vault[other].report = vault[id].report => other = id
    BY <2>1, OwnedOnce DEF Backed
  <2> QED
    BY <2>1, <2>2 DEF Backed, Content
<1> QED
  BY <1>1, <1>2, <1>3, PTL DEF Spec

-----------------------------------------------------------------------------
(***************************************************************************)
(* Counting                                                                *)
(***************************************************************************)
\* Sets that a function matches one to one are of one size.
LEMMA SameSize ==
  ASSUME NEW S, IsFiniteSet(S), NEW T, NEW f \in [S -> T],
         \A x, y \in S : f[x] = f[y] => x = y, \A z \in T : \E x \in S : f[x] = z
  PROVE  IsFiniteSet(T) /\ Cardinality(T) = Cardinality(S)
<1>1. f \in Injection(S, T) /\ f \in Surjection(S, T)
  BY DEF Injection, IsInjective, Surjection
<1>2. ExistsBijection(S, T)
  BY <1>1 DEF ExistsBijection, Bijection
<1> QED
  BY <1>2, FS_Bijection

\* What is of some key, and what is of a key among several.
Of(P, key, x) == {p \in P : key[p] = x}
Among(P, key, s) == {p \in P : key[p] \in s}

\* One key less among several.
LEMMA AmongLess ==
  ASSUME NEW P, IsFiniteSet(P), NEW key, NEW s, NEW x \in s
  PROVE  /\ Cardinality(Among(P, key, s)) = Cardinality(Of(P, key, x)) + Cardinality(Among(P, key, s \ {x}))
         /\ Cardinality(Among(P, key, s \ {x})) \in Nat /\ Cardinality(Of(P, key, x)) \in Nat
<1> DEFINE A == Of(P, key, x)
           B == Among(P, key, s \ {x})
<1>1. Among(P, key, s) = A \cup B /\ A \cap B = {} /\ A \in SUBSET P /\ B \in SUBSET P
  BY DEF Of, Among
<1> HIDE DEF A, B
<1>2. IsFiniteSet(A) /\ IsFiniteSet(B)
  BY <1>1, FS_Subset
<1>3. Cardinality(A \cup B) = Cardinality(A) + Cardinality(B) - Cardinality(A \cap B)
  BY <1>2, FS_Union
<1>4. Cardinality(A \cap B) = 0
  BY <1>1, FS_EmptySet
<1>5. Cardinality(A) \in Nat /\ Cardinality(B) \in Nat
  BY <1>2, FS_CardinalityType
<1> QED
  BY <1>1, <1>3, <1>4, <1>5 DEF A, B

\* Taking the keys of a set one at a time, and adding up.
Adds(iter, S, f) ==
  iter = [s \in SUBSET S |->
            IF s = {} THEN 0 ELSE f[CHOOSE x \in s : TRUE] + iter[s \ {CHOOSE x \in s : TRUE}]]

\* It can be done: the sums are how much is of a key in the set.
LEMMA AddsExist ==
  ASSUME NEW S, NEW P, IsFiniteSet(P), NEW key,
         NEW f, \A x \in S : f[x] = Cardinality(Of(P, key, x))
  PROVE  \E iter : Adds(iter, S, f)
<1> DEFINE count == [s \in SUBSET S |-> Cardinality(Among(P, key, s))]
<1>1. Cardinality(Among(P, key, {})) = 0
  <2>1. Among(P, key, {}) = {}
    BY DEF Among
  <2> QED
    BY <2>1, FS_EmptySet
<1>2. Adds(count, S, f)
  <2>1. ASSUME NEW s \in SUBSET S
        PROVE  count[s] = IF s = {} THEN 0
                          ELSE f[CHOOSE x \in s : TRUE] + count[s \ {CHOOSE x \in s : TRUE}]
    <3>1. CASE s = {}
      BY <1>1, <3>1
    <3>2. CASE s # {}
      <4> DEFINE x == CHOOSE x \in s : TRUE
      <4>1. x \in s
        BY <3>2
      <4>2. x \in S /\ s \ {x} \in SUBSET S
        BY <4>1
      <4> HIDE DEF x
      <4>3. count[s] = f[x] + count[s \ {x}]
        BY <4>1, <4>2, AmongLess
      <4> QED
        BY <3>2, <4>3 DEF x
    <3> QED
      BY <3>1, <3>2
  <2>2. count = [s \in SUBSET S |-> count[s]]
    OBVIOUS
  <2> HIDE DEF count
  <2> QED
    BY <2>1, <2>2 DEF Adds
<1> QED
  BY <1>2

\* And over all the keys it makes all there is.
LEMMA AddsCount ==
  ASSUME NEW S, IsFiniteSet(S), NEW P, IsFiniteSet(P), NEW key, \A p \in P : key[p] \in S,
         NEW f, \A x \in S : f[x] = Cardinality(Of(P, key, x)), NEW iter, Adds(iter, S, f)
  PROVE  iter[S] = Cardinality(P)
<1>1. Cardinality(Among(P, key, {})) = 0
  <2>1. Among(P, key, {}) = {}
    BY DEF Among
  <2> QED
    BY <2>1, FS_EmptySet
<1> DEFINE T == {n \in Nat : \E s \in SUBSET S : Cardinality(s) = n /\ iter[s] # Cardinality(Among(P, key, s))}
<1>5. T = {}
  <2> SUFFICES ASSUME T # {} PROVE FALSE
    OBVIOUS
  <2>1. Min(T) \in T /\ \A m \in T : Min(T) <= m
    <3>1. T \in SUBSET Int /\ 0 \in Int /\ \A m \in T : 0 <= m
      OBVIOUS
    <3> HIDE DEF T
    <3> QED
      BY <3>1, MinIs
  <2>2. PICK s \in SUBSET S : Cardinality(s) = Min(T) /\ iter[s] # Cardinality(Among(P, key, s))
    BY <2>1
  <2>3. s # {}
    BY <1>1, <2>2 DEF Adds
  <2> DEFINE x == CHOOSE x \in s : TRUE
  <2>4. x \in s
    BY <2>3
  <2>5. iter[s] = f[x] + iter[s \ {x}]
    BY <2>3 DEF Adds
  <2> HIDE DEF x
  <2>6. IsFiniteSet(s) /\ Cardinality(s) \in Nat
    BY FS_Subset, FS_CardinalityType
  <2>7. Cardinality(s \ {x}) = Cardinality(s) - 1 /\ Cardinality(s \ {x}) \in Nat /\ s \ {x} \in SUBSET S
    BY <2>4, <2>6, FS_RemoveElement, FS_CardinalityType
  <2>8. ~ (Cardinality(s \ {x}) \in T)
    <3> HIDE DEF T
    <3>1. Cardinality(s \ {x}) \in T => Min(T) <= Cardinality(s \ {x})
      BY <2>1
    <3> QED
      BY <2>2, <2>6, <2>7, <3>1
  <2>9. iter[s \ {x}] = Cardinality(Among(P, key, s \ {x}))
    BY <2>7, <2>8
  <2>10. f[x] = Cardinality(Of(P, key, x))
    BY <2>4
  <2> QED
    BY <2>2, <2>4, <2>5, <2>9, <2>10, AmongLess
<1>6. iter[S] = Cardinality(Among(P, key, S))
  <2>1. Cardinality(S) \in Nat
    BY FS_CardinalityType
  <2> QED
    BY <1>5, <2>1
<1>7. Among(P, key, S) = P
  BY DEF Among
<1> QED
  BY <1>6, <1>7

-----------------------------------------------------------------------------
(***************************************************************************)
(* The coefficient                                                         *)
(***************************************************************************)
\* The rows of a table: what two raters said of the items of B.
Table(B, a, b) == {[of |-> i, first |-> a[i], second |-> b[i]] : i \in B}
Agreed(B, a, b) == {i \in B : a[i] = b[i]}
Crossed(B, a, b) == {at \in B \X B : a[at[1]] = b[at[2]]}

\* How often both raters give a label.
Weight(rows, label) ==
  Cardinality({row \in rows : row.first = label}) * Cardinality({row \in rows : row.second = label})
Weighed(iter, S, rows) ==
  iter = [s \in SUBSET S |->
            IF s = {} THEN 0
            ELSE Weight(rows, CHOOSE x \in s : TRUE) + iter[s \ {CHOOSE x \in s : TRUE}]]

\* A table with a row for each item.
Tallies(rows, B, a, b) ==
  /\ Cardinality(rows) = Cardinality(B) /\ IsFiniteSet(rows)
  /\ Cardinality({row \in rows : row.first = row.second}) = Cardinality(Agreed(B, a, b))
  /\ \A x : /\ Cardinality({row \in rows : row.first = x}) = Cardinality({i \in B : a[i] = x})
            /\ Cardinality({row \in rows : row.second = x}) = Cardinality({i \in B : b[i] = x})

\* So it counts as its items do.
LEMMA RowsOfTable ==
  ASSUME NEW B, IsFiniteSet(B), NEW a, NEW b
  PROVE  Tallies(Table(B, a, b), B, a, b)
<1> DEFINE Row(i) == [of |-> i, first |-> a[i], second |-> b[i]]
           rows == Table(B, a, b)
<1>1. \A i : Row(i).of = i /\ Row(i).first = a[i] /\ Row(i).second = b[i]
  OBVIOUS
<1>2. rows = {Row(i) : i \in B}
  BY DEF Table
<1> HIDE DEF Row, rows
<1>3. ASSUME NEW C \in SUBSET B, NEW T \in SUBSET rows, \A i \in B : i \in C <=> Row(i) \in T
      PROVE  IsFiniteSet(T) /\ Cardinality(T) = Cardinality(C)
  <2> DEFINE f == [i \in C |-> Row(i)]
  <2>1. IsFiniteSet(C)
    BY FS_Subset
  <2>2. f \in [C -> T] /\ \A i \in C : f[i] = Row(i)
    BY <1>3
  <2>3. \A x, y \in C : f[x] = f[y] => x = y
    BY <1>1, <2>2
  <2>4. \A z \in T : \E x \in C : f[x] = z
    BY <1>2, <1>3, <2>2
  <2> HIDE DEF f
  <2> QED
    BY <2>1, <2>2, <2>3, <2>4, SameSize
<1>4. IsFiniteSet(rows) /\ Cardinality(rows) = Cardinality(B)
  BY <1>2, <1>3
<1>5. Cardinality({row \in rows : row.first = row.second}) = Cardinality(Agreed(B, a, b))
  <2>1. \A i \in B : i \in Agreed(B, a, b) <=> Row(i) \in {row \in rows : row.first = row.second}
    BY <1>1, <1>2 DEF Agreed
  <2>2. Agreed(B, a, b) \in SUBSET B /\ {row \in rows : row.first = row.second} \in SUBSET rows
    BY DEF Agreed
  <2> QED
    BY <1>3, <2>1, <2>2
<1>6. ASSUME NEW x
      PROVE  /\ Cardinality({row \in rows : row.first = x}) = Cardinality({i \in B : a[i] = x})
             /\ Cardinality({row \in rows : row.second = x}) = Cardinality({i \in B : b[i] = x})
  <2>1. \A i \in B : i \in {k \in B : a[k] = x} <=> Row(i) \in {row \in rows : row.first = x}
    BY <1>1, <1>2
  <2>2. \A i \in B : i \in {k \in B : b[k] = x} <=> Row(i) \in {row \in rows : row.second = x}
    BY <1>1, <1>2
  <2>3. /\ {k \in B : a[k] = x} \in SUBSET B /\ {row \in rows : row.first = x} \in SUBSET rows
        /\ {k \in B : b[k] = x} \in SUBSET B /\ {row \in rows : row.second = x} \in SUBSET rows
    OBVIOUS
  <2> QED
    BY <1>3, <2>1, <2>2, <2>3
<1> QED
  BY <1>4, <1>5, <1>6 DEF rows, Tallies

\* The coefficient of a table, counted item by item and pair by pair.
LEMMA KappaIs ==
  ASSUME NEW B, IsFiniteSet(B), NEW a, NEW b
  PROVE  LET n == Cardinality(B)
             agree == Cardinality(Agreed(B, a, b))
             chance == Cardinality(Crossed(B, a, b))
         IN /\ n \in Nat /\ agree \in Nat /\ chance \in Nat /\ chance <= n * n
            /\ Kappa(Table(B, a, b)) =
                 IF chance = n * n THEN None ELSE Rounded(n * agree - chance, n * n - chance)
<1> DEFINE rows == Table(B, a, b)
           S == {row.first : row \in rows}
           P == Crossed(B, a, b)
           key == [at \in P |-> a[at[1]]]
           f == [x \in S |-> Weight(rows, x)]
           n == Cardinality(B)
           iter == CHOOSE g : Weighed(g, S, rows)
<1>1. /\ Cardinality(rows) = n /\ IsFiniteSet(rows)
      /\ Cardinality({row \in rows : row.first = row.second}) = Cardinality(Agreed(B, a, b))
      /\ \A x : Weight(rows, x) = Cardinality({i \in B : a[i] = x}) * Cardinality({i \in B : b[i] = x})
  <2>1. \A x : Weight(rows, x) = Cardinality({row \in rows : row.first = x})
                                   * Cardinality({row \in rows : row.second = x})
    BY DEF Weight
  <2> HIDE DEF rows
  <2>2. /\ Cardinality(rows) = n /\ IsFiniteSet(rows)
        /\ Cardinality({row \in rows : row.first = row.second}) = Cardinality(Agreed(B, a, b))
        /\ \A x : /\ Cardinality({row \in rows : row.first = x}) = Cardinality({i \in B : a[i] = x})
                  /\ Cardinality({row \in rows : row.second = x}) = Cardinality({i \in B : b[i] = x})
    <3>1. Tallies(rows, B, a, b)
      BY RowsOfTable DEF rows
    <3> QED
      BY <3>1 DEF Tallies
  <2> QED
    BY <2>1, <2>2
<1>2. S = {a[i] : i \in B} /\ IsFiniteSet(S)
  <2>1. S = {a[i] : i \in B}
    <3>1. ASSUME NEW x \in S PROVE x \in {a[i] : i \in B}
      <4>1. PICK row \in rows : x = row.first
        OBVIOUS
      <4>2. PICK i \in B : row = [of |-> i, first |-> a[i], second |-> b[i]]
        BY <4>1 DEF Table
      <4> QED
        BY <4>1, <4>2
    <3>2. ASSUME NEW i \in B PROVE a[i] \in S
      <4> DEFINE row == [of |-> i, first |-> a[i], second |-> b[i]]
      <4>1. row \in rows /\ row.first = a[i]
        BY DEF Table
      <4> QED
        BY <4>1
    <3> QED
      BY <3>1, <3>2
  <2> DEFINE g == [i \in B |-> a[i]]
  <2>2. g \in Surjection(B, S)
    BY <2>1 DEF Surjection
  <2>3. IsFiniteSet(S)
    <3> HIDE DEF g, S
    <3> QED
      BY <2>2, FS_Surjection
  <2> QED
    BY <2>1, <2>3
<1>3. /\ P \in SUBSET (B \X B) /\ IsFiniteSet(P) /\ Cardinality(P) \in Nat /\ Cardinality(P) <= n * n
      /\ n \in Nat /\ Cardinality(Agreed(B, a, b)) \in Nat
  <2>1. P \in SUBSET (B \X B) /\ Agreed(B, a, b) \in SUBSET B
    BY DEF Crossed, Agreed
  <2> HIDE DEF P
  <2>2. IsFiniteSet(B \X B) /\ Cardinality(B \X B) = n * n
    BY FS_Product
  <2>3. IsFiniteSet(P) /\ Cardinality(P) <= n * n
    BY <2>1, <2>2, FS_Subset
  <2>4. IsFiniteSet(Agreed(B, a, b))
    BY <2>1, FS_Subset
  <2> QED
    BY <2>1, <2>3, <2>4, FS_CardinalityType
<1>4. \A x \in S : f[x] = Cardinality(Of(P, key, x))
  <2> SUFFICES ASSUME NEW x \in S PROVE Weight(rows, x) = Cardinality(Of(P, key, x))
    OBVIOUS
  <2> DEFINE A == {i \in B : a[i] = x}
             C == {i \in B : b[i] = x}
  <2>1. Of(P, key, x) = A \X C
    BY DEF Of, Crossed
  <2>2. IsFiniteSet(A) /\ IsFiniteSet(C)
    BY FS_Subset
  <2>3. Cardinality(A \X C) = Cardinality(A) * Cardinality(C)
    <3> HIDE DEF A, C
    <3> QED
      BY <2>2, FS_Product
  <2> QED
    BY <1>1, <2>1, <2>3
<1>5. \A p \in P : key[p] \in S
  BY <1>2 DEF Crossed
<1>6. \A g : Weighed(g, S, rows) <=> Adds(g, S, f)
  <2> SUFFICES ASSUME NEW g PROVE Weighed(g, S, rows) <=> Adds(g, S, f)
    OBVIOUS
  <2>1. \A s \in SUBSET S : s # {} => f[CHOOSE x \in s : TRUE] = Weight(rows, CHOOSE x \in s : TRUE)
    <3> SUFFICES ASSUME NEW s \in SUBSET S, s # {}
                 PROVE  f[CHOOSE x \in s : TRUE] = Weight(rows, CHOOSE x \in s : TRUE)
      OBVIOUS
    <3>1. (CHOOSE x \in s : TRUE) \in S
      OBVIOUS
    <3> QED
      BY <3>1
  <2> HIDE DEF f, S, rows
  <2> QED
    BY <2>1 DEF Weighed, Adds
<1>7. MapThenSumSet(LAMBDA label : Weight(rows, label), S) = iter[S]
  <2> HIDE DEF S, rows
  <2> QED
    BY DEF MapThenSumSet, MapThenFoldSet, Weighed
<1> HIDE DEF P, S, key, f
<1>8. iter[S] = Cardinality(P)
  <2>1. \E g : Adds(g, S, f)
    BY <1>3, <1>4, AddsExist
  <2>2. Weighed(iter, S, rows)
    BY <1>6, <2>1
  <2>3. Adds(iter, S, f)
    BY <1>6, <2>2
  <2> HIDE DEF iter
  <2>4. IsFiniteSet(S) /\ IsFiniteSet(P)
    BY <1>2, <1>3
  <2> QED
    BY <1>4, <1>5, <2>3, <2>4, AddsCount
<1> USE DEF S
<1>9. Kappa(rows) = LET chance == MapThenSumSet(LAMBDA label : Weight(rows, label), S)
                        agree == Cardinality({row \in rows : row.first = row.second})
                    IN IF chance = Cardinality(rows) * Cardinality(rows) THEN None
                       ELSE Rounded(Cardinality(rows) * agree - chance,
                                    Cardinality(rows) * Cardinality(rows) - chance)
  <2> HIDE DEF rows
  <2> QED
    BY DEF Kappa, Weight
<1> QED
  BY <1>1, <1>3, <1>7, <1>8, <1>9 DEF P

\* Rounding reaches a threshold where what is rounded is no more than half a
\* unit below it.
LEMMA RoundedReaches ==
  ASSUME NEW x \in Int, NEW d \in Nat \ {0}, NEW m \in Nat
  PROVE  Rounded(x, d) \in Int /\ (Rounded(x, d) >= m <=> 2000 * x + d >= 2 * m * d)
<1> DEFINE y == 2000 * x + d
           e == 2 * d
           q == y \div e
<1>1. y \in Int /\ e \in Nat \ {0} /\ q \in Int /\ e * q <= y /\ y < e * q + e /\ Rounded(x, d) = q
  BY DEF Rounded
<1>2. e * m = 2 * m * d
  OBVIOUS
<1> HIDE DEF y, e, q
<1>3. q >= m => y >= e * m
  <2> SUFFICES ASSUME q >= m PROVE y >= e * m
    OBVIOUS
  <2>1. e * q >= e * m
    BY <1>1
  <2> QED
    BY <1>1, <2>1
<1>4. y >= e * m => q >= m
  <2> SUFFICES ASSUME ~ (q >= m) PROVE y < e * m
    BY <1>1
  <2>1. q + 1 <= m
    BY <1>1
  <2>2. e * (q + 1) <= e * m
    BY <1>1, <2>1
  <2>3. e * (q + 1) = e * q + e
    BY <1>1
  <2> QED
    BY <1>1, <2>2, <2>3
<1>5. q >= m <=> y >= 2 * m * d
  BY <1>2, <1>3, <1>4
<1> QED
  BY <1>1, <1>5 DEF y

-----------------------------------------------------------------------------
(***************************************************************************)
(* The verdict                                                             *)
(***************************************************************************)
LabelsOK(labels) == labels \in Seq(Range(labels)) /\ \A line \in Range(labels) : line.by \in Nat

\* The first label of the first labeler is who speaks for people.
LEMMA PeopleAre ==
  ASSUME NEW labels, LabelsOK(labels), NEW item \in Items
  PROVE  Human(labels, item) = People(labels, item)
<1> DEFINE who == {n \in DOMAIN labels : labels[n].item = item}
           names == {labels[n].by : n \in who}
           lines == {n \in who : labels[n].by = Min(names)}
           Foremost(m) == \A other \in who :
             \/ labels[m].by < labels[other].by
             \/ labels[m].by = labels[other].by /\ m <= other
<1>1. DOMAIN labels = 1..Len(labels) /\ Len(labels) \in Nat
      /\ \A n \in DOMAIN labels : labels[n].by \in Nat
  BY DEF LabelsOK, Range
<1>2. None \notin Positions \cup {Abstain}
  BY ReportAssumption
<1>3. CASE who = {}
  BY <1>3 DEF Human, LabelOf, People
<1>4. CASE who # {}
  <2>1. names \in SUBSET Int /\ names # {} /\ 0 \in Int /\ \A x \in names : 0 <= x
    <3>1. ASSUME NEW x \in names PROVE x \in Nat
      <4>1. PICK n \in who : x = labels[n].by
        OBVIOUS
      <4> QED
        BY <1>1, <4>1
    <3>2. names # {}
      BY <1>4
    <3> HIDE DEF names
    <3> QED
      BY <3>1, <3>2
  <2>2. Min(names) \in names /\ \A x \in names : Min(names) <= x
    <3> HIDE DEF names
    <3> QED
      BY <2>1, MinIs
  <2>3. lines \in SUBSET Int /\ lines # {} /\ \A n \in lines : 0 <= n
    <3>1. \A n \in lines : n \in Nat
      BY <1>1
    <3>2. lines # {}
      <4>1. PICK n \in who : Min(names) = labels[n].by
        BY <2>2
      <4>2. n \in lines
        BY <4>1
      <4> QED
        BY <4>2
    <3> HIDE DEF lines
    <3> QED
      BY <3>1, <3>2
  <2>4. Min(lines) \in lines /\ \A n \in lines : Min(lines) <= n
    <3> HIDE DEF lines
    <3> QED
      BY <2>3, MinIs
  <2> DEFINE first == Min(lines)
  <2>5. first \in who /\ Foremost(first)
    <3>1. first \in who /\ labels[first].by = Min(names)
      BY <2>4
    <3>2. ASSUME NEW other \in who
          PROVE  \/ labels[first].by < labels[other].by
                 \/ labels[first].by = labels[other].by /\ first <= other
      <4>1. labels[other].by \in names /\ Min(names) <= labels[other].by
        BY <2>2
      <4>2. labels[other].by = Min(names) => first <= other
        BY <2>4
      <4>3. labels[other].by \in Nat /\ labels[first].by \in Nat
        BY <1>1, <3>1
      <4> QED
        BY <3>1, <4>1, <4>2, <4>3
    <3> HIDE DEF first
    <3> QED
      BY <3>1, <3>2
  <2> HIDE DEF first
  <2>6. \A m \in who : Foremost(m) => m = first
    <3> SUFFICES ASSUME NEW m \in who, Foremost(m) PROVE m = first
      OBVIOUS
    <3>1. /\ labels[m].by \in Nat /\ labels[first].by \in Nat /\ m \in Int /\ first \in Int
          /\ labels[m].by < labels[first].by \/ (labels[m].by = labels[first].by /\ m <= first)
          /\ labels[first].by < labels[m].by \/ (labels[first].by = labels[m].by /\ first <= m)
      BY <1>1, <2>5
    <3> QED
      BY <3>1
  <2>7. first = CHOOSE m \in who : Foremost(m)
    <3> HIDE DEF who, Foremost
    <3> QED
      BY <2>5, <2>6
  <2>8. LabelOf(labels, item) = Said(labels[first].choice)
    BY <1>4 DEF LabelOf, first
  <2>9. People(labels, item) = Said(labels[first].choice)
    BY <1>4, <2>7 DEF People, Said
  <2>10. LabelOf(labels, item) # None
    BY <1>2, <2>8 DEF Said
  <2> QED
    BY <2>8, <2>9, <2>10 DEF Human
<1> QED
  BY <1>3, <1>4

\* The items a judge's runs are measured on, what it said, and what people
\* said of them.
Entries(labels, runs) == [i \in Items |-> Measurement(labels, i, runs[i])]
Kept(runs) == {i \in Items : runs[i] # <<>> /\ runs[i][1].kind \in {"selected", "no_candidate"}}
Chosen(runs) == [i \in Kept(runs) |->
  IF runs[i][1].kind = "selected" THEN runs[i][1].candidate ELSE Abstain]
Folk(labels) == [i \in Items |-> People(labels, i)]
BothSaid(labels, runs) == {i \in Kept(runs) : Folk(labels)[i] # None}

\* The table of the judge against people has a row for each of those.
LEMMA HumanTable ==
  ASSUME NEW labels, LabelsOK(labels), NEW runs
  PROVE  LET items == Entries(labels, runs)
         IN /\ DOMAIN items = Items /\ MeasuredItems(items) = Kept(runs)
            /\ HumanRows(items) = Table(BothSaid(labels, runs), Chosen(runs), Folk(labels))
<1> DEFINE items == Entries(labels, runs)
           B == BothSaid(labels, runs)
<1>1. /\ DOMAIN items = Items
      /\ \A i \in Items : items[i].runs = runs[i] /\ items[i].human = Folk(labels)[i]
  BY PeopleAre DEF Entries, Measurement, Folk
<1> HIDE DEF items
<1>2. MeasuredItems(items) = Kept(runs)
  BY <1>1 DEF MeasuredItems, IsMeasured, Measured, Kept
<1>3. HumanRows(items) = {[of |-> i, first |-> Category(items[i].runs[1]), second |-> items[i].human] :
                            i \in {m \in MeasuredItems(items) : items[m].human # None}}
  BY DEF HumanRows, Against
<1>4. {m \in MeasuredItems(items) : items[m].human # None} = B
  BY <1>1, <1>2 DEF BothSaid, Kept
<1>5. \A i \in B : Category(items[i].runs[1]) = Chosen(runs)[i] /\ items[i].human = Folk(labels)[i]
  BY <1>1 DEF BothSaid, Kept, Chosen, Category
<1> HIDE DEF B
<1>6. HumanRows(items) = Table(B, Chosen(runs), Folk(labels))
  BY <1>3, <1>4, <1>5 DEF Table
<1> QED
  BY <1>1, <1>2, <1>6 DEF items, B

\* The verdict of a report over those items.
Follows(says, labels, runs) ==
  LET both == BothSaid(labels, runs)
      n == Cardinality(both)
      agree == Cardinality(Agreed(both, Chosen(runs), Folk(labels)))
      chance == Cardinality(Crossed(both, Chosen(runs), Folk(labels)))
      space == n * n - chance
  IN /\ says.nHuman = n
     /\ says.verdict = "calibrated" <=>
          /\ 100 * Cardinality(Items \ Kept(runs)) <= Budget * Cardinality(Items)
          /\ space > 0
          /\ 2000 * (n * agree - chance) + space >= 2 * MinKappa * space

\* The property counts the same sets.
LEMMA CountedApart ==
  ASSUME NEW says, NEW labels, NEW runs, Follows(says, labels, runs)
  PROVE  FollowFrom(says, labels, runs)
<1> DEFINE kept == {i \in Items : runs[i] # <<>> /\ runs[i][1].kind \in {"selected", "no_candidate"}}
           people == [i \in Items |-> People(labels, i)]
           chosen == [i \in kept |-> IF runs[i][1].kind = "selected" THEN runs[i][1].candidate ELSE Abstain]
           both == {i \in kept : people[i] # None}
           agreed == {i \in both : chosen[i] = people[i]}
           crossed == {at \in both \X both : chosen[at[1]] = people[at[2]]}
<1>1. kept = Kept(runs) /\ people = Folk(labels)
  BY DEF Kept, Folk
<1>2. chosen = Chosen(runs)
  BY <1>1 DEF Chosen
<1>3. both = BothSaid(labels, runs)
  BY <1>1 DEF BothSaid
<1>4. agreed = Agreed(both, chosen, people) /\ crossed = Crossed(both, chosen, people)
  BY DEF Agreed, Crossed
<1> HIDE DEF kept, people, chosen, both, agreed, crossed
<1>5. /\ says.nHuman = Cardinality(both)
      /\ says.verdict = "calibrated" <=>
           LET n == Cardinality(both)
               space == n * n - Cardinality(crossed)
           IN /\ 100 * Cardinality(Items \ kept) <= Budget * Cardinality(Items)
              /\ space > 0
              /\ 2000 * (n * Cardinality(agreed) - Cardinality(crossed)) + space >= 2 * MinKappa * space
  BY <1>1, <1>2, <1>3, <1>4 DEF Follows
<1> QED
  BY <1>5 DEF FollowFrom, kept, people, chosen, both, agreed, crossed

\* No number is mistaken for a coefficient that has no value.
NoneIsNoNumber == None \notin Int

\* It is the one that follows from the answers.
LEMMA VerdictIs ==
  ASSUME NoneIsNoNumber, NEW labels, LabelsOK(labels), NEW runs, NEW carried
  PROVE  Follows(Report(Entries(labels, runs), carried), labels, runs)
<1> DEFINE items == Entries(labels, runs)
           B == BothSaid(labels, runs)
           a == Chosen(runs)
           b == Folk(labels)
           n == Cardinality(B)
           agree == Cardinality(Agreed(B, a, b))
           chance == Cardinality(Crossed(B, a, b))
           space == n * n - chance
           human == Kappa(HumanRows(items))
           says == Report(items, carried)
           lost == Cardinality(Items \ Kept(runs))
           all == Cardinality(Items)
<1>1. /\ DOMAIN items = Items /\ MeasuredItems(items) = Kept(runs)
      /\ HumanRows(items) = Table(B, a, b)
  BY HumanTable
<1>2. IsFiniteSet(B) /\ IsFiniteSet(Items \ Kept(runs))
  <2>1. B \in SUBSET Items /\ (Items \ Kept(runs)) \in SUBSET Items
    BY DEF BothSaid, Kept
  <2> QED
    BY <2>1, ReportAssumption, FS_Subset
<1>3. lost \in Nat /\ all \in Nat
  BY <1>2, ReportAssumption, FS_CardinalityType
<1>4. says.nHuman = Cardinality(HumanRows(items)) /\ says.verdict = Verdict(items)
  <2> HIDE DEF items
  <2> QED
    BY DEF Report
<1>5. OverBudget(items) <=> 100 * lost > Budget * all
  BY <1>1 DEF OverBudget
<1> HIDE DEF items
<1>6. Verdict(items) = "calibrated" <=> ~ OverBudget(items) /\ human # None /\ human >= MinKappa
  BY DEF Verdict
<1>7. Cardinality(HumanRows(items)) = n
  <2>1. Tallies(Table(B, a, b), B, a, b)
    <3> HIDE DEF B, a, b
    <3> QED
      BY <1>2, RowsOfTable
  <2> QED
    BY <1>1, <2>1 DEF Tallies
<1>8. /\ n \in Nat /\ agree \in Nat /\ chance \in Nat /\ chance <= n * n
      /\ human = IF chance = n * n THEN None ELSE Rounded(n * agree - chance, n * n - chance)
  BY <1>1, <1>2, KappaIs
<1>9. MinKappa \in Nat /\ Budget \in Nat
  BY ReportAssumption
<1> HIDE DEF B, a, b, n, agree, chance, human, says, lost, all
<1>10. n * n \in Nat /\ n * agree \in Nat
  BY <1>8
<1>11. human # None /\ human >= MinKappa <=> space > 0 /\ 2000 * (n * agree - chance) + space >= 2 * MinKappa * space
  <2>1. CASE chance = n * n
    BY <1>8, <1>10, <2>1
  <2>2. CASE chance # n * n
    <3>1. space \in Nat \ {0} /\ n * agree - chance \in Int /\ human = Rounded(n * agree - chance, space)
      BY <1>8, <1>10, <2>2
    <3> HIDE DEF space
    <3>2. human \in Int
          /\ (human >= MinKappa <=> 2000 * (n * agree - chance) + space >= 2 * MinKappa * space)
      BY <1>9, <3>1, RoundedReaches
    <3> QED
      BY <3>1, <3>2 DEF NoneIsNoNumber
  <2> QED
    BY <2>1, <2>2
<1>12. ~ OverBudget(items) <=> 100 * lost <= Budget * all
  <2>1. 100 * lost \in Nat /\ Budget * all \in Nat
    BY <1>3, <1>9
  <2> QED
    BY <1>5, <2>1
<1>13. /\ says.nHuman = n
       /\ says.verdict = "calibrated" <=>
            /\ 100 * lost <= Budget * all /\ space > 0
            /\ 2000 * (n * agree - chance) + space >= 2 * MinKappa * space
  BY <1>4, <1>6, <1>7, <1>11, <1>12
<1> QED
  BY <1>13 DEF Follows, B, a, b, n, agree, chance, says, lost, all, items

\* The report of a calibration is about its labels and its traces.
Told(job, runs) ==
  /\ job.stage = "judging" => "labels" \in DOMAIN job /\ LabelsOK(job.labels)
  /\ job.stage \in Writing /\ job.id # None =>
       /\ "labels" \in DOMAIN job /\ LabelsOK(job.labels)
       /\ \E carried : job.result.report.numbers = Report(Entries(job.labels, runs), carried)

AllTold(jb, tr) == \A j \in DOMAIN jb : Told(jb[j], tr[j])

\* It stays so as a command goes on.
LEMMA TellsOn ==
  ASSUME MInv, NEW j \in DOMAIN jobs, Step(j) \/ Stop(j), Told(jobs[j], traces[j])
  PROVE  \E new : jobs' = [jobs EXCEPT ![j] = new] /\ Told(new, traces'[j])
<1> DEFINE Goal == \E new : jobs' = [jobs EXCEPT ![j] = new] /\ Told(new, traces'[j])
<1>1. IsSeq(jobs) /\ JobOK(jobs[j])
  BY DEF MInv, Shaped
<1>2. ASSUME NEW i \in Items, NEW state, jobs[j].stage = "judging", Put(j, i, state) PROVE Goal
  <2> DEFINE new == [jobs[j] EXCEPT !.items[i] = state]
  <2>1. "items" \in DOMAIN jobs[j] /\ "labels" \in DOMAIN jobs[j] /\ "stage" \in DOMAIN jobs[j]
    BY <1>1, <1>2 DEF JobOK, Told
  <2>2. /\ jobs' = [jobs EXCEPT ![j] = new] /\ new.labels = jobs[j].labels /\ new.stage = "judging"
        /\ DOMAIN new = DOMAIN jobs[j]
    BY <1>2, <2>1 DEF Put
  <2> HIDE DEF new
  <2>3. Told(new, traces'[j])
    BY <1>2, <2>1, <2>2 DEF Told, Writing
  <2> QED
    BY <2>2, <2>3
<1>3. ASSUME UNCHANGED jobs, jobs[j].stage = "judging" PROVE Goal
  <2>1. jobs' = [jobs EXCEPT ![j] = jobs[j]]
    BY <1>1, <1>3, SeqIs
  <2>2. Told(jobs[j], traces'[j])
    BY <1>3 DEF Told, Writing
  <2> QED
    BY <2>1, <2>2
<1>4. ASSUME End(j) PROVE Goal
  <2> DEFINE new == [stage |-> "ended"]
  <2>1. jobs' = [jobs EXCEPT ![j] = new] /\ Told(new, traces'[j])
    BY <1>4 DEF End, Told, Writing
  <2> HIDE DEF new
  <2> QED
    BY <2>1
<1>5. ASSUME NEW stage \in Writing, To(j, stage), jobs[j].stage \in Writing, UNCHANGED traces
      PROVE  Goal
  <2> DEFINE new == [jobs[j] EXCEPT !.stage = stage]
  <2>1. jobs' = [jobs EXCEPT ![j] = new]
    BY <1>5 DEF To
  <2>2. Proceeds(jobs[j], new)
    BY <1>5, ToProceeds
  <2> HIDE DEF new
  <2>3. /\ new.result = jobs[j].result /\ new.id = jobs[j].id /\ DOMAIN new = DOMAIN jobs[j]
        /\ "labels" \in DOMAIN jobs[j] => new.labels = jobs[j].labels
        /\ new.stage \in Writing /\ new.stage # "judging"
    BY <2>2 DEF Proceeds, Writing
  <2>4. Told(new, traces'[j])
    BY <1>5, <2>3 DEF Told
  <2> QED
    BY <2>1, <2>4
<1>6. CASE Assemble(j)
  <2> DEFINE items == [i \in Items |-> Measurement(jobs[j].labels, i, traces[j][i])]
  <2>1. jobs[j].stage = "judging" /\ UNCHANGED traces
    BY <1>6 DEF Assemble, Stage
  <2>2. PICK carried, entries :
          jobs' = [jobs EXCEPT ![j].stage = "report",
                               ![j].result = [report  |-> [by |-> j, numbers |-> Report(items, carried)],
                                              journal |-> [by |-> j, entries |-> entries]]]
    BY <1>6 DEF Assemble
  <2>3. items = Entries(jobs[j].labels, traces[j])
    BY DEF Entries
  <2> DEFINE numbers == Report(items, carried)
             result == [report  |-> [by |-> j, numbers |-> numbers],
                        journal |-> [by |-> j, entries |-> entries]]
             new == [jobs[j] EXCEPT !.stage = "report", !.result = result]
  <2>4. result.report.numbers = Report(Entries(jobs[j].labels, traces[j]), carried)
    BY <2>3
  <2>5. {"stage", "id", "target", "result", "labels"} \subseteq DOMAIN jobs[j]
    BY <1>1, <2>1 DEF JobOK, Told
  <2> HIDE DEF items
  <2>6. jobs' = [jobs EXCEPT ![j] = new]
    BY <2>2, <2>5
  <2> HIDE DEF result, numbers
  <2>7. new.stage = "report" /\ new.result = result /\ new.labels = jobs[j].labels /\ DOMAIN new = DOMAIN jobs[j]
    BY <2>5
  <2> HIDE DEF new
  <2>8. Told(new, traces'[j])
    BY <2>1, <2>4, <2>5, <2>7 DEF Told
  <2> QED
    BY <2>6, <2>8
<1>7. ASSUME NEW i \in Items, Take(j, i) \/ Answer(j, i) \/ Fail(j, i) PROVE Goal
  BY <1>2, <1>3, <1>7 DEF Take, Answer, Fail, Stage
<1>8. CASE OpenReport(j) \/ WriteReport(j)
  BY <1>5, <1>8 DEF OpenReport, WriteReport, Stage, Writing
<1>9. CASE OpenJournal(j) \/ WriteJournal(j)
  BY <1>4, <1>5, <1>9 DEF OpenJournal, WriteJournal, Stage, Writing
<1>10. CASE OpenDocument(j) \/ WriteDocument(j) \/ Stop(j)
  BY <1>4, <1>5, <1>10 DEF OpenDocument, WriteDocument, Stop, Stage, Writing
<1> QED
  BY <1>6, <1>7, <1>8, <1>9, <1>10 DEF Step

\* A command leaves the traces of others alone.
LEMMA OthersTraces ==
  ASSUME MInv, NEW j \in DOMAIN jobs, Step(j) \/ Stop(j)
  PROVE  \A k \in DOMAIN jobs : k # j => traces'[k] = traces[k]
<1>1. IsSeq(traces) /\ DOMAIN traces = DOMAIN jobs
  BY DEF MInv, Shaped
<1>2. ASSUME NEW i \in Items, Answer(j, i) PROVE \A k \in DOMAIN jobs : k # j => traces'[k] = traces[k]
  BY <1>1, <1>2, SeqIs DEF Answer
<1>3. \/ \E i \in Items : Answer(j, i)
      \/ UNCHANGED traces
  BY DEF Step, Take, Fail, Assemble, OpenReport, WriteReport, OpenJournal, WriteJournal, OpenDocument,
         WriteDocument, Stop
<1> QED
  BY <1>2, <1>3

\* A command that begins.
LEMMA BeginningTells ==
  ASSUME MInv, AllTold(jobs, traces), NEW new, NEW runs, Told(new, runs),
         jobs' = Append(jobs, new), traces' = Append(traces, runs)
  PROVE  AllTold(jobs', traces')
<1>1. IsSeq(jobs) /\ IsSeq(traces) /\ DOMAIN traces = DOMAIN jobs
  BY DEF MInv, Shaped
<1>2. Len(jobs) = Len(traces)
  BY <1>1, SeqIs
<1>3. /\ DOMAIN jobs' = DOMAIN jobs \cup {Len(jobs) + 1}
      /\ jobs'[Len(jobs) + 1] = new /\ \A n \in DOMAIN jobs : jobs'[n] = jobs[n]
  BY <1>1, SeqAppend
<1>4. traces'[Len(jobs) + 1] = runs /\ \A n \in DOMAIN jobs : traces'[n] = traces[n]
  BY <1>1, <1>2, SeqAppend
<1> QED
  BY <1>3, <1>4 DEF AllTold

\* The verdict of every calibration, wherever it stops, is the one that people
\* and the harness gave, counted item by item: a harness that fails is in no
\* coefficient, and too many failures leave no verdict (calibrate.go,
\* assemble and verdict).
THEOREM VerdictFollows == NoneIsNoNumber => (Spec => []VerdictFollowsTheAnswers)
<1> SUFFICES ASSUME NoneIsNoNumber PROVE Spec => []VerdictFollowsTheAnswers
  OBVIOUS
<1> DEFINE Inv == MInv /\ AllTold(jobs, traces)
<1>1. Init => Inv
  BY InitHolds DEF Init, AllTold
<1>2. Inv /\ [Next]_vars => Inv'
  <2> SUFFICES ASSUME MInv, AllTold(jobs, traces), [Next]_vars PROVE AllTold(jobs', traces')
    BY NextKeeps
  <2>1. CASE Tomorrow \/ UNCHANGED vars
    BY <2>1 DEF Tomorrow, vars
  <2>2. ASSUME NEW r \in Requests, NEW source \in DOMAIN dirs \cup {None}, Calibrate(r, source)
        PROVE  AllTold(jobs', traces')
    <3>1. LabelsOK(r.labels)
      BY PanelAssumption DEF LabelsOK
    <3>2. PICK new : jobs' = Append(jobs, new) /\ new.stage = "judging" /\ new.labels = r.labels
                       /\ "labels" \in DOMAIN new
      BY <2>2 DEF Calibrate
    <3>3. Told(new, [i \in Items |-> <<>>])
      BY <3>1, <3>2 DEF Told, Writing
    <3>4. traces' = Append(traces, [i \in Items |-> <<>>])
      BY <2>2 DEF Calibrate
    <3> QED
      BY <3>2, <3>3, <3>4, BeginningTells
  <2>3. ASSUME NEW d \in DOMAIN dirs, Replay(d) PROVE AllTold(jobs', traces')
    <3>1. PICK new : jobs' = Append(jobs, new) /\ new.stage = "report" /\ new.id = None
      BY <2>3 DEF Replay
    <3>2. Told(new, [i \in Items |-> <<>>])
      BY <3>1 DEF Told
    <3>3. traces' = Append(traces, [i \in Items |-> <<>>])
      BY <2>3 DEF Replay
    <3> QED
      BY <3>1, <3>2, <3>3, BeginningTells
  <2>4. ASSUME NEW j \in DOMAIN jobs, Step(j) \/ Stop(j) PROVE AllTold(jobs', traces')
    <3>1. Told(jobs[j], traces[j]) /\ IsSeq(jobs)
      BY DEF AllTold, MInv, Shaped
    <3>2. PICK new : jobs' = [jobs EXCEPT ![j] = new] /\ Told(new, traces'[j])
      BY <2>4, <3>1, TellsOn
    <3>3. /\ DOMAIN jobs' = DOMAIN jobs /\ jobs'[j] = new
          /\ \A k \in DOMAIN jobs : k # j => jobs'[k] = jobs[k]
      BY <3>1, <3>2, SeqIs
    <3>4. \A k \in DOMAIN jobs : k # j => traces'[k] = traces[k]
      BY <2>4, OthersTraces
    <3> QED
      BY <3>2, <3>3, <3>4 DEF AllTold
  <2> QED
    BY <2>1, <2>2, <2>3, <2>4 DEF Next
<1>3. Inv => VerdictFollowsTheAnswers
  <2> SUFFICES ASSUME AllTold(jobs, traces) PROVE VerdictFollowsTheAnswers
    OBVIOUS
  <2>1. ASSUME NEW j \in DOMAIN jobs, jobs[j].stage \in Writing, jobs[j].id # None
        PROVE  Follows(jobs[j].result.report.numbers, jobs[j].labels, traces[j])
    <3>1. LabelsOK(jobs[j].labels)
      BY <2>1 DEF AllTold, Told
    <3>2. PICK carried : jobs[j].result.report.numbers = Report(Entries(jobs[j].labels, traces[j]), carried)
      BY <2>1 DEF AllTold, Told
    <3> QED
      BY <3>1, <3>2, VerdictIs
  <2> QED
    BY <2>1, CountedApart DEF VerdictFollowsTheAnswers, Writing
<1> HIDE DEF Inv
<1> QED
  BY <1>1, <1>2, <1>3, PTL DEF Spec
=============================================================================
