--------------------------- MODULE DecisionProofs ---------------------------
(***************************************************************************)
(* What an edit is decided on: theorems about SplitTest and EditRuns.      *)
(*                                                                         *)
(* SplitTest: what the verdict of a split says, and that it may be read    *)
(* after every pair, for every error rate, resolution, margin, count gate, *)
(* schedule and batch size.                                                *)
(*                                                                         *)
(* EditRuns: what a run makes of two such verdicts, for every set of runs  *)
(* and of document names, when runs and people are at work one after the   *)
(* other: the program takes no lock, and with overlapping runs these do    *)
(* not hold.                                                               *)
(***************************************************************************)
EXTENDS EditRuns, SplitTest, WellFoundedInduction, TLAPS

\* A set of integers that is bounded below has its Min.
LEMMA MinIs ==
  ASSUME NEW S \in SUBSET Int, S # {}, NEW low \in Int, \A x \in S : low <= x
  PROVE  Min(S) \in S /\ \A x \in S : Min(S) <= x
<1> DEFINE T == {n \in Nat : n + low \in S}
<1>1. T \subseteq Nat /\ T # {}
  <2>1. PICK x \in S : TRUE
    OBVIOUS
  <2>2. x - low \in Nat /\ (x - low) + low = x
    BY <2>1
  <2> QED
    BY <2>1, <2>2
<1> DEFINE R == {ss \in Nat \X Nat : ss[1] < ss[2]}
<1>2. IsWellFoundedOn(R, Nat)
  BY NatLessThanWellFounded, Zenon DEF OpToRel
<1> HIDE DEF T
<1>3. PICK n \in T : \A m \in T : ~ (<<m, n>> \in R)
  <2> HIDE DEF R
  <2> QED
    BY <1>1, <1>2, WFMin, Zenon
<1> USE DEF T
<1>4. n + low \in S /\ \A x \in S : n + low <= x
  <2> SUFFICES ASSUME NEW x \in S PROVE n + low <= x
    BY <1>3
  <2>1. x - low \in T
    <3>1. x - low \in Nat /\ (x - low) + low = x
      OBVIOUS
    <3> QED
      BY <3>1
  <2>2. ~ (x - low < n) /\ n \in Nat
    BY <1>3, <2>1
  <2> QED
    BY <2>2
<1>5. \E y \in S : \A x \in S : y <= x
  BY <1>4
<1> QED
  BY <1>5 DEF Min

\* And one that is bounded above its Max.
LEMMA MaxIs ==
  ASSUME NEW S \in SUBSET Int, S # {}, NEW high \in Int, \A x \in S : x <= high
  PROVE  Max(S) \in S /\ \A x \in S : x <= Max(S)
<1> DEFINE T == {-x : x \in S}
<1>1. T \in SUBSET Int /\ T # {} /\ -high \in Int /\ \A x \in T : -high <= x
  <2>1. \A x \in S : -x \in Int /\ -high <= -x
    OBVIOUS
  <2>2. -high \in Int
    OBVIOUS
  <2>3. T # {} /\ \A y \in T : y \in Int /\ -high <= y
    BY <2>1
  <2> QED
    BY <2>2, <2>3
<1>2. Min(T) \in T /\ \A x \in T : Min(T) <= x
  <2> HIDE DEF T
  <2> QED
    BY <1>1, MinIs
<1>3. PICK y \in S : \A x \in S : -y <= -x
  <2>1. PICK y \in S : Min(T) = -y
    BY <1>2
  <2> QED
    BY <1>2, <2>1
<1>4. \A x \in S : y >= x
  BY <1>3
<1> QED
  BY <1>4 DEF Max

-----------------------------------------------------------------------------
(***************************************************************************)
(* The interval on the pass-rate difference                                *)
(***************************************************************************)

\* A confidence sequence contains the observed rate, b in b + c.
LEMMA ThetaBounds ==
  ASSUME NEW b \in Nat, NEW c \in Nat, NEW level
  PROVE  LET theta == ThetaCS(b, c, level)
         IN  /\ theta.lo \in 0..Grid /\ theta.lo * (b + c) <= b * Grid
             /\ theta.hi \in 0..Grid /\ theta.hi * (b + c) >= b * Grid
<1> DEFINE theta == ThetaCS(b, c, level)
           n == b + c
           Below == {t \in 0..Grid : t * n <= b * Grid /\ EReachesAt(b, c, t, level)}
           Above == {t \in 0..Grid : t * n >= b * Grid /\ EReachesAt(b, c, t, level)}
<1>1. Grid \in Nat \ {0} /\ n \in Nat /\ b <= n
  BY GateAssumption
<1>2. CASE n = 0
  <2>1. theta = [lo |-> 0, hi |-> Grid] /\ b = 0
    BY <1>2 DEF ThetaCS
  <2> QED
    BY <1>1, <1>2, <2>1
<1>3. CASE n # 0
  <2>1. theta.lo = Max(Below) /\ theta.hi = Min(Above)
    BY <1>3 DEF ThetaCS
  <2>2. 0 \in Below /\ Grid \in Above
    <3>1. EReachesAt(b, c, 0, level) /\ EReachesAt(b, c, Grid, level)
      BY <1>1 DEF EReachesAt
    <3>2. 0 * n = 0 /\ 0 <= b * Grid /\ b * Grid <= Grid * n
      <4>1. b * Grid \in Nat
        BY <1>1
      <4>2. Grid * n = b * Grid + c * Grid /\ c * Grid \in Nat
        BY <1>1
      <4> QED
        BY <1>1, <4>1, <4>2
    <3> QED
      BY <1>1, <3>1, <3>2
  <2>3. Below \subseteq 0..Grid /\ Above \subseteq 0..Grid
    OBVIOUS
  <2> HIDE DEF Below, Above
  <2>4. Max(Below) \in Below /\ Min(Above) \in Above
    <3>1. Below \in SUBSET Int /\ Below # {} /\ \A x \in Below : x <= Grid
      BY <1>1, <2>2, <2>3
    <3>2. Above \in SUBSET Int /\ Above # {} /\ \A x \in Above : 0 <= x
      BY <1>1, <2>2, <2>3
    <3>3. Max(Below) \in Below
      <4>1. Grid \in Int
        BY <1>1
      <4> QED
        BY <3>1, <4>1, MaxIs
    <3>4. Min(Above) \in Above
      BY <3>2, MinIs
    <3> QED
      BY <3>3, <3>4
  <2> USE DEF Below, Above
  <2> QED
    BY <2>1, <2>4
<1> QED
  BY <1>2, <1>3

\* The lower limit is a corner and below every corner.
LEMMA LowestCorner ==
  ASSUME NEW e \in Evidence, Pairs(e) > 0
  PROVE  DeltaLo(e) \in Int /\ \A corner \in DeltaCorners(e) : DeltaLo(e) <= corner
<1> DEFINE theta == ThetaCS(e.wins, e.losses, 2 * AlphaInv)
           disc  == ThetaCS(Discordant(e), e.ties, 2 * AlphaInv)
<1>1. e.wins \in Nat /\ e.losses \in Nat /\ e.ties \in Nat /\ Discordant(e) \in Nat
  BY DEF Evidence, Discordant
<1>2. Grid \in Nat
  BY GateAssumption
<1>3. {theta.lo, theta.hi, disc.lo, disc.hi} \subseteq 0..Grid
  BY <1>1, ThetaBounds
<1> HIDE DEF theta, disc
<1>4. DeltaCorners(e) = {disc.lo * (2 * theta.lo - Grid), disc.lo * (2 * theta.hi - Grid),
                         disc.hi * (2 * theta.lo - Grid), disc.hi * (2 * theta.hi - Grid)}
  BY DEF DeltaCorners, theta, disc
<1>5. ASSUME NEW d \in 0..Grid, NEW t \in 0..Grid
      PROVE  d * (2 * t - Grid) \in Int /\ -(Grid * Grid) <= d * (2 * t - Grid)
  <2>1. 2 * t - Grid \in Int /\ -Grid <= 2 * t - Grid /\ d \in Nat /\ d <= Grid
    BY <1>2
  <2>2. d * (-Grid) <= d * (2 * t - Grid)
    BY <1>2, <2>1
  <2>3. -(Grid * Grid) <= d * (-Grid)
    BY <1>2, <2>1
  <2> QED
    BY <1>2, <2>1, <2>2, <2>3
<1>6. /\ DeltaCorners(e) \in SUBSET Int /\ DeltaCorners(e) # {}
      /\ \A corner \in DeltaCorners(e) : -(Grid * Grid) <= corner
  BY <1>3, <1>4, <1>5
<1>7. Min(DeltaCorners(e)) \in Int /\ \A corner \in DeltaCorners(e) : Min(DeltaCorners(e)) <= corner
  <2> DEFINE low == -(Grid * Grid)
  <2>1. low \in Int
    BY <1>2
  <2>2. \A corner \in DeltaCorners(e) : low <= corner
    BY <1>6
  <2> HIDE DEF low
  <2>3. /\ Min(DeltaCorners(e)) \in DeltaCorners(e)
        /\ \A corner \in DeltaCorners(e) : Min(DeltaCorners(e)) <= corner
    BY <1>6, <2>1, <2>2, MinIs
  <2> QED
    BY <1>6, <2>3
<1> QED
  BY <1>7 DEF DeltaLo

\* A product is below another when a factor is, the other being at least 0.
LEMMA Scale ==
  ASSUME NEW a \in Int, NEW b \in Int, NEW k \in Nat, a <= b
  PROVE  a * k <= b * k
OBVIOUS

\* Some corner is below the observed difference.
LEMMA CornerBelowObserved ==
  ASSUME NEW e \in Evidence, Pairs(e) > 0
  PROVE  \E corner \in DeltaCorners(e) :
           corner \in Int /\ corner * Pairs(e) <= (e.wins - e.losses) * Grid * Grid
<1> DEFINE theta == ThetaCS(e.wins, e.losses, 2 * AlphaInv)
           disc  == ThetaCS(Discordant(e), e.ties, 2 * AlphaInv)
           n == Discordant(e)
           slope == 2 * theta.lo - Grid
<1>1. /\ e.wins \in Nat /\ e.losses \in Nat /\ e.ties \in Nat /\ Grid \in Nat
      /\ n = e.wins + e.losses /\ Pairs(e) = n + e.ties
  BY GateAssumption DEF Evidence, Discordant, Pairs
<1>2. /\ theta.lo \in 0..Grid /\ theta.lo * n <= e.wins * Grid
      /\ disc.lo \in 0..Grid /\ disc.lo * Pairs(e) <= n * Grid
      /\ disc.hi \in 0..Grid /\ disc.hi * Pairs(e) >= n * Grid
  BY <1>1, ThetaBounds
<1>3. {disc.lo * slope, disc.hi * slope} \subseteq DeltaCorners(e)
  BY DEF DeltaCorners
<1> HIDE DEF theta, disc, n
<1>4. slope \in Int /\ n \in Nat /\ Pairs(e) \in Nat
  BY <1>1, <1>2
<1>5. (n * Grid) * slope <= (e.wins - e.losses) * Grid * Grid
  <2>1. n * slope <= (e.wins - e.losses) * Grid
    <3>1. n * slope = 2 * (theta.lo * n) - n * Grid
      BY <1>1, <1>2, <1>4
    <3>2. (e.wins - e.losses) * Grid = 2 * (e.wins * Grid) - n * Grid
      BY <1>1
    <3>3. theta.lo * n \in Int /\ e.wins * Grid \in Int /\ n * Grid \in Int
      BY <1>1, <1>2, <1>4
    <3> QED
      BY <1>2, <3>1, <3>2, <3>3
  <2>2. (n * slope) * Grid <= ((e.wins - e.losses) * Grid) * Grid
    <3>1. n * slope \in Int /\ (e.wins - e.losses) * Grid \in Int
      BY <1>1, <1>4
    <3> QED
      BY <1>1, <2>1, <3>1, Scale
  <2>3. (n * Grid) * slope = (n * slope) * Grid
    BY <1>1, <1>4
  <2> QED
    BY <2>2, <2>3
<1>6. \E d \in {disc.lo, disc.hi} : (d * slope) * Pairs(e) <= (n * Grid) * slope
  <2>1. CASE slope >= 0
    <3>1. (disc.lo * Pairs(e)) * slope <= (n * Grid) * slope
      <4>1. disc.lo * Pairs(e) \in Int /\ n * Grid \in Int /\ slope \in Nat
        BY <1>1, <1>2, <1>4, <2>1
      <4> QED
        BY <1>2, <4>1, Scale
    <3>2. (disc.lo * slope) * Pairs(e) = (disc.lo * Pairs(e)) * slope
      BY <1>2, <1>4
    <3> QED
      BY <3>1, <3>2
  <2>2. CASE slope < 0
    <3>1. (n * Grid) * (-slope) <= (disc.hi * Pairs(e)) * (-slope)
      <4>1. disc.hi * Pairs(e) \in Int /\ n * Grid \in Int /\ -slope \in Nat
        BY <1>1, <1>2, <1>4, <2>2
      <4> QED
        BY <1>2, <4>1, Scale
    <3>2. /\ (disc.hi * slope) * Pairs(e) = -((disc.hi * Pairs(e)) * (-slope))
          /\ (n * Grid) * slope = -((n * Grid) * (-slope))
      BY <1>1, <1>2, <1>4
    <3>3. (n * Grid) * (-slope) \in Int /\ (disc.hi * Pairs(e)) * (-slope) \in Int
      BY <1>1, <1>2, <1>4
    <3> QED
      BY <3>1, <3>2, <3>3
  <2> QED
    BY <1>4, <2>1, <2>2
<1>7. PICK d \in {disc.lo, disc.hi} : (d * slope) * Pairs(e) <= (n * Grid) * slope
  BY <1>6
<1>8. d * slope \in Int /\ d * slope \in DeltaCorners(e)
  BY <1>2, <1>3, <1>4
<1>9. (d * slope) * Pairs(e) <= (e.wins - e.losses) * Grid * Grid
  <2>1. /\ (d * slope) * Pairs(e) \in Int /\ (n * Grid) * slope \in Int
        /\ (e.wins - e.losses) * Grid * Grid \in Int
    BY <1>1, <1>4, <1>8
  <2> QED
    BY <1>5, <1>7, <2>1
<1> QED
  BY <1>8, <1>9

\* So does the lower limit lie below it.
LEMMA ObservedCovered ==
  ASSUME NEW e \in Evidence, Pairs(e) > 0
  PROVE  /\ DeltaLo(e) \in Int /\ Pairs(e) \in Nat
         /\ DeltaLo(e) * Pairs(e) <= (e.wins - e.losses) * Grid * Grid
<1>1. /\ Pairs(e) \in Nat /\ (e.wins - e.losses) * Grid * Grid \in Int
  BY GateAssumption DEF Evidence, Pairs
<1>2. PICK corner \in DeltaCorners(e) :
        corner \in Int /\ corner * Pairs(e) <= (e.wins - e.losses) * Grid * Grid
  BY CornerBelowObserved
<1>3. DeltaLo(e) \in Int /\ DeltaLo(e) <= corner
  BY LowestCorner
<1>4. DeltaLo(e) * Pairs(e) <= corner * Pairs(e)
  BY <1>1, <1>2, <1>3, Scale
<1>5. DeltaLo(e) * Pairs(e) \in Int /\ corner * Pairs(e) \in Int
  BY <1>1, <1>2, <1>3
<1> QED
  BY <1>1, <1>2, <1>3, <1>4, <1>5

-----------------------------------------------------------------------------
(***************************************************************************)
(* The evidence only grows                                                 *)
(***************************************************************************)

\* A step keeps the evidence in its range and forgets no lost task.
LEMMA EvidenceGrows ==
  ASSUME evidence \in Evidence, [TestNext]_testVars
  PROVE  evidence' \in Evidence /\ evidence'.lost >= evidence.lost
<1>1. CASE FoldCounted
  <2>1. PICK outcome \in PairOutcomes, more \in {0, 1} :
          evidence' = [Observe(evidence, outcome) EXCEPT !.lost = @ + more]
    BY <1>1 DEF FoldCounted
  <2>2. Observe(evidence, outcome) \in Evidence /\ Observe(evidence, outcome).lost = evidence.lost
    BY DEF Observe, Evidence, PairOutcomes, EditWon, Tie, BaselineWon
  <2>3. /\ evidence' = [wins |-> Observe(evidence, outcome).wins,
                        losses |-> Observe(evidence, outcome).losses,
                        ties |-> Observe(evidence, outcome).ties,
                        lost |-> evidence.lost + more]
        /\ evidence.lost \in Nat /\ more \in Nat
    BY <2>1, <2>2 DEF Evidence
  <2> QED
    BY <2>2, <2>3 DEF Evidence
<1>2. CASE ~FoldCounted
  <2>1. evidence' = evidence /\ evidence.lost \in Nat
    BY <1>2 DEF TestNext, StartBatch, FoldPending, Finish, StopShort, testVars, Evidence
  <2> QED
    BY <2>1
<1> QED
  BY <1>1, <1>2

\* The evidence stays in its range.
LEMMA EvidenceTyped == TestSpec => [](evidence \in Evidence)
<1>1. TestInit => evidence \in Evidence
  BY DEF TestInit, NoEvidence, Evidence
<1>2. evidence \in Evidence /\ [TestNext]_testVars => (evidence \in Evidence)'
  BY EvidenceGrows
<1> QED
  BY <1>1, <1>2, PTL DEF TestSpec

\* For every error rate, resolution and margin: the interval contains the
\* observed difference, and a split observed to be worse than the margin is
\* never read as "hold" or "improve" (stats.go, DeltaCS and Params.Read).
THEOREM CertifiedCorrect == TestSpec => []CertifiedCoversObserved
<1>1. ASSUME evidence \in Evidence PROVE CertifiedCoversObserved
  <2>1. ASSUME Verdict(evidence) \in {"hold", "improve"}
        PROVE  (evidence.losses - evidence.wins) * Grid * Grid <= Margin * Pairs(evidence)
    <3>1. Pairs(evidence) > 0 /\ DeltaLo(evidence) >= -Margin
      BY <2>1 DEF Verdict, Reading, NonInferior
    <3>2. /\ DeltaLo(evidence) \in Int /\ Pairs(evidence) \in Nat
          /\ DeltaLo(evidence) * Pairs(evidence) <= (evidence.wins - evidence.losses) * Grid * Grid
      BY <1>1, <3>1, ObservedCovered
    <3>3. Margin \in Nat /\ Grid \in Nat /\ evidence.wins \in Nat /\ evidence.losses \in Nat
      BY <1>1, GateAssumption DEF Evidence
    <3>4. (-Margin) * Pairs(evidence) <= DeltaLo(evidence) * Pairs(evidence)
      BY <3>1, <3>2, <3>3, Scale
    <3>5. /\ (-Margin) * Pairs(evidence) = -(Margin * Pairs(evidence))
          /\ (evidence.losses - evidence.wins) * Grid * Grid
               = -((evidence.wins - evidence.losses) * Grid * Grid)
      BY <3>2, <3>3
    <3>6. /\ Margin * Pairs(evidence) \in Int /\ DeltaLo(evidence) * Pairs(evidence) \in Int
          /\ (evidence.wins - evidence.losses) * Grid * Grid \in Int
      BY <3>2, <3>3
    <3> QED
      BY <3>2, <3>4, <3>5, <3>6
  <2> QED
    BY <1>1, <2>1, ObservedCovered DEF CertifiedCoversObserved
<1> QED
  BY <1>1, EvidenceTyped, PTL

\* For every count gate: once a task too many is lost outright, no later pair
\* makes the split anything but a regression (stats.go, Params.Read).
THEOREM BreachIsFinal == TestSpec => CountBreachIsFinal
<1>1. ASSUME evidence \in Evidence, [TestNext]_testVars
      PROVE  [~CountOK(evidence) => Verdict(evidence') = "regress"]_testVars
  <2> SUFFICES ASSUME ~CountOK(evidence) PROVE Verdict(evidence') = "regress"
    OBVIOUS
  <2>1. evidence'.lost >= evidence.lost /\ evidence.lost \in Nat /\ evidence'.lost \in Nat
    BY <1>1, EvidenceGrows DEF Evidence
  <2>2. CountGate # CountGateOff /\ CountGate \in Nat /\ ~(evidence.lost <= CountGate)
    BY GateAssumption DEF CountOK
  <2>3. ~CountOK(evidence')
    BY <2>1, <2>2 DEF CountOK
  <2> QED
    BY <2>3 DEF Verdict, Reading
<1> QED
  BY <1>1, EvidenceTyped, PTL DEF TestSpec, CountBreachIsFinal

-----------------------------------------------------------------------------
(***************************************************************************)
(* Factorials, powers of two and binomial coefficients                     *)
(***************************************************************************)

\* A set of naturals has a least element.
LEMMA LeastIs ==
  ASSUME NEW T \in SUBSET Nat, T # {}
  PROVE  \E n \in T : \A m \in T : n <= m
<1>1. T \in SUBSET Int /\ 0 \in Int /\ \A x \in T : 0 <= x
  OBVIOUS
<1> QED
  BY <1>1, MinIs

\* The products of the first factors of g.
Products(g, f, n) ==
  /\ f \in [0..n -> Nat] /\ f[0] = 1
  /\ \A m \in 1..n : f[m] = g[m] * f[m - 1]

\* However many factors, they have a product.
LEMMA ProductsExist ==
  ASSUME NEW g \in [Nat -> Nat], NEW n \in Nat
  PROVE  \E f : Products(g, f, n)
<1> DEFINE T == {m \in Nat : \A f : ~ Products(g, f, m)}
<1>1. SUFFICES ASSUME T # {} PROVE FALSE
  OBVIOUS
<1>2. PICK m \in T : \A j \in T : m <= j
  <2>1. T \in SUBSET Nat
    OBVIOUS
  <2> HIDE DEF T
  <2> QED
    BY <1>1, <2>1, LeastIs
<1>3. CASE m = 0
  <2>1. Products(g, [i \in 0..m |-> 1], m)
    BY <1>3 DEF Products
  <2> QED
    BY <1>2, <2>1
<1>4. CASE m # 0
  <2>1. m - 1 \in Nat /\ m - 1 \notin T
    BY <1>2, <1>4
  <2>2. PICK f : Products(g, f, m - 1)
    BY <2>1
  <2> DEFINE h == [i \in 0..m |-> IF i = m THEN g[m] * f[m - 1] ELSE f[i]]
  <2>3. \A i \in 0..m : i # m => i \in 0..(m - 1)
    OBVIOUS
  <2>4. g[m] * f[m - 1] \in Nat
    <3>1. m \in Nat /\ m - 1 \in 0..(m - 1)
      BY <1>2, <2>1
    <3>2. g[m] \in Nat /\ f[m - 1] \in Nat
      BY <2>2, <3>1 DEF Products
    <3>3. \A x, y \in Nat : x * y \in Nat
      OBVIOUS
    <3> QED
      BY <3>2, <3>3
  <2>5. h \in [0..m -> Nat]
    BY <2>2, <2>3, <2>4 DEF Products
  <2>6. ASSUME NEW i \in 1..m PROVE h[i] = g[i] * h[i - 1]
    <3>1. i - 1 \in 0..(m - 1) /\ i - 1 \in 0..m /\ i - 1 # m /\ h[i - 1] = f[i - 1]
      BY <1>4
    <3>2. CASE i = m
      BY <3>1, <3>2
    <3>3. CASE i # m
      <4>1. i \in 1..(m - 1) /\ h[i] = f[i]
        BY <3>3
      <4> QED
        BY <2>2, <3>1, <4>1 DEF Products
    <3> QED
      BY <3>2, <3>3
  <2>7. h[0] = 1
    BY <1>4, <2>2 DEF Products
  <2>8. Products(g, h, m)
    <3> HIDE DEF h
    <3> QED
      BY <2>5, <2>6, <2>7 DEF Products
  <2> QED
    BY <1>2, <2>8
<1> QED
  BY <1>3, <1>4

\* And one product, however many more factors follow.
LEMMA ProductsAgree ==
  ASSUME NEW g \in [Nat -> Nat], NEW n \in Nat, NEW m \in Nat, NEW f, NEW h,
         Products(g, f, n), Products(g, h, m)
  PROVE  \A i \in Nat : i <= n /\ i <= m => f[i] = h[i]
<1> DEFINE T == {i \in Nat : i <= n /\ i <= m /\ f[i] # h[i]}
<1>1. SUFFICES ASSUME T # {} PROVE FALSE
  OBVIOUS
<1>2. PICK i \in T : \A j \in T : i <= j
  <2>1. T \in SUBSET Nat
    OBVIOUS
  <2> HIDE DEF T
  <2> QED
    BY <1>1, <2>1, LeastIs
<1>3. CASE i = 0
  BY <1>2, <1>3 DEF Products
<1>4. CASE i # 0
  <2>1. i - 1 \in Nat /\ i - 1 \notin T /\ i - 1 <= n /\ i - 1 <= m
    BY <1>2, <1>4
  <2>2. f[i - 1] = h[i - 1]
    BY <2>1
  <2>3. i \in 1..n /\ i \in 1..m
    BY <1>2, <1>4
  <2> QED
    BY <1>2, <2>2, <2>3 DEF Products
<1> QED
  BY <1>3, <1>4

\* A function of all the naturals that multiplies one factor after the other.
Product(g, f) == f = [n \in Nat |-> IF n = 0 THEN 1 ELSE g[n] * f[n - 1]]

\* There is one ...
LEMMA ProductExists == ASSUME NEW g \in [Nat -> Nat] PROVE \E f : Product(g, f)
<1> DEFINE P(n) == CHOOSE f : Products(g, f, n)
           f == [n \in Nat |-> P(n)[n]]
<1>1. \A n \in Nat : Products(g, P(n), n)
  BY ProductsExist
<1> HIDE DEF P
<1>2. ASSUME NEW n \in Nat PROVE f[n] = IF n = 0 THEN 1 ELSE g[n] * f[n - 1]
  <2>1. CASE n = 0
    BY <1>1, <2>1 DEF Products
  <2>2. CASE n # 0
    <3>1. n - 1 \in Nat /\ n \in 1..n /\ n - 1 <= n
      BY <2>2
    <3>2. P(n)[n] = g[n] * P(n)[n - 1]
      BY <1>1, <3>1 DEF Products
    <3>3. P(n)[n - 1] = P(n - 1)[n - 1]
      BY <1>1, <3>1, ProductsAgree
    <3> QED
      BY <2>2, <3>1, <3>2, <3>3
  <2> QED
    BY <2>1, <2>2
<1>3. f = [n \in Nat |-> f[n]]
  OBVIOUS
<1> HIDE DEF f
<1> QED
  BY <1>2, <1>3 DEF Product

\* ... and its values are naturals.
LEMMA ProductIs ==
  ASSUME NEW g \in [Nat -> Nat], NEW f, Product(g, f)
  PROVE  /\ f \in [Nat -> Nat] /\ f[0] = 1
         /\ \A n \in Nat : f[n + 1] = g[n + 1] * f[n]
<1>1. f[0] = 1 /\ \A n \in Nat : f[n + 1] = g[n + 1] * f[n]
  <2>1. \A n \in Nat : n + 1 \in Nat /\ n + 1 # 0 /\ (n + 1) - 1 = n
    OBVIOUS
  <2> QED
    BY <2>1 DEF Product
<1>2. \A n \in Nat : f[n] \in Nat
  <2> DEFINE T == {n \in Nat : f[n] \notin Nat}
  <2>1. SUFFICES ASSUME T # {} PROVE FALSE
    OBVIOUS
  <2>2. PICK n \in T : \A j \in T : n <= j
    <3>1. T \in SUBSET Nat
      OBVIOUS
    <3> HIDE DEF T
    <3> QED
      BY <2>1, <3>1, LeastIs
  <2>3. n # 0
    BY <1>1, <2>2
  <2>4. n - 1 \in Nat /\ n - 1 \notin T /\ (n - 1) + 1 = n
    BY <2>2, <2>3
  <2>5. f[n] = g[n] * f[n - 1] /\ f[n - 1] \in Nat /\ g[n] \in Nat
    BY <1>1, <2>4
  <2> QED
    BY <2>2, <2>5
<1>3. f = [n \in Nat |-> f[n]]
  BY DEF Product
<1> QED
  BY <1>1, <1>2, <1>3

\* The factorial is what it is defined as ...
LEMMA FactorialIs ==
  /\ factorial \in [Nat -> Nat] /\ factorial[0] = 1
  /\ \A n \in Nat : factorial[n + 1] = (n + 1) * factorial[n]
<1> DEFINE g == [n \in Nat |-> n]
<1>1. PICK f : Product(g, f)
  BY ProductExists
<1>2. f = [n \in Nat |-> IF n = 0 THEN 1 ELSE n * f[n - 1]]
  BY <1>1 DEF Product
<1>3. factorial = [n \in Nat |-> IF n = 0 THEN 1 ELSE n * factorial[n - 1]]
  BY <1>2, Zenon DEF factorial
<1>4. Product(g, factorial)
  BY <1>3 DEF Product
<1> QED
  BY <1>4, ProductIs

\* ... and so are the powers of two.
LEMMA TwoToIs ==
  /\ twoTo \in [Nat -> Nat] /\ twoTo[0] = 1
  /\ \A n \in Nat : twoTo[n + 1] = 2 * twoTo[n]
<1> DEFINE g == [n \in Nat |-> 2]
<1>1. PICK f : Product(g, f)
  BY ProductExists
<1>2. f = [n \in Nat |-> IF n = 0 THEN 1 ELSE 2 * f[n - 1]]
  BY <1>1 DEF Product
<1>3. twoTo = [n \in Nat |-> IF n = 0 THEN 1 ELSE 2 * twoTo[n - 1]]
  BY <1>2, Zenon DEF twoTo
<1>4. Product(g, twoTo)
  BY <1>3 DEF Product
<1> QED
  BY <1>4, ProductIs

\* Neither is ever zero.
LEMMA Positive == \A n \in Nat : factorial[n] > 0 /\ twoTo[n] > 0
<1> DEFINE T == {n \in Nat : ~ (factorial[n] > 0 /\ twoTo[n] > 0)}
<1>1. SUFFICES ASSUME T # {} PROVE FALSE
  OBVIOUS
<1>2. PICK n \in T : \A j \in T : n <= j
  <2>1. T \in SUBSET Nat
    OBVIOUS
  <2> HIDE DEF T
  <2> QED
    BY <1>1, <2>1, LeastIs
<1>3. n # 0
  BY <1>2, FactorialIs, TwoToIs
<1>4. n - 1 \in Nat /\ n - 1 \notin T /\ (n - 1) + 1 = n
  BY <1>2, <1>3
<1>5. factorial[n] = n * factorial[n - 1] /\ twoTo[n] = 2 * twoTo[n - 1]
      /\ factorial[n - 1] \in Nat /\ twoTo[n - 1] \in Nat
  BY <1>4, FactorialIs, TwoToIs
<1>6. factorial[n - 1] > 0 /\ twoTo[n - 1] > 0
  BY <1>4
<1>7. \A x \in Nat : x > 0 => n * x > 0
  BY <1>2, <1>3
<1> QED
  BY <1>2, <1>5, <1>6, <1>7

\* Powers of two multiply as their exponents add.
LEMMA TwoToSum ==
  ASSUME NEW k \in Nat
  PROVE  \A n \in Nat : twoTo[n] * twoTo[k] = twoTo[n + k]
<1> DEFINE T == {n \in Nat : twoTo[n] * twoTo[k] # twoTo[n + k]}
<1>1. SUFFICES ASSUME T # {} PROVE FALSE
  OBVIOUS
<1>2. PICK n \in T : \A j \in T : n <= j
  <2>1. T \in SUBSET Nat
    OBVIOUS
  <2> HIDE DEF T
  <2> QED
    BY <1>1, <2>1, LeastIs
<1>3. twoTo[k] \in Nat
  BY TwoToIs
<1>4. n # 0
  <2>1. twoTo[0] * twoTo[k] = twoTo[k] /\ 0 + k = k
    BY <1>3, TwoToIs
  <2> QED
    BY <1>2, <2>1
<1>5. n - 1 \in Nat /\ n - 1 \notin T /\ (n - 1) + 1 = n /\ (n - 1) + k \in Nat /\ ((n - 1) + k) + 1 = n + k
  BY <1>2, <1>4
<1>6. twoTo[n] = 2 * twoTo[n - 1] /\ twoTo[n + k] = 2 * twoTo[(n - 1) + k]
      /\ twoTo[n - 1] \in Nat /\ twoTo[(n - 1) + k] \in Nat
  BY <1>5, TwoToIs
<1>7. twoTo[n - 1] * twoTo[k] = twoTo[(n - 1) + k]
  BY <1>5
<1>8. \A x, y \in Nat : (2 * x) * y = 2 * (x * y)
  OBVIOUS
<1> QED
  BY <1>2, <1>3, <1>6, <1>7, <1>8

\* The number of orders of b wins and c losses: how often the factorials of
\* the two go into that of all.
Orders(b, c) == choose(b + c, b)

\* They go into it a whole number of times ...
LEMMA OrdersExist ==
  ASSUME NEW b \in Nat, NEW c \in Nat
  PROVE  \E k \in Nat : factorial[b + c] = k * (factorial[b] * factorial[c])
<1> DEFINE Goes(i, j) == \E k \in Nat : factorial[i + j] = k * (factorial[i] * factorial[j])
           T == {n \in Nat : \E i, j \in Nat : i + j = n /\ ~ Goes(i, j)}
<1>1. SUFFICES ASSUME T # {} PROVE FALSE
  <2>1. b + c \in Nat /\ (b + c \notin T => Goes(b, c))
    OBVIOUS
  <2> HIDE DEF T
  <2> QED
    BY <2>1
<1>2. PICK n \in T : \A m \in T : n <= m
  <2>1. T \in SUBSET Nat
    OBVIOUS
  <2> HIDE DEF T
  <2> QED
    BY <1>1, <2>1, LeastIs
<1>3. PICK i \in Nat, j \in Nat : i + j = n /\ ~ Goes(i, j)
  BY <1>2
<1>4. \A m \in Nat : factorial[m] \in Nat
  BY FactorialIs
<1>5. i # 0
  <2>1. factorial[0 + j] = 1 * (factorial[0] * factorial[j])
    BY <1>4, FactorialIs
  <2> QED
    BY <1>3, <2>1
<1>6. j # 0
  <2>1. factorial[i + 0] = 1 * (factorial[i] * factorial[0])
    BY <1>4, FactorialIs
  <2> QED
    BY <1>3, <2>1
<1> DEFINE F == factorial[i - 1]
           G == factorial[j - 1]
           H == factorial[n - 1]
<1>7. /\ i - 1 \in Nat /\ j - 1 \in Nat /\ n - 1 \in Nat /\ n \in Nat
      /\ (i - 1) + j = n - 1 /\ i + (j - 1) = n - 1
      /\ (i - 1) + 1 = i /\ (j - 1) + 1 = j /\ (n - 1) + 1 = n
  BY <1>3, <1>5, <1>6
<1>8. /\ factorial[i] = i * F /\ factorial[j] = j * G /\ factorial[n] = n * H
      /\ F \in Nat /\ G \in Nat /\ H \in Nat
  BY <1>4, <1>7, FactorialIs
<1>9. n - 1 \notin T
  BY <1>2, <1>7
<1>10. Goes(i - 1, j) /\ Goes(i, j - 1)
  BY <1>7, <1>9, <1>3
<1>11. PICK k \in Nat : H = k * (F * (j * G))
  BY <1>7, <1>8, <1>10
<1>12. PICK l \in Nat : H = l * ((i * F) * G)
  BY <1>7, <1>8, <1>10
<1> HIDE DEF F, G, H
<1>13. n * H = i * H + j * H
  BY <1>3, <1>8
<1>14. i * H = k * ((i * F) * (j * G)) /\ j * H = l * ((i * F) * (j * G))
  <2>1. i * (k * (F * (j * G))) = k * ((i * F) * (j * G))
    BY <1>8
  <2>2. j * (l * ((i * F) * G)) = l * ((i * F) * (j * G))
    BY <1>8
  <2> QED
    BY <2>1, <2>2, <1>11, <1>12
<1>15. k * ((i * F) * (j * G)) + l * ((i * F) * (j * G)) = (k + l) * ((i * F) * (j * G))
  <2>1. (i * F) * (j * G) \in Nat
    BY <1>8
  <2>2. \A x \in Nat : k * x + l * x = (k + l) * x
    OBVIOUS
  <2> QED
    BY <2>1, <2>2
<1>16. factorial[i + j] = (k + l) * (factorial[i] * factorial[j])
  BY <1>3, <1>8, <1>13, <1>14, <1>15
<1> QED
  BY <1>3, <1>16

\* Dividing a multiple.
LEMMA Exactly == ASSUME NEW k \in Nat, NEW d \in Nat \ {0} PROVE (k * d) \div d = k
<1> DEFINE q == (k * d) \div d
<1>1. k * d \in Nat /\ q \in Int /\ d * q <= k * d /\ k * d < d * q + d
  OBVIOUS
<1> HIDE DEF q
<1>2. q <= k
  <2> SUFFICES ASSUME q >= k + 1 PROVE FALSE
    BY <1>1
  <2>1. d * q >= d * (k + 1)
    BY <1>1
  <2> QED
    BY <1>1, <2>1
<1>3. q >= k
  <2> SUFFICES ASSUME q + 1 <= k PROVE FALSE
    BY <1>1
  <2>1. d * (q + 1) <= d * k
    BY <1>1
  <2> QED
    BY <1>1, <2>1
<1> QED
  BY <1>1, <1>2, <1>3 DEF q

\* ... which is what the quotient is.
LEMMA OrdersIs ==
  ASSUME NEW b \in Nat, NEW c \in Nat
  PROVE  Orders(b, c) \in Nat /\ Orders(b, c) * (factorial[b] * factorial[c]) = factorial[b + c]
<1>1. PICK k \in Nat : factorial[b + c] = k * (factorial[b] * factorial[c])
  BY OrdersExist
<1>2. factorial[b] * factorial[c] \in Nat \ {0}
  <2>1. factorial[b] \in Nat /\ factorial[c] \in Nat /\ factorial[b] > 0 /\ factorial[c] > 0
    BY FactorialIs, Positive
  <2> QED
    BY <2>1
<1>3. (b + c) - b = c
  OBVIOUS
<1>4. Orders(b, c) = k
  BY <1>1, <1>2, <1>3, Exactly DEF Orders, choose
<1> QED
  BY <1>1, <1>4

\* One more win multiplies the orders by (b + c + 1) / (b + 1), one more loss
\* by (b + c + 1) / (c + 1).
LEMMA OrdersGrow ==
  ASSUME NEW b \in Nat, NEW c \in Nat
  PROVE  /\ Orders(b + 1, c) * (b + 1) = (b + c + 1) * Orders(b, c)
         /\ Orders(b, c + 1) * (c + 1) = (b + c + 1) * Orders(b, c)
<1> DEFINE F == factorial[b]
           G == factorial[c]
           X == Orders(b, c)
           Y == Orders(b + 1, c)
           Z == Orders(b, c + 1)
<1>1. b + 1 \in Nat /\ c + 1 \in Nat /\ (b + 1) + c = (b + c) + 1 /\ b + (c + 1) = (b + c) + 1 /\ b + c \in Nat
  OBVIOUS
<1>2. /\ F \in Nat /\ G \in Nat /\ F > 0 /\ G > 0
      /\ factorial[b + 1] = (b + 1) * F /\ factorial[c + 1] = (c + 1) * G
      /\ factorial[(b + c) + 1] = (b + c + 1) * factorial[b + c]
  BY <1>1, FactorialIs, Positive
<1>3. X \in Nat /\ X * (F * G) = factorial[b + c]
  BY OrdersIs
<1>4. Y \in Nat /\ Y * (((b + 1) * F) * G) = factorial[(b + c) + 1]
  BY <1>1, <1>2, OrdersIs
<1>5. Z \in Nat /\ Z * (F * ((c + 1) * G)) = factorial[(b + c) + 1]
  BY <1>1, <1>2, OrdersIs
<1> HIDE DEF F, G, X, Y, Z
<1>6. F * G \in Nat \ {0}
  BY <1>2
<1>7. Y * (((b + 1) * F) * G) = (Y * (b + 1)) * (F * G) /\ Z * (F * ((c + 1) * G)) = (Z * (c + 1)) * (F * G)
  BY <1>2, <1>4, <1>5
<1>8. (b + c + 1) * (X * (F * G)) = ((b + c + 1) * X) * (F * G)
  BY <1>2, <1>3
<1>9. (Y * (b + 1)) * (F * G) = ((b + c + 1) * X) * (F * G)
  BY <1>2, <1>3, <1>4, <1>7, <1>8
<1>10. (Z * (c + 1)) * (F * G) = ((b + c + 1) * X) * (F * G)
  BY <1>2, <1>3, <1>5, <1>7, <1>8
<1>11. \A m, n \in Nat : \A d \in Nat \ {0} : m * d = n * d => m = n
  OBVIOUS
<1>12. Y * (b + 1) \in Nat /\ Z * (c + 1) \in Nat /\ (b + c + 1) * X \in Nat
  BY <1>3, <1>4, <1>5
<1>13. Y * (b + 1) = (b + c + 1) * X /\ Z * (c + 1) = (b + c + 1) * X
  BY <1>6, <1>9, <1>10, <1>11, <1>12
<1> QED
  BY <1>13 DEF X, Y, Z

-----------------------------------------------------------------------------
(***************************************************************************)
(* Ville's inequality                                                      *)
(***************************************************************************)
\* Of how many paths the level is reached when n of n0 pairs are left, by the
\* wins among the others; `below` says it for one pair less.
Row(b0, c0, n0, level, n, below) ==
  [w \in 0..(n0 - n) |->
     IF EReaches(b0 + w, c0 + (n0 - n - w), level) THEN twoTo[n]
     ELSE IF n = 0 THEN 0
     ELSE below[w] + below[w + 1]]

Rows(paths, b0, c0, n0, level, m) ==
  paths = [n \in 0..m |-> Row(b0, c0, n0, level, n, paths[n - 1])]

\* The rows can be filled one after the other.
LEMMA RowsExist ==
  ASSUME NEW b0, NEW c0, NEW n0, NEW level, NEW n \in Nat
  PROVE  \E paths : Rows(paths, b0, c0, n0, level, n)
<1> DEFINE T == {m \in Nat : \A f : ~ Rows(f, b0, c0, n0, level, m)}
           Of(m, f) == Row(b0, c0, n0, level, m, f[m - 1])
<1>1. SUFFICES ASSUME T # {} PROVE FALSE
  OBVIOUS
<1>2. PICK m \in T : \A j \in T : m <= j
  <2>1. T \in SUBSET Nat
    OBVIOUS
  <2> HIDE DEF T
  <2> QED
    BY <1>1, <2>1, LeastIs
<1>3. \E f : IF m = 0 THEN TRUE ELSE Rows(f, b0, c0, n0, level, m - 1)
  <2>1. m # 0 => m - 1 \in Nat /\ m - 1 \notin T
    BY <1>2
  <2> QED
    BY <2>1
<1>4. PICK f : IF m = 0 THEN TRUE ELSE Rows(f, b0, c0, n0, level, m - 1)
  BY <1>3
<1> DEFINE h == [i \in 0..m |-> IF i = m THEN Row(b0, c0, n0, level, m, f[m - 1]) ELSE f[i]]
<1>5. ASSUME NEW i \in 0..m PROVE h[i] = Row(b0, c0, n0, level, i, h[i - 1])
  <2>1. m \in Nat /\ i \in Nat /\ i <= m
    BY <1>2
  <2>2. CASE i = 0 /\ m = 0
    <3>1. h[i] = Row(b0, c0, n0, level, 0, f[m - 1])
      BY <2>2
    <3>2. \A x, y : Row(b0, c0, n0, level, 0, x) = Row(b0, c0, n0, level, 0, y)
      BY DEF Row
    <3> QED
      BY <2>2, <3>1, <3>2
  <2>3. CASE i = 0 /\ m # 0
    <3>1. h[i] = f[i] /\ i \in 0..(m - 1)
      BY <2>1, <2>3
    <3>2. f[i] = Row(b0, c0, n0, level, 0, f[i - 1])
      BY <1>4, <2>3, <3>1 DEF Rows
    <3>3. \A x, y : Row(b0, c0, n0, level, 0, x) = Row(b0, c0, n0, level, 0, y)
      BY DEF Row
    <3> QED
      BY <2>3, <3>1, <3>2, <3>3
  <2>4. CASE i # 0 /\ i = m
    <3>1. i - 1 \in 0..m /\ i - 1 # m
      BY <2>1, <2>4
    <3> QED
      BY <2>4, <3>1
  <2>5. CASE i # 0 /\ i # m
    <3>1. i - 1 \in 0..m /\ i - 1 # m /\ i \in 0..(m - 1) /\ m # 0
      BY <2>1, <2>5
    <3>2. f[i] = Row(b0, c0, n0, level, i, f[i - 1])
      BY <1>4, <3>1 DEF Rows
    <3> QED
      BY <2>5, <3>1, <3>2
  <2> QED
    BY <2>2, <2>3, <2>4, <2>5
<1>6. h = [i \in 0..m |-> h[i]]
  OBVIOUS
<1>7. Rows(h, b0, c0, n0, level, m)
  <2> HIDE DEF h
  <2> QED
    BY <1>5, <1>6 DEF Rows
<1> QED
  BY <1>2, <1>7

\* The rows a count of crossings is read off.
ReadOff(paths, b0, c0, n0, level) ==
  /\ \A n \in 0..n0 : paths[n] = Row(b0, c0, n0, level, n, paths[n - 1])
  /\ Crossings(b0, c0, n0, level) = paths[n0][0]

\* There are such rows.
LEMMA CrossingsIs ==
  ASSUME NEW b0 \in Nat, NEW c0 \in Nat, NEW n0 \in Nat, NEW level
  PROVE  \E paths : ReadOff(paths, b0, c0, n0, level)
<1> DEFINE paths == CHOOSE f : Rows(f, b0, c0, n0, level, n0)
<1>1. Rows(paths, b0, c0, n0, level, n0)
  BY RowsExist
<1>2. Crossings(b0, c0, n0, level) = paths[n0][0]
  BY DEF Crossings, Rows, Row
<1> HIDE DEF paths
<1>3. \A n \in 0..n0 : paths[n] = Row(b0, c0, n0, level, n, paths[n - 1])
  BY <1>1 DEF Rows
<1>4. ReadOff(paths, b0, c0, n0, level)
  BY <1>2, <1>3 DEF ReadOff
<1> QED
  BY <1>4

\* The paths of n more pairs from (b, c) on which the level is reached are at
\* most the share of them that the e-value at (b, c) is of the level.
Few(paths, n, b, c, level) ==
  paths \in Nat /\ paths * (level * ((b + c + 1) * Orders(b, c))) <= twoTo[n + (b + c)]

\* One pair before, they are those of a win and those of a loss.
LEMMA FewBefore ==
  ASSUME NEW level \in Nat, NEW n \in Nat, NEW b \in Nat, NEW c \in Nat, NEW p, NEW q,
         Few(p, n, b + 1, c, level), Few(q, n, b, c + 1, level)
  PROVE  Few(p + q, n + 1, b, c, level)
<1> DEFINE X == Orders(b, c)
           Y == Orders(b + 1, c)
           Z == Orders(b, c + 1)
           s == b + c + 1
           W == twoTo[(n + 1) + (b + c)]
<1>1. /\ (b + 1) + c + 1 = s + 1 /\ b + (c + 1) + 1 = s + 1 /\ s \in Nat
      /\ n + ((b + 1) + c) = (n + 1) + (b + c) /\ n + (b + (c + 1)) = (n + 1) + (b + c)
      /\ (n + 1) + (b + c) \in Nat /\ s + 1 = (b + 1) + (c + 1)
  OBVIOUS
<1>2. X \in Nat /\ Y \in Nat /\ Z \in Nat /\ W \in Nat
  BY <1>1, OrdersIs, TwoToIs
<1>3. Y * (b + 1) = s * X /\ Z * (c + 1) = s * X
  BY OrdersGrow
<1>4. p \in Nat /\ p * (level * ((s + 1) * Y)) <= W
  BY <1>1 DEF Few
<1>5. q \in Nat /\ q * (level * ((s + 1) * Z)) <= W
  BY <1>1 DEF Few
<1> DEFINE D == level * (s * X)
<1>6. D \in Nat
  BY <1>1, <1>2
<1>7. (p * (level * ((s + 1) * Y))) * (b + 1) = (p * D) * (s + 1)
  <2>1. (p * (level * ((s + 1) * Y))) * (b + 1) = (p * (level * (Y * (b + 1)))) * (s + 1)
    BY <1>1, <1>2, <1>4
  <2> QED
    BY <1>3, <2>1
<1>8. (q * (level * ((s + 1) * Z))) * (c + 1) = (q * D) * (s + 1)
  <2>1. (q * (level * ((s + 1) * Z))) * (c + 1) = (q * (level * (Z * (c + 1)))) * (s + 1)
    BY <1>1, <1>2, <1>5
  <2> QED
    BY <1>3, <2>1
<1> HIDE DEF X, Y, Z, W, D, s
<1>9. \A x, y, m \in Nat : x <= y => x * m <= y * m
  OBVIOUS
<1>10. (p * D) * (s + 1) <= W * (b + 1)
  <2>1. p * (level * ((s + 1) * Y)) \in Nat /\ b + 1 \in Nat
    BY <1>1, <1>2, <1>4
  <2> QED
    BY <1>2, <1>4, <1>7, <1>9, <2>1
<1>11. (q * D) * (s + 1) <= W * (c + 1)
  <2>1. q * (level * ((s + 1) * Z)) \in Nat /\ c + 1 \in Nat
    BY <1>1, <1>2, <1>5
  <2> QED
    BY <1>2, <1>5, <1>8, <1>9, <2>1
<1>12. ((p + q) * D) * (s + 1) <= W * (s + 1)
  <2>1. ((p + q) * D) * (s + 1) = (p * D) * (s + 1) + (q * D) * (s + 1)
    BY <1>1, <1>4, <1>5, <1>6
  <2>2. W * (s + 1) = W * (b + 1) + W * (c + 1)
    BY <1>1, <1>2
  <2>3. (p * D) * (s + 1) \in Nat /\ (q * D) * (s + 1) \in Nat /\ W * (b + 1) \in Nat /\ W * (c + 1) \in Nat
    BY <1>1, <1>2, <1>4, <1>5, <1>6
  <2> QED
    BY <1>10, <1>11, <2>1, <2>2, <2>3
<1>13. (p + q) * D <= W
  <2>1. \A x, y \in Nat : \A m \in Nat \ {0} : x * m <= y * m => x <= y
    OBVIOUS
  <2>2. (p + q) * D \in Nat /\ s + 1 \in Nat \ {0}
    BY <1>1, <1>4, <1>5, <1>6
  <2> QED
    BY <1>2, <1>12, <2>1, <2>2
<1>14. p + q \in Nat
  BY <1>4, <1>5
<1> QED
  BY <1>13, <1>14 DEF Few, D, s, X, W

\* Where the level is reached, all the paths are.
LEMMA FewAtLevel ==
  ASSUME NEW level \in Nat, NEW n \in Nat, NEW b \in Nat, NEW c \in Nat, EReaches(b, c, level)
  PROVE  Few(twoTo[n], n, b, c, level)
<1> DEFINE X == level * ((b + c + 1) * Orders(b, c))
<1>1. Orders(b, c) \in Nat /\ b + c \in Nat /\ b + c + 1 \in Nat
  BY OrdersIs
<1>2. twoTo[n] \in Nat /\ twoTo[b + c] \in Nat /\ twoTo[n] * twoTo[b + c] = twoTo[n + (b + c)]
  BY <1>1, TwoToIs, TwoToSum
<1>3. X \in Nat /\ X <= twoTo[b + c]
  <2>1. twoTo[b + c] >= level * (b + c + 1) * Orders(b, c)
    BY DEF EReaches, Orders
  <2>2. level * (b + c + 1) * Orders(b, c) = X /\ X \in Nat
    BY <1>1
  <2> QED
    BY <1>2, <2>1, <2>2
<1> HIDE DEF X
<1>4. \A x, y, m \in Nat : x <= y => m * x <= m * y
  OBVIOUS
<1>5. twoTo[n] * X <= twoTo[n + (b + c)]
  BY <1>2, <1>3, <1>4
<1> QED
  BY <1>2, <1>5 DEF Few, X

\* Ville's inequality for every level and number of pairs, by induction on
\* the pairs left.
LEMMA CrossingsAreFew ==
  ASSUME NEW b0 \in Nat, NEW c0 \in Nat, NEW n0 \in Nat, NEW level \in Nat
  PROVE  Few(Crossings(b0, c0, n0, level), n0, b0, c0, level)
<1>0. PICK paths : ReadOff(paths, b0, c0, n0, level)
  BY CrossingsIs
<1>1. /\ \A n \in 0..n0 : paths[n] = Row(b0, c0, n0, level, n, paths[n - 1])
      /\ Crossings(b0, c0, n0, level) = paths[n0][0]
  BY <1>0 DEF ReadOff
<1> DEFINE Held(n) == \A w \in 0..(n0 - n) : Few(paths[n][w], n, b0 + w, c0 + (n0 - n - w), level)
           T == {n \in 0..n0 : ~ Held(n)}
<1>2. SUFFICES ASSUME T # {} PROVE FALSE
  <2>1. T = {} => Held(n0)
    OBVIOUS
  <2>2. n0 - n0 = 0 /\ 0 \in 0..(n0 - n0) /\ b0 + 0 = b0 /\ c0 + (n0 - n0 - 0) = c0
    OBVIOUS
  <2>3. Held(n0) => Few(paths[n0][0], n0, b0, c0, level)
    BY <2>2
  <2> HIDE DEF T, Held
  <2> QED
    BY <1>1, <2>1, <2>3
<1>3. PICK n \in T : \A m \in T : n <= m
  <2>1. T \in SUBSET Nat
    OBVIOUS
  <2> HIDE DEF T
  <2> QED
    BY <1>2, <2>1, LeastIs
<1>4. n \in Nat /\ n <= n0 /\ ~ Held(n)
  BY <1>3
<1>5. PICK w \in 0..(n0 - n) : ~ Few(paths[n][w], n, b0 + w, c0 + (n0 - n - w), level)
  BY <1>4
<1> DEFINE b == b0 + w
           c == c0 + (n0 - n - w)
<1>6. b \in Nat /\ c \in Nat /\ w \in Nat /\ w <= n0 - n
  BY <1>4, <1>5
<1>7. paths[n][w] = IF EReaches(b, c, level) THEN twoTo[n]
                    ELSE IF n = 0 THEN 0 ELSE paths[n - 1][w] + paths[n - 1][w + 1]
  <2>1. n \in 0..n0
    BY <1>4
  <2>2. paths[n] = Row(b0, c0, n0, level, n, paths[n - 1])
    BY <1>1, <2>1
  <2> QED
    BY <1>5, <2>2 DEF Row
<1>8. CASE EReaches(b, c, level)
  BY <1>4, <1>5, <1>6, <1>7, <1>8, FewAtLevel
<1>9. CASE ~ EReaches(b, c, level) /\ n = 0
  <2>1. Few(0, n, b, c, level)
    <3>1. Orders(b, c) \in Nat /\ n + (b + c) \in Nat
      BY <1>4, <1>6, OrdersIs
    <3>2. level * ((b + c + 1) * Orders(b, c)) \in Nat /\ twoTo[n + (b + c)] \in Nat
      BY <1>6, <3>1, TwoToIs
    <3> QED
      BY <3>2 DEF Few
  <2> QED
    BY <1>5, <1>7, <1>9, <2>1
<1>10. CASE ~ EReaches(b, c, level) /\ n # 0
  <2>1. n - 1 \in 0..n0 /\ n - 1 \notin T /\ n - 1 \in Nat /\ (n - 1) + 1 = n
    BY <1>3, <1>4, <1>10
  <2>2. Held(n - 1)
    BY <2>1
  <2>3. /\ w \in 0..(n0 - (n - 1)) /\ w + 1 \in 0..(n0 - (n - 1))
        /\ b0 + (w + 1) = b + 1 /\ c0 + (n0 - (n - 1) - (w + 1)) = c
        /\ c0 + (n0 - (n - 1) - w) = c + 1
    BY <1>4, <1>6, <2>1
  <2>4. Few(paths[n - 1][w + 1], n - 1, b + 1, c, level) /\ Few(paths[n - 1][w], n - 1, b, c + 1, level)
    BY <2>2, <2>3
  <2>5. Few(paths[n - 1][w + 1] + paths[n - 1][w], n, b, c, level)
    <3> HIDE DEF b, c
    <3> QED
      BY <1>6, <2>1, <2>4, FewBefore
  <2>6. paths[n - 1][w + 1] + paths[n - 1][w] = paths[n - 1][w] + paths[n - 1][w + 1]
    BY <2>4 DEF Few
  <2> QED
    BY <1>5, <1>7, <1>10, <2>5, <2>6
<1> QED
  BY <1>8, <1>9, <1>10

\* The pairs folded and those of the batch are scheduled.
Scheduled == folded \in Nat /\ todo \in Nat /\ folded + todo <= NPairs

\* For every error rate and every schedule, whatever was seen so far: the
\* chance under the null of ever reaching 1/alpha in the pairs left is at
\* most alpha times the e-value held, so the verdict may be read after every
\* pair (stats.go, LogE and Params.HarmThreshold).
THEOREM LookingIsFree == TestSpec => []AnytimeValid
<1>1. TestInit => Scheduled
  BY TestAssumption DEF TestInit, Scheduled
<1>2. Scheduled /\ [TestNext]_testVars => Scheduled'
  <2> SUFFICES ASSUME Scheduled, [TestNext]_testVars PROVE Scheduled'
    OBVIOUS
  <2> USE TestAssumption DEF Scheduled
  <2>1. CASE StartBatch
    <3>1. todo' = Min({Parallel, NPairs - folded}) /\ folded' = folded
          /\ folded \in Nat /\ NPairs - folded \in Nat
      BY <2>1 DEF StartBatch
    <3>2. {Parallel, NPairs - folded} \in SUBSET Int /\ {Parallel, NPairs - folded} # {}
          /\ 0 \in Int /\ \A x \in {Parallel, NPairs - folded} : 0 <= x
      BY <3>1
    <3>3. /\ Min({Parallel, NPairs - folded}) \in {Parallel, NPairs - folded}
          /\ \A x \in {Parallel, NPairs - folded} : Min({Parallel, NPairs - folded}) <= x
      BY <3>2, MinIs
    <3>4. todo' \in Nat /\ todo' <= NPairs - folded
      BY <3>1, <3>3
    <3> QED
      BY <3>1, <3>4
  <2>2. CASE FoldCounted
    BY <2>2 DEF FoldCounted
  <2>3. CASE FoldPending
    BY <2>3 DEF FoldPending
  <2>4. CASE Finish
    BY <2>4 DEF Finish
  <2>5. CASE StopShort
    BY <2>5 DEF StopShort
  <2>6. CASE UNCHANGED testVars
    BY <2>6 DEF testVars
  <2> QED
    BY <2>1, <2>2, <2>3, <2>4, <2>5, <2>6 DEF TestNext
<1>3. evidence \in Evidence /\ Scheduled => AnytimeValid
  <2> SUFFICES ASSUME evidence \in Evidence, Scheduled PROVE AnytimeValid
    OBVIOUS
  <2> DEFINE b == evidence.wins
             c == evidence.losses
             n == NPairs - folded
             p == Crossings(b, c, n, AlphaInv)
  <2>1. b \in Nat /\ c \in Nat /\ n \in Nat /\ AlphaInv \in Nat
    BY TestAssumption, GateAssumption DEF Evidence, Scheduled
  <2>2. Few(p, n, b, c, AlphaInv)
    <3> HIDE DEF b, c, n
    <3> QED
      BY <2>1, CrossingsAreFew
  <2>3. Orders(b, c) \in Nat
    <3> HIDE DEF b, c
    <3> QED
      BY <2>1, OrdersIs
  <2> HIDE DEF b, c, n, p
  <2>4. n + (b + c) = n + b + c
    BY <2>1
  <2>5. p * (AlphaInv * ((b + c + 1) * Orders(b, c))) = p * AlphaInv * (b + c + 1) * Orders(b, c)
    BY <2>1, <2>2, <2>3 DEF Few
  <2>6. p * AlphaInv * (b + c + 1) * choose(b + c, b) <= twoTo[n + b + c]
    BY <2>2, <2>4, <2>5 DEF Few, Orders
  <2> QED
    BY <2>6 DEF AnytimeValid, b, c, n, p
<1> QED
  BY <1>1, <1>2, <1>3, EvidenceTyped, PTL DEF TestSpec

-----------------------------------------------------------------------------
(***************************************************************************)
(* The splits a run owes documents for                                     *)
(***************************************************************************)
Owings == {<<>>, <<"held_in">>, <<"held_out">>, Splits}
Owed(splits) == {splits[i] : i \in 1..Len(splits)}

\* The first is written, and the rest is owed.
LEMMA OwedAfterOne ==
  ASSUME NEW splits \in Owings, splits # <<>>
  PROVE  /\ Head(splits) \in SplitNames /\ Tail(splits) \in Owings
         /\ Owed(splits) \subseteq Owed(Tail(splits)) \cup {Head(splits)}
<1>1. CASE splits = <<"held_in">>
  <2>1. Head(splits) = "held_in" /\ Tail(splits) = <<>> /\ Len(splits) = 1
    BY <1>1
  <2> QED
    BY <1>1, <2>1 DEF Owed, Owings, SplitNames
<1>2. CASE splits = <<"held_out">>
  <2>1. Head(splits) = "held_out" /\ Tail(splits) = <<>> /\ Len(splits) = 1
    BY <1>2
  <2> QED
    BY <1>2, <2>1 DEF Owed, Owings, SplitNames
<1>3. CASE splits = Splits
  <2>1. Head(splits) = "held_in" /\ Tail(splits) = <<"held_out">> /\ Len(splits) = 2
    BY <1>3 DEF Splits
  <2>2. Owed(splits) = {"held_in", "held_out"} /\ "held_out" \in Owed(Tail(splits))
    BY <1>3, <2>1 DEF Owed, Splits
  <2> QED
    BY <2>1, <2>2 DEF Owings, SplitNames
<1> QED
  BY <1>1, <1>2, <1>3 DEF Owings

\* At first everything that ran is owed, and at last nothing.
LEMMA OwedAtFirst ==
  /\ Owed(<<>>) = {} /\ Owed(Splits) = SplitNames
  /\ \A outcome \in Measurements :
       /\ Ran(outcome) \in Owings
       /\ \A split \in SplitNames : outcome[split] = "not_run" \/ split \in Owed(Ran(outcome))
<1>1. Owed(<<>>) = {} /\ Owed(Splits) = SplitNames /\ Owed(<<"held_in">>) = {"held_in"}
  BY DEF Owed, Splits, SplitNames
<1> QED
  BY <1>1 DEF Ran, Owings, SplitNames

-----------------------------------------------------------------------------
(***************************************************************************)
(* The inductive invariant                                                 *)
(***************************************************************************)

\* One run is at work.
Alone == \A q, r \in Runs : Active(q) /\ Active(r) => q = r

\* A run that has measured nothing has left nothing.
Fresh(r) ==
  pc[r] \in {"idle", "measure"} =>
    results[r] = Nothing /\ \A split \in SplitNames, n \in 0..LastSeq : docs[split][n].by # r

\* A document in the vault says what the run says of the split.
OnFile(r, split) ==
  \E n \in 0..LastSeq :
    docs[split][n] = [by |-> r, verdict |-> VerdictOf(results[r][split]),
                      validates |-> results[r][split] # "unmeasured"]

\* A run at work finds the edit as it left it, and has filed what it no longer owes.
Working(r) ==
  /\ pc[r] \in {"measure", "stat", "document", "truncate"} => edit.status = "proposed"
  /\ pc[r] = "fill" => edit.status = "torn"
  /\ pc[r] = "measure" => header[r] = NoHeader
  /\ pc[r] \in {"stat", "document", "truncate", "fill"} =>
       /\ results[r] \in [SplitNames -> Results]
       /\ header[r].promote = Promoted(results[r])
       /\ \A split \in SplitNames :
            results[r][split] = "not_run" \/ split \in Owed(due[r]) \/ OnFile(r, split)
  /\ pc[r] = "document" => due[r] # <<>> /\ docs[Head(due[r])][seq[r]] = NoDocument
  /\ pc[r] \in {"truncate", "fill"} => due[r] = <<>> /\ Moves(r)

Unstarted(r) == pc[r] = "idle" => header[r] = NoHeader

IInv ==
  /\ ~Overlap /\ TypeOK /\ Alone
  /\ \A r \in Runs : Fresh(r) /\ Unstarted(r) /\ Working(r)
  /\ DecisionsPassTheVault

\* Nothing has happened yet.
LEMMA InitIInv == Init /\ ~Overlap => IInv
<1> SUFFICES ASSUME Init, ~Overlap PROVE IInv
  OBVIOUS
<1>1. TypeOK
  <2>1. docs \in [SplitNames -> [0..LastSeq -> Documents]]
    BY DEF Init, Documents
  <2>2. edit \in [autonomy : Autonomies, status : EditStatuses, approval : {"human", "auto"}]
    BY DEF Init, EditStatuses
  <2>3. 0 \in 0..LastSeq
    BY EditRunsAssumption
  <2> QED
    BY <2>1, <2>2, <2>3 DEF Init, TypeOK, NoHeader, Steps
<1>2. \A r \in Runs : Fresh(r) /\ Unstarted(r) /\ Working(r) /\ ~Active(r)
  <2>1. \A split \in SplitNames, n \in 0..LastSeq : docs[split][n].by \in {"nobody", "earlier"}
    BY DEF Init, NoDocument, Earlier
  <2> QED
    BY <2>1, EditRunsAssumption DEF Init, Fresh, Unstarted, Working, Active, Stopped
<1> QED
  BY <1>1, <1>2, EditRunsAssumption DEF IInv, Alone, Init, DecisionsPassTheVault

-----------------------------------------------------------------------------
(***************************************************************************)
(* Types, and one run at work                                              *)
(***************************************************************************)

\* The name found free is one of the names.
LEMMA FreeName ==
  ASSUME NEW split, FreeSeqs(split) # {}
  PROVE  Min(FreeSeqs(split)) \in 0..LastSeq /\ docs[split][Min(FreeSeqs(split))] = NoDocument
<1>1. FreeSeqs(split) \in SUBSET Int /\ \A n \in FreeSeqs(split) : 0 <= n
  BY EditRunsAssumption DEF FreeSeqs
<1>2. Min(FreeSeqs(split)) \in FreeSeqs(split)
  BY <1>1, MinIs
<1> QED
  BY <1>2 DEF FreeSeqs

\* A header in another state is the same but for that.
LEMMA Restated ==
  ASSUME NEW h \in [state : {"absent", "complete", "torn"}, promote : BOOLEAN], NEW s
  PROVE  [h EXCEPT !.state = s] = [state |-> s, promote |-> h.promote]
OBVIOUS

\* Every step keeps the ranges.
LEMMA TypesKept == IInv /\ [Next]_vars => TypeOK'
<1> SUFFICES ASSUME IInv, [Next]_vars PROVE TypeOK'
  OBVIOUS
<1> USE DEF IInv, TypeOK, Steps, Stopped, Goto
<1>1. ASSUME NEW r \in Runs, Start(r) \/ LeaveEdit(r) \/ ReadEdit(r) \/ Crash(r) PROVE TypeOK'
  BY <1>1 DEF Start, LeaveEdit, ReadEdit, Crash
<1>2. ASSUME NEW r \in Runs, Measure(r) PROVE TypeOK'
  <2>1. PICK outcome \in Measurements :
          /\ results' = [results EXCEPT ![r] = outcome]
          /\ due' = [due EXCEPT ![r] = Ran(outcome)]
          /\ header' = [header EXCEPT ![r] = [state |-> "complete", promote |-> Promoted(outcome)]]
    BY <1>2 DEF Measure
  <2>2. outcome \in [SplitNames -> Results] /\ Ran(outcome) \in Owings /\ Promoted(outcome) \in BOOLEAN
    BY OwedAtFirst DEF Measurements, Promoted, Promote
  <2>3. header' \in [Runs -> [state : {"absent", "complete", "torn"}, promote : BOOLEAN]]
    BY <2>1, <2>2
  <2> QED
    BY <1>2, <2>1, <2>2, <2>3 DEF Measure, Owings
<1>3. ASSUME NEW r \in Runs, Abort(r) \/ TruncateHeader(r) \/ FillHeader(r) PROVE TypeOK'
  <2>1. header' \in [Runs -> [state : {"absent", "complete", "torn"}, promote : BOOLEAN]]
    <3>1. CASE Abort(r)
      BY <3>1 DEF Abort
    <3>2. CASE TruncateHeader(r)
      <4> DEFINE new == [state |-> "torn", promote |-> header[r].promote]
      <4>1. header[r] \in [state : {"absent", "complete", "torn"}, promote : BOOLEAN]
        OBVIOUS
      <4>2. [header[r] EXCEPT !.state = "torn"] = new
        BY <4>1, Restated
      <4>3. header' = [header EXCEPT ![r] = new]
        BY <3>2, <4>2 DEF TruncateHeader
      <4>4. new \in [state : {"absent", "complete", "torn"}, promote : BOOLEAN]
        BY <4>1
      <4> QED
        BY <4>3, <4>4
    <3>3. CASE FillHeader(r)
      <4> DEFINE new == [state |-> "complete", promote |-> header[r].promote]
      <4>1. header[r] \in [state : {"absent", "complete", "torn"}, promote : BOOLEAN]
        OBVIOUS
      <4>2. [header[r] EXCEPT !.state = "complete"] = new
        BY <4>1, Restated
      <4>3. header' = [header EXCEPT ![r] = new]
        BY <3>3, <4>2 DEF FillHeader
      <4>4. new \in [state : {"absent", "complete", "torn"}, promote : BOOLEAN]
        BY <4>1
      <4> QED
        BY <4>3, <4>4
    <3> QED
      BY <1>3, <3>1, <3>2, <3>3
  <2> QED
    BY <1>3, <2>1 DEF Abort, TruncateHeader, FillHeader
<1>4. ASSUME NEW r \in Runs, Unmeasurable(r) PROVE TypeOK'
  <2> DEFINE none == [split \in SplitNames |-> "unmeasured"]
  <2>1. none \in [SplitNames -> Results]
    BY DEF Results
  <2>2. /\ results' = [results EXCEPT ![r] = none] /\ due' = [due EXCEPT ![r] = Splits]
        /\ pc' = [pc EXCEPT ![r] = "stat"]
        /\ UNCHANGED <<edit, docs, header, seq, approval, author>>
    BY <1>4 DEF Unmeasurable
  <2> HIDE DEF none
  <2> QED
    BY <2>1, <2>2
<1>5. ASSUME NEW r \in Runs, StatDocument(r) PROVE TypeOK'
  <2> DEFINE split == Head(due[r])
  <2>1. CASE FreeSeqs(split) = {}
    BY <1>5, <2>1 DEF StatDocument
  <2>2. CASE FreeSeqs(split) # {}
    <3>1. Min(FreeSeqs(split)) \in 0..LastSeq
      BY <2>2, FreeName
    <3>2. pc' = [pc EXCEPT ![r] = "document"] /\ seq' = [seq EXCEPT ![r] = Min(FreeSeqs(split))]
          /\ UNCHANGED <<edit, docs, header, results, due, approval, author>>
      BY <1>5, <2>2 DEF StatDocument
    <3> QED
      BY <3>1, <3>2
  <2> QED
    BY <2>1, <2>2
<1>6. ASSUME NEW r \in Runs, WriteDocument(r) PROVE TypeOK'
  <2>1. due[r] \in Owings /\ due[r] # <<>>
    BY <1>6 DEF WriteDocument, Working, Owings
  <2>2. Tail(due[r]) \in Owings
    BY <2>1, OwedAfterOne
  <2>3. due' \in [Runs -> Owings]
    BY <1>6, <2>2 DEF WriteDocument, Owings
  <2>4. \A split : [by |-> r, verdict |-> VerdictOf(results[r][split]),
                    validates |-> results[r][split] # "unmeasured"] \in Documents
    BY DEF Documents, VerdictOf, Verdicts
  <2>5. docs' \in [SplitNames -> [0..LastSeq -> Documents]]
    <3> DEFINE split == Head(due[r])
               document == [by |-> r, verdict |-> VerdictOf(results[r][split]),
                            validates |-> results[r][split] # "unmeasured"]
    <3>1. docs' = [docs EXCEPT ![split][seq[r]] = document] /\ document \in Documents
      BY <1>6, <2>4 DEF WriteDocument
    <3> HIDE DEF split, document
    <3> QED
      BY <3>1
  <2> QED
    BY <1>6, <2>3, <2>5 DEF WriteDocument, Owings
<1>7. ASSUME NEW r \in Runs, Truncate(r) PROVE TypeOK'
  BY <1>7 DEF Truncate, EditStatuses
<1>8. ASSUME NEW r \in Runs, Fill(r) PROVE TypeOK'
  <2>1. Target(r).status \in EditStatuses /\ Target(r).approval \in {"human", "auto"}
    BY DEF Target, StatusAfter, EditStatuses
  <2> QED
    BY <1>8, <2>1 DEF Fill
<1>9. CASE PersonDecides
  BY <1>9 DEF PersonDecides, EditStatuses
<1>10. CASE UNCHANGED vars
  BY <1>10 DEF vars
<1> QED
  BY <1>1, <1>2, <1>3, <1>4, <1>5, <1>6, <1>7, <1>8, <1>9, <1>10 DEF Next, RunStep

\* While a run takes a step, the others are at rest and stay as they are.
LEMMA OthersRest ==
  ASSUME IInv, NEW r \in Runs, RunStep(r), NEW q \in Runs, q # r
  PROVE  /\ ~Active(q)
         /\ pc'[q] = pc[q] /\ results'[q] = results[q] /\ header'[q] = header[q]
<1>1. Active(r) \/ Start(r)
  BY DEF RunStep, Measure, Abort, Unmeasurable, StatDocument, WriteDocument, LeaveEdit,
     ReadEdit, Truncate, Fill, TruncateHeader, FillHeader, Crash, Active, Stopped
<1>2. ~Active(q)
  BY <1>1 DEF IInv, Alone, Start
<1>3. pc'[q] = pc[q] /\ results'[q] = results[q] /\ header'[q] = header[q]
  BY DEF RunStep, Start, Measure, Abort, Unmeasurable, StatDocument, WriteDocument, LeaveEdit,
     ReadEdit, Truncate, Fill, TruncateHeader, FillHeader, Crash, Goto, IInv, TypeOK
<1> QED
  BY <1>2, <1>3

\* A person comes when every run is at rest.
LEMMA PersonAlone ==
  ASSUME IInv, PersonDecides
  PROVE  \A q \in Runs : ~Active(q)
BY DEF IInv, PersonDecides

\* Every step leaves one run at work.
LEMMA AloneKept == IInv /\ [Next]_vars => Alone'
<1> SUFFICES ASSUME IInv, [Next]_vars PROVE Alone'
  OBVIOUS
<1>1. ASSUME NEW r \in Runs, RunStep(r) PROVE Alone'
  <2>1. \A q \in Runs : q # r => ~Active(q)'
    BY <1>1, OthersRest DEF Active
  <2> QED
    BY <2>1 DEF Alone
<1>2. CASE PersonDecides \/ UNCHANGED vars
  BY <1>2 DEF PersonDecides, vars, IInv, Alone, Active
<1> QED
  BY <1>1, <1>2 DEF Next

-----------------------------------------------------------------------------
(***************************************************************************)
(* The documents                                                           *)
(***************************************************************************)

\* A document is written where none is.
LEMMA Writes ==
  ASSUME IInv, NEW r \in Runs, WriteDocument(r)
  PROVE  /\ Head(due[r]) \in SplitNames /\ seq[r] \in 0..LastSeq
         /\ docs[Head(due[r])][seq[r]] = NoDocument
         /\ docs'[Head(due[r])][seq[r]] =
              [by |-> r, verdict |-> VerdictOf(results[r][Head(due[r])]),
               validates |-> results[r][Head(due[r])] # "unmeasured"]
         /\ \A s \in SplitNames, n \in 0..LastSeq :
              s # Head(due[r]) \/ n # seq[r] => docs'[s][n] = docs[s][n]
<1> DEFINE split == Head(due[r])
           document == [by |-> r, verdict |-> VerdictOf(results[r][split]),
                        validates |-> results[r][split] # "unmeasured"]
<1>1. /\ due[r] # <<>> /\ due[r] \in Owings /\ docs[split][seq[r]] = NoDocument
  BY DEF WriteDocument, IInv, Working, TypeOK, Owings
<1>2. split \in SplitNames /\ seq[r] \in 0..LastSeq
  BY <1>1, OwedAfterOne DEF IInv, TypeOK
<1>3. docs' = [docs EXCEPT ![split][seq[r]] = document]
  BY DEF WriteDocument
<1>4. docs \in [SplitNames -> [0..LastSeq -> Documents]]
  BY DEF IInv, TypeOK
<1> HIDE DEF document, split
<1>5. /\ docs'[split][seq[r]] = document
      /\ \A s \in SplitNames, n \in 0..LastSeq :
           s # split \/ n # seq[r] => docs'[s][n] = docs[s][n]
  BY <1>2, <1>3, <1>4
<1> QED
  BY <1>1, <1>2, <1>5 DEF document, split

\* Nothing else writes one.
LEMMA OnlyWritesWrite ==
  ASSUME [Next]_vars, \A r \in Runs : ~WriteDocument(r)
  PROVE  docs' = docs
BY DEF Next, RunStep, Start, Measure, Abort, Unmeasurable, StatDocument, LeaveEdit,
   ReadEdit, Truncate, Fill, TruncateHeader, FillHeader, Crash, PersonDecides, vars

\* None is written over.
LEMMA Kept ==
  ASSUME IInv, [Next]_vars, NEW split \in SplitNames, NEW n \in 0..LastSeq
  PROVE  docs[split][n] # NoDocument => docs'[split][n] = docs[split][n]
<1>1. ASSUME NEW r \in Runs, WriteDocument(r)
      PROVE  docs[split][n] # NoDocument => docs'[split][n] = docs[split][n]
  BY <1>1, Writes
<1> QED
  BY <1>1, OnlyWritesWrite

\* A run's documents are written by that run.
LEMMA OwnHand ==
  ASSUME IInv, [Next]_vars, NEW q \in Runs, ~WriteDocument(q),
         NEW split \in SplitNames, NEW n \in 0..LastSeq
  PROVE  docs'[split][n].by = q <=> docs[split][n].by = q
<1>1. ASSUME NEW r \in Runs, WriteDocument(r)
      PROVE  docs'[split][n].by = q <=> docs[split][n].by = q
  <2>1. CASE split = Head(due[r]) /\ n = seq[r]
    <3>1. /\ docs[Head(due[r])][seq[r]] = NoDocument
          /\ docs'[Head(due[r])][seq[r]].by = r
      <4>1. docs[Head(due[r])][seq[r]] = NoDocument
        BY <1>1, Writes
      <4>2. docs'[Head(due[r])][seq[r]] =
              [by |-> r, verdict |-> VerdictOf(results[r][Head(due[r])]),
               validates |-> results[r][Head(due[r])] # "unmeasured"]
        BY <1>1, Writes
      <4> QED
        BY <4>1, <4>2
    <3>2. docs[split][n] = NoDocument /\ docs'[split][n].by = r
      BY <2>1, <3>1
    <3> QED
      BY <1>1, <3>2, EditRunsAssumption DEF NoDocument
  <2>2. CASE ~(split = Head(due[r]) /\ n = seq[r])
    BY <1>1, <2>2, Writes
  <2> QED
    BY <2>1, <2>2
<1> QED
  BY <1>1, OnlyWritesWrite

\* What is on file stays on file.
LEMMA OnFileStays ==
  ASSUME IInv, [Next]_vars, NEW r \in Runs, NEW split \in SplitNames,
         OnFile(r, split), results'[r] = results[r]
  PROVE  OnFile(r, split)'
<1>1. PICK n \in 0..LastSeq :
        docs[split][n] = [by |-> r, verdict |-> VerdictOf(results[r][split]),
                          validates |-> results[r][split] # "unmeasured"]
  BY DEF OnFile
<1>2. docs[split][n] # NoDocument
  BY <1>1, EditRunsAssumption DEF NoDocument
<1>3. docs'[split][n] = docs[split][n]
  BY <1>2, Kept
<1> QED
  BY <1>1, <1>3 DEF OnFile

-----------------------------------------------------------------------------
(***************************************************************************)
(* The run at work                                                         *)
(***************************************************************************)

\* The first steps of a run, to its measurement.
LEMMA BeginningWorks ==
  ASSUME IInv, [Next]_vars, NEW r \in Runs,
         Start(r) \/ Measure(r) \/ Abort(r) \/ Unmeasurable(r)
  PROVE  (Fresh(r) /\ Unstarted(r) /\ Working(r))'
<1> USE DEF IInv, TypeOK, Goto
<1>1. CASE Start(r)
  <2>1. \A split \in SplitNames, n \in 0..LastSeq : docs'[split][n].by # r
    BY <1>1 DEF Start, Fresh
  <2>2. results'[r] = Nothing /\ header'[r] = NoHeader /\ pc'[r] \in {"measure", "refused"}
        /\ (pc'[r] = "measure" => edit'.status = "proposed")
    BY <1>1 DEF Start, Fresh, Unstarted
  <2> QED
    BY <2>1, <2>2 DEF Fresh, Unstarted, Working
<1>2. CASE Measure(r)
  <2>1. PICK outcome \in Measurements :
          /\ results' = [results EXCEPT ![r] = outcome]
          /\ due' = [due EXCEPT ![r] = Ran(outcome)]
          /\ header' = [header EXCEPT ![r] = [state |-> "complete", promote |-> Promoted(outcome)]]
    BY <1>2 DEF Measure
  <2>2. /\ pc'[r] = "stat" /\ results'[r] = outcome /\ due'[r] = Ran(outcome)
        /\ header'[r].promote = Promoted(outcome) /\ edit'.status = "proposed"
    BY <1>2, <2>1 DEF Measure, Working
  <2>3. outcome \in [SplitNames -> Results]
        /\ \A split \in SplitNames : outcome[split] = "not_run" \/ split \in Owed(Ran(outcome))
    BY OwedAtFirst DEF Measurements
  <2> QED
    BY <2>2, <2>3 DEF Fresh, Unstarted, Working
<1>3. CASE Abort(r)
  BY <1>3 DEF Abort, Fresh, Unstarted, Working
<1>4. CASE Unmeasurable(r)
  <2> DEFINE none == [split \in SplitNames |-> "unmeasured"]
  <2>1. /\ pc'[r] = "stat" /\ results'[r] = none /\ due'[r] = Splits
        /\ header'[r] = NoHeader /\ edit'.status = "proposed"
    BY <1>4 DEF Unmeasurable, Working
  <2>2. none \in [SplitNames -> Results] /\ ~Promoted(none)
    BY DEF Results, Promoted, Promote, VerdictOf, Verdicts, SplitNames
  <2>3. ~header'[r].promote /\ (header'[r].promote = Promoted(none))
    BY <2>1, <2>2 DEF NoHeader, Promoted, Promote
  <2> HIDE DEF none
  <2> QED
    BY <2>1, <2>2, <2>3, OwedAtFirst DEF Fresh, Unstarted, Working
<1> QED
  BY <1>1, <1>2, <1>3, <1>4

\* Looking for a name, and writing the document.
LEMMA DocumentsWork ==
  ASSUME IInv, [Next]_vars, NEW r \in Runs, StatDocument(r) \/ WriteDocument(r)
  PROVE  (Fresh(r) /\ Unstarted(r) /\ Working(r))'
<1> USE DEF IInv, TypeOK, Goto
<1>1. CASE StatDocument(r)
  <2> DEFINE free == FreeSeqs(Head(due[r]))
  <2>1. CASE free = {}
    BY <1>1, <2>1 DEF StatDocument, Fresh, Unstarted, Working
  <2>2. CASE free # {}
    <3>1. pc'[r] = "document" /\ seq'[r] = Min(free) /\ due[r] # <<>> /\ pc[r] = "stat"
          /\ UNCHANGED <<edit, docs, header, results, due>>
      BY <1>1, <2>2 DEF StatDocument
    <3>2. docs'[Head(due'[r])][seq'[r]] = NoDocument
      BY <2>2, <3>1, FreeName
    <3>3. \A split \in SplitNames : OnFile(r, split)' <=> OnFile(r, split)
      BY <3>1 DEF OnFile
    <3> HIDE DEF free
    <3> QED
      BY <3>1, <3>2, <3>3 DEF Fresh, Unstarted, Working
  <2> QED
    BY <2>1, <2>2
<1>2. CASE WriteDocument(r)
  <2>1. /\ pc'[r] = "stat" /\ pc[r] = "document" /\ due'[r] = Tail(due[r]) /\ due[r] # <<>>
        /\ UNCHANGED <<edit, header, results>>
    BY <1>2 DEF WriteDocument, Working
  <2>2. PICK first \in SplitNames : first = Head(due[r])
    BY <1>2, Writes
  <2>3. OnFile(r, first)'
    <3>1. /\ seq[r] \in 0..LastSeq
          /\ docs'[first][seq[r]] = [by |-> r, verdict |-> VerdictOf(results[r][first]),
                                     validates |-> results[r][first] # "unmeasured"]
      BY <1>2, <2>2, Writes
    <3>2. results'[r][first] = results[r][first]
      BY <2>1
    <3> QED
      BY <3>1, <3>2 DEF OnFile
  <2>4. Owed(due[r]) \subseteq Owed(due'[r]) \cup {first}
    BY <2>1, <2>2, OwedAfterOne DEF Owings
  <2>5. \A split \in SplitNames : OnFile(r, split) => OnFile(r, split)'
    BY <2>1, OnFileStays
  <2>6. \A split \in SplitNames :
          results'[r][split] = "not_run" \/ split \in Owed(due'[r]) \/ OnFile(r, split)'
    BY <2>1, <2>3, <2>4, <2>5 DEF Working
  <2>7. /\ results'[r] \in [SplitNames -> Results] /\ header'[r].promote = Promoted(results'[r])
        /\ edit'.status = "proposed"
    BY <2>1 DEF Working
  <2> QED
    BY <2>1, <2>6, <2>7 DEF Fresh, Unstarted, Working
<1> QED
  BY <1>1, <1>2

\* Moving the edit, and the end of a run.
LEMMA EndWorks ==
  ASSUME IInv, [Next]_vars, NEW r \in Runs,
         \/ LeaveEdit(r) \/ ReadEdit(r) \/ Truncate(r) \/ Fill(r)
         \/ TruncateHeader(r) \/ FillHeader(r) \/ Crash(r)
  PROVE  (Fresh(r) /\ Unstarted(r) /\ Working(r))'
<1> USE DEF IInv, TypeOK, Goto
<1>1. CASE ReadEdit(r)
  <2>1. /\ pc'[r] \in {"truncate", "failed"} /\ pc[r] = "stat" /\ due[r] = <<>> /\ Moves(r)
        /\ UNCHANGED <<edit, docs, header, results, due, approval>>
    BY <1>1 DEF ReadEdit
  <2>2. Moves(r)' /\ \A split \in SplitNames : OnFile(r, split)' <=> OnFile(r, split)
    BY <2>1 DEF Moves, Target, OnFile
  <2> QED
    BY <2>1, <2>2 DEF Fresh, Unstarted, Working
<1>2. CASE Truncate(r)
  <2>1. /\ pc'[r] = "fill" /\ pc[r] = "truncate" /\ edit'.status = "torn"
        /\ edit'.autonomy = edit.autonomy /\ UNCHANGED <<docs, header, results, due, approval>>
    BY <1>2 DEF Truncate
  <2>2. Moves(r)' <=> Moves(r)
    BY <2>1 DEF Moves, Target
  <2>3. \A split \in SplitNames : OnFile(r, split)' <=> OnFile(r, split)
    BY <2>1 DEF OnFile
  <2> QED
    BY <2>1, <2>2, <2>3 DEF Fresh, Unstarted, Working
<1>3. CASE LeaveEdit(r) \/ Fill(r) \/ TruncateHeader(r) \/ FillHeader(r) \/ Crash(r)
  <2>1. pc'[r] \in {"header", "refill", "done", "crashed"}
    BY <1>3 DEF LeaveEdit, Fill, TruncateHeader, FillHeader, Crash
  <2> QED
    BY <2>1 DEF Fresh, Unstarted, Working
<1> QED
  BY <1>1, <1>2, <1>3

\* Every step leaves every run as its next step needs it.
LEMMA WorkKept ==
  IInv /\ [Next]_vars => \A q \in Runs : (Fresh(q) /\ Unstarted(q) /\ Working(q))'
<1> SUFFICES ASSUME IInv, [Next]_vars, NEW q \in Runs
             PROVE  (Fresh(q) /\ Unstarted(q) /\ Working(q))'
  OBVIOUS
<1>1. ASSUME NEW r \in Runs, RunStep(r) PROVE (Fresh(q) /\ Unstarted(q) /\ Working(q))'
  <2>1. CASE q = r
    BY <1>1, <2>1, BeginningWorks, DocumentsWork, EndWorks DEF RunStep
  <2>2. CASE q # r
    <3>1. ~Active(q) /\ pc'[q] = pc[q] /\ results'[q] = results[q] /\ header'[q] = header[q]
      BY <1>1, <2>2, OthersRest
    <3>2. ~WriteDocument(q)
      BY <3>1 DEF WriteDocument, Active, Stopped
    <3>3. Working(q)'
      BY <3>1 DEF Working, Active, Stopped
    <3>4. Fresh(q)'
      BY <3>1, <3>2, OwnHand DEF IInv, Fresh
    <3> QED
      BY <3>1, <3>3, <3>4 DEF IInv, Unstarted
  <2> QED
    BY <2>1, <2>2
<1>2. CASE PersonDecides
  <2>1. ~Active(q) /\ UNCHANGED <<pc, results, header, docs>>
    BY <1>2, PersonAlone DEF PersonDecides
  <2>2. Working(q)'
    BY <2>1 DEF Working, Active, Stopped
  <2> QED
    BY <2>1, <2>2 DEF IInv, Fresh, Unstarted
<1>3. CASE UNCHANGED vars
  BY <1>3 DEF vars, IInv, Fresh, Unstarted, Working, OnFile, Moves, Target
<1> QED
  BY <1>1, <1>2, <1>3 DEF Next

-----------------------------------------------------------------------------
(***************************************************************************)
(* The decision                                                            *)
(***************************************************************************)

\* What the vault reads off its documents it goes on reading.
LEMMA ValidatingStays ==
  ASSUME IInv, [Next]_vars, NEW split \in SplitNames, NEW verdicts, Validating(split, verdicts)
  PROVE  Validating(split, verdicts)'
<1>1. PICK n \in 0..LastSeq : docs[split][n].validates /\ docs[split][n].verdict \in verdicts
  BY DEF Validating
<1>2. docs[split][n] # NoDocument
  BY <1>1 DEF NoDocument
<1>3. docs'[split][n] = docs[split][n]
  BY <1>2, Kept
<1> QED
  BY <1>1, <1>3 DEF Validating

\* A run about to move the edit has filed what its decision needs.
LEMMA DecisionIsFiled ==
  ASSUME IInv, NEW r \in Runs, pc[r] = "fill"
  PROVE  /\ Target(r).status \in {"accepted", "rejected"}
         /\ Target(r).status = "accepted" =>
              /\ \A split \in SplitNames : NotRegressed(split)
              /\ Improved /\ edit.autonomy = "auto-accept" /\ header[r].promote
         /\ Target(r).status = "rejected" =>
              \E split \in SplitNames : Validating(split, {"regress"})
<1>1. /\ results[r] \in [SplitNames -> Results] /\ header[r].promote = Promoted(results[r])
      /\ due[r] = <<>> /\ Moves(r)
      /\ \A split \in SplitNames : results[r][split] = "not_run" \/ OnFile(r, split)
  BY OwedAtFirst DEF IInv, Working
<1>2. Target(r).status = StatusAfter(results[r], edit.autonomy, "proposed")
  BY DEF Target
<1>3. ASSUME NEW split \in SplitNames, NEW verdicts, VerdictOf(results[r][split]) \in verdicts,
             VerdictOf(results[r][split]) # "inconclusive"
      PROVE  Validating(split, verdicts)
  <2>1. results[r][split] \notin {"not_run", "unmeasured"}
    BY <1>3 DEF VerdictOf, Verdicts
  <2>2. PICK n \in 0..LastSeq :
          docs[split][n] = [by |-> r, verdict |-> VerdictOf(results[r][split]),
                            validates |-> results[r][split] # "unmeasured"]
    BY <1>1, <2>1 DEF OnFile
  <2>3. docs[split][n].verdict = VerdictOf(results[r][split]) /\ docs[split][n].validates
    <3>1. docs[split][n].verdict = VerdictOf(results[r][split])
      BY <2>2
    <3>2. docs[split][n].validates = (results[r][split] # "unmeasured")
      BY <2>2
    <3> QED
      BY <2>1, <3>1, <3>2
  <2> QED
    BY <1>3, <2>3 DEF Validating
<1>4. Target(r).status \in {"accepted", "rejected"}
  BY <1>1, <1>2 DEF StatusAfter, Moves
<1>5. ASSUME Target(r).status = "accepted"
      PROVE  /\ \A split \in SplitNames : NotRegressed(split)
             /\ Improved /\ edit.autonomy = "auto-accept" /\ header[r].promote
  <2>1. Promoted(results[r]) /\ edit.autonomy = "auto-accept"
    BY <1>2, <1>5 DEF StatusAfter
  <2>2. /\ \A split \in SplitNames : VerdictOf(results[r][split]) \in {"improve", "hold"}
        /\ \E split \in SplitNames : VerdictOf(results[r][split]) = "improve"
    BY <2>1 DEF Promoted, Promote, SplitNames
  <2>3. \A split \in SplitNames : NotRegressed(split)
    BY <1>3, <2>2 DEF NotRegressed
  <2>4. Improved
    BY <1>3, <2>2 DEF Improved
  <2> QED
    BY <1>1, <2>1, <2>3, <2>4
<1>6. ASSUME Target(r).status = "rejected"
      PROVE  \E split \in SplitNames : Validating(split, {"regress"})
  <2>1. PICK split \in SplitNames : VerdictOf(results[r][split]) = "regress"
    BY <1>2, <1>6 DEF StatusAfter, Regressed
  <2> QED
    BY <1>3, <2>1
<1> QED
  BY <1>4, <1>5, <1>6

\* Every step keeps the decision within the vault's rules.
LEMMA DecisionKept == IInv /\ [Next]_vars => DecisionsPassTheVault'
<1> SUFFICES ASSUME IInv, [Next]_vars PROVE DecisionsPassTheVault'
  OBVIOUS
<1>1. ASSUME NEW r \in Runs, Fill(r) PROVE DecisionsPassTheVault'
  <2>1. /\ author' = r /\ UNCHANGED <<docs, header>> /\ pc[r] = "fill"
        /\ edit' = [edit EXCEPT !.status = Target(r).status, !.approval = Target(r).approval]
    BY <1>1 DEF Fill
  <2>2. edit'.status = Target(r).status /\ edit'.autonomy = edit.autonomy
    BY <2>1 DEF IInv, TypeOK
  <2>3. /\ \A split, verdicts : Validating(split, verdicts)' <=> Validating(split, verdicts)
        /\ \A split : NotRegressed(split)' <=> NotRegressed(split)
        /\ Improved' <=> Improved
    BY <2>1 DEF Validating, NotRegressed, Improved
  <2>4. /\ Target(r).status = "accepted" =>
             /\ \A split \in SplitNames : NotRegressed(split)
             /\ Improved /\ edit.autonomy = "auto-accept" /\ header[r].promote
        /\ Target(r).status = "rejected" =>
             \E split \in SplitNames : Validating(split, {"regress"})
    BY <2>1, DecisionIsFiled
  <2> QED
    BY <2>1, <2>2, <2>3, <2>4 DEF DecisionsPassTheVault
<1>2. ASSUME NEW r \in Runs, Truncate(r) PROVE DecisionsPassTheVault'
  BY <1>2 DEF Truncate, DecisionsPassTheVault, IInv, TypeOK
<1>3. CASE PersonDecides
  BY <1>3, EditRunsAssumption DEF PersonDecides, DecisionsPassTheVault
<1>4. CASE ~PersonDecides /\ \A r \in Runs : ~Fill(r) /\ ~Truncate(r)
  <2>1. edit' = edit /\ author' = author
    BY <1>4 DEF Next, RunStep, Start, Measure, Abort, Unmeasurable, StatDocument, WriteDocument,
       LeaveEdit, ReadEdit, TruncateHeader, FillHeader, Crash, vars
  <2>2. ASSUME author \in Runs, edit.status = "accepted", header[author].promote
        PROVE  header'[author].promote
    <3>1. pc[author] # "measure"
      BY <2>2 DEF IInv, Working
    <3>2. \/ header'[author] = header[author]
          \/ \E s \in {"torn", "complete"} : header'[author] = [header[author] EXCEPT !.state = s]
      <4>1. ASSUME RunStep(author)
            PROVE  \/ header' = header
                   \/ \E s \in {"torn", "complete"} : header' = [header EXCEPT ![author].state = s]
        BY <1>4, <2>2, <3>1, <4>1 DEF RunStep, Start, Measure, Abort, Unmeasurable, StatDocument,
           WriteDocument, LeaveEdit, ReadEdit, TruncateHeader, FillHeader, Crash
      <4>2. ASSUME NEW r \in Runs, RunStep(r), r # author PROVE header'[author] = header[author]
        BY <2>2, <4>2, OthersRest
      <4>3. CASE UNCHANGED vars
        BY <4>3 DEF vars
      <4>4. header \in [Runs -> [state : {"absent", "complete", "torn"}, promote : BOOLEAN]]
        BY DEF IInv, TypeOK
      <4> QED
        BY <1>4, <2>2, <4>1, <4>2, <4>3, <4>4 DEF Next
    <3> QED
      BY <2>2, <3>2, Restated DEF IInv, TypeOK
  <2>3. \A split \in SplitNames :
          /\ NotRegressed(split) => NotRegressed(split)'
          /\ Validating(split, {"improve"}) => Validating(split, {"improve"})'
          /\ Validating(split, {"regress"}) => Validating(split, {"regress"})'
    BY ValidatingStays DEF NotRegressed
  <2>4. Improved => Improved'
    BY <2>3 DEF Improved
  <2> QED
    BY <2>1, <2>2, <2>3, <2>4 DEF IInv, DecisionsPassTheVault
<1> QED
  BY <1>1, <1>2, <1>3, <1>4

\* The invariant is inductive.
LEMMA Invariant == Spec /\ ~Overlap => []IInv
<1>1. IInv /\ [Next]_vars => IInv'
  BY TypesKept, AloneKept, WorkKept, DecisionKept DEF IInv
<1> QED
  BY <1>1, InitIInv, PTL DEF Spec

-----------------------------------------------------------------------------
(***************************************************************************)
(* The refinement: what EditLifecycle sees of each step                    *)
(***************************************************************************)
Seen == IF edit.status # "torn" THEN edit.status
        ELSE IF \E r \in Runs : pc[r] = "fill" THEN "proposed" ELSE "damaged"
Filed == [r \in Runs |-> IF Documented(r) THEN results[r] ELSE Nothing]

Refined == [Lifecycle!LifeNext]_(Lifecycle!lifeVars)

\* Both specifications speak the same words.
LEMMA SameWords ==
  /\ \A filed, autonomy, was :
       Lifecycle!StatusAfter(filed, autonomy, was) = StatusAfter(filed, autonomy, was)
  /\ Lifecycle!Nothing = Nothing /\ Lifecycle!SplitNames = SplitNames
  /\ Lifecycle!Results = Results /\ Lifecycle!Autonomies = Autonomies
<1>1. Lifecycle!Verdicts = Verdicts /\ Lifecycle!SplitNames = SplitNames
  BY DEF Verdicts, Lifecycle!Verdicts, SplitNames, Lifecycle!SplitNames
<1>2. \A result : Lifecycle!VerdictOf(result) = VerdictOf(result)
  BY <1>1 DEF VerdictOf, Lifecycle!VerdictOf
<1>3. /\ \A filed : Lifecycle!Regressed(filed) <=> Regressed(filed)
      /\ \A filed : Lifecycle!Promoted(filed) <=> Promoted(filed)
  BY <1>1, <1>2 DEF Regressed, Lifecycle!Regressed, Promoted, Lifecycle!Promoted,
     Promote, Lifecycle!Promote
<1> QED
  BY <1>1, <1>3 DEF StatusAfter, Lifecycle!StatusAfter, Nothing, Lifecycle!Nothing,
     Results, Lifecycle!Results, Autonomies, Lifecycle!Autonomies

\* A measurement is not nothing.
LEMMA MeasuredIsSomething ==
  ASSUME NEW outcome \in [SplitNames -> Results] PROVE outcome # Nothing
<1>1. outcome["held_in"] \in Results /\ Nothing["held_in"] = "none"
  BY DEF SplitNames, Nothing
<1> QED
  BY <1>1 DEF Results, Verdicts

\* What a run has filed changes by its own measurement and its own writes only.
LEMMA FiledStays ==
  ASSUME IInv, [Next]_vars, NEW q \in Runs, results'[q] = results[q], ~WriteDocument(q)
  PROVE  (Documented(q)' <=> Documented(q)) /\ Filed'[q] = Filed[q]
<1>1. Documented(q)' <=> Documented(q)
  BY OwnHand DEF Documented
<1> QED
  BY <1>1 DEF Filed

\* The first measurement of a run is not yet on file.
LEMMA MeasuringFilesNothing ==
  ASSUME IInv, [Next]_vars, NEW r \in Runs, Measure(r) \/ Unmeasurable(r)
  PROVE  Filed'[r] = Filed[r]
<1>1. results[r] = Nothing
      /\ \A split \in SplitNames, n \in 0..LastSeq : docs'[split][n].by # r
  BY DEF Measure, Unmeasurable, IInv, Fresh
<1>2. results'[r]["held_in"] # "not_run"
  BY DEF Measure, Unmeasurable, Measurements, SplitNames, IInv, TypeOK
<1>3. ~Documented(r) /\ ~Documented(r)'
  BY <1>1, <1>2 DEF Documented, SplitNames
<1> QED
  BY <1>3 DEF Filed

\* Steps that neither write a document nor touch the edit are not seen.
LEMMA UnseenSteps ==
  ASSUME IInv, [Next]_vars, NEW r \in Runs, RunStep(r),
         ~WriteDocument(r), ~Truncate(r), ~Fill(r), ~(Crash(r) /\ pc[r] = "fill")
  PROVE  UNCHANGED Lifecycle!lifeVars
<1>1. edit' = edit /\ author' = author
  BY DEF RunStep, Start, Measure, Abort, Unmeasurable, StatDocument, LeaveEdit, ReadEdit,
     TruncateHeader, FillHeader, Crash
<1>2. pc[r] # "fill" /\ pc'[r] # "fill"
  BY DEF RunStep, Start, Measure, Abort, Unmeasurable, StatDocument, LeaveEdit, ReadEdit,
     TruncateHeader, FillHeader, Crash, Goto, IInv, TypeOK
<1>3. \A q \in Runs : pc'[q] = "fill" <=> pc[q] = "fill"
  BY <1>2, OthersRest
<1>4. Filed'[r] = Filed[r]
  <2>1. CASE Measure(r) \/ Unmeasurable(r)
    BY <2>1, MeasuringFilesNothing
  <2>2. CASE ~Measure(r) /\ ~Unmeasurable(r)
    <3>1. results' = results
      BY <2>2 DEF RunStep, Start, Abort, StatDocument, LeaveEdit, ReadEdit,
         TruncateHeader, FillHeader, Crash
    <3> QED
      BY <3>1, FiledStays
  <2> QED
    BY <2>1, <2>2
<1>5. \A q \in Runs : Filed'[q] = Filed[q]
  <2>1. ASSUME NEW q \in Runs, q # r PROVE Filed'[q] = Filed[q]
    <3>1. ~Active(q) /\ results'[q] = results[q]
      BY <2>1, OthersRest
    <3>2. ~WriteDocument(q)
      BY <3>1 DEF WriteDocument, Active, Stopped
    <3> QED
      BY <3>1, <3>2, FiledStays
  <2> QED
    BY <1>4, <2>1
<1>6. Filed' = Filed /\ Seen' = Seen
  BY <1>1, <1>3, <1>5 DEF Filed, Seen
<1> QED
  BY <1>1, <1>6 DEF Lifecycle!lifeVars, Filed, Seen

\* The last document of a run puts its measurement on file.
LEMMA WritingFiles ==
  ASSUME IInv, [Next]_vars, NEW r \in Runs, WriteDocument(r)
  PROVE  Refined
<1>1. /\ UNCHANGED <<edit, author, results>> /\ pc[r] = "document"
      /\ edit.status = "proposed" /\ results[r] \in [SplitNames -> Results]
  BY DEF WriteDocument, IInv, Working
<1>2. \A q \in Runs : q # r => Filed'[q] = Filed[q]
  <2>1. ASSUME NEW q \in Runs, q # r PROVE Filed'[q] = Filed[q]
    <3>1. ~Active(q)
      BY <2>1, OthersRest DEF RunStep
    <3>2. ~WriteDocument(q)
      BY <3>1 DEF WriteDocument, Active, Stopped
    <3> QED
      BY <1>1, <3>2, FiledStays
  <2> QED
    BY <2>1
<1>3. Documented(r) => Documented(r)'
  <2>1. \A split \in SplitNames, n \in 0..LastSeq :
          docs[split][n].by = r => docs'[split][n].by = r
    BY Kept, EditRunsAssumption DEF NoDocument
  <2> QED
    BY <1>1, <2>1 DEF Documented
<1>4. Seen = "proposed" /\ Seen' = Seen
  BY <1>1 DEF Seen
<1>5. CASE Documented(r) \/ ~Documented(r)'
  <2>1. Filed'[r] = Filed[r]
    BY <1>1, <1>3, <1>5 DEF Filed
  <2>2. Filed' = Filed
    BY <1>2, <2>1 DEF Filed
  <2> QED
    BY <1>1, <1>4, <2>2 DEF Refined, Lifecycle!lifeVars, Filed, Seen
<1>6. CASE ~Documented(r) /\ Documented(r)'
  <2>1. Filed[r] = Nothing /\ Filed'[r] = results[r]
    BY <1>1, <1>6 DEF Filed
  <2>2. Filed' = [Filed EXCEPT ![r] = results[r]]
    BY <1>2, <2>1 DEF Filed
  <2>3. Lifecycle!File(r)
    BY <1>1, <1>4, <2>1, <2>2, SameWords DEF Lifecycle!File, Filed, Seen
  <2> QED
    BY <2>3 DEF Refined, Lifecycle!LifeNext
<1> QED
  BY <1>5, <1>6

\* Emptying the edit's document shows nothing; filling it is the decision.
LEMMA RewritingDecides ==
  ASSUME IInv, [Next]_vars, NEW r \in Runs, Truncate(r) \/ Fill(r)
  PROVE  Refined
<1>1. UNCHANGED <<docs, results>>
  BY DEF Truncate, Fill
<1>2. Filed' = Filed
  BY <1>1 DEF Filed, Documented
<1>3. CASE Truncate(r)
  <2>1. /\ edit.status = "proposed" /\ edit'.status = "torn" /\ edit'.autonomy = edit.autonomy
        /\ pc'[r] = "fill" /\ author' = author
    BY <1>3 DEF Truncate, Goto, IInv, TypeOK, Working
  <2>2. Seen' = Seen
    BY <2>1 DEF Seen
  <2> QED
    BY <1>2, <2>1, <2>2 DEF Refined, Lifecycle!lifeVars, Filed, Seen
<1>4. CASE Fill(r)
  <2>1. /\ pc[r] = "fill" /\ edit.status = "torn" /\ author' = r
        /\ edit'.status = Target(r).status /\ edit'.autonomy = edit.autonomy
    BY <1>4 DEF Fill, IInv, TypeOK, Working
  <2>2. Target(r).status \in {"accepted", "rejected"}
    BY <2>1, DecisionIsFiled
  <2>3. Seen = "proposed" /\ Seen' = Target(r).status
    BY <2>1, <2>2 DEF Seen
  <2>4. /\ results[r] \in [SplitNames -> Results] /\ due[r] = <<>>
        /\ \A split \in SplitNames : results[r][split] = "not_run" \/ OnFile(r, split)
    BY <2>1, OwedAtFirst DEF IInv, Working
  <2>5. Documented(r)
    <3>1. \A split \in SplitNames : OnFile(r, split) => \E n \in 0..LastSeq : docs[split][n].by = r
      BY DEF OnFile
    <3> QED
      BY <2>4, <3>1, MeasuredIsSomething DEF Documented
  <2>6. Filed[r] = results[r] /\ Filed[r] # Nothing
    BY <2>4, <2>5, MeasuredIsSomething DEF Filed
  <2>7. Seen' = StatusAfter(Filed[r], edit.autonomy, "proposed") /\ Seen' # Seen
    BY <2>2, <2>3, <2>6 DEF Target
  <2>8. Lifecycle!RunDecides(r)
    BY <1>2, <2>1, <2>3, <2>6, <2>7, SameWords DEF Lifecycle!RunDecides, Filed, Seen
  <2> QED
    BY <2>8 DEF Refined, Lifecycle!LifeNext
<1> QED
  BY <1>3, <1>4

\* A process that dies between the two leaves a document that no longer reads.
LEMMA DyingDamages ==
  ASSUME IInv, [Next]_vars, NEW r \in Runs, Crash(r), pc[r] = "fill"
  PROVE  Refined
<1>1. /\ edit.status = "torn" /\ UNCHANGED <<edit, docs, results, author>> /\ pc'[r] = "crashed"
  BY DEF Crash, Goto, IInv, TypeOK, Working
<1>2. \A q \in Runs : pc'[q] # "fill"
  <2>1. ASSUME NEW q \in Runs, q # r PROVE pc'[q] # "fill"
    BY <2>1, OthersRest DEF RunStep, Active, Stopped
  <2> QED
    BY <1>1, <2>1
<1>3. Seen = "proposed" /\ Seen' = "damaged" /\ Filed' = Filed
  BY <1>1, <1>2 DEF Seen, Filed, Documented
<1> QED
  BY <1>1, <1>3 DEF Refined, Lifecycle!LifeNext, Lifecycle!Damage, Filed, Seen

\* A person's edit is a person's decision.
LEMMA PersonIsSeen ==
  ASSUME IInv, PersonDecides PROVE Refined
<1>1. /\ edit.status = "proposed" /\ edit'.status \in {"accepted", "rejected", "withdrawn"}
      /\ edit'.autonomy = edit.autonomy /\ author' = "person" /\ UNCHANGED <<docs, results>>
  BY DEF PersonDecides, IInv, TypeOK
<1>2. Seen = "proposed" /\ Seen' = edit'.status /\ Filed' = Filed
  BY <1>1 DEF Seen, Filed, Documented
<1> QED
  BY <1>1, <1>2 DEF Refined, Lifecycle!LifeNext, Lifecycle!PersonDecides, Filed, Seen

-----------------------------------------------------------------------------
(***************************************************************************)
(* The results                                                             *)
(***************************************************************************)

\* Whatever dies and whoever decides by hand: the status a run writes is one
\* the vault's rules allow (record.go, apply; vault.go, uzushioRules).
THEOREM DecisionsPass == Spec /\ ~Overlap => []DecisionsPassTheVault
<1>1. IInv => DecisionsPassTheVault
  BY DEF IInv
<1> QED
  BY <1>1, Invariant, PTL

\* No run document is ever written over (record.go, writeDocument).
THEOREM AppendOnly == Spec /\ ~Overlap => DocumentsAreAppendOnly
<1> DEFINE Stays == \A split \in SplitNames, n \in 0..LastSeq :
                      docs[split][n] # NoDocument => docs'[split][n] = docs[split][n]
<1>1. IInv /\ [Next]_vars => [Stays]_vars
  BY Kept
<1> QED
  BY <1>1, Invariant, PTL DEF Spec, DocumentsAreAppendOnly

\* One run after the other, through whatever dies: the history of the edit's
\* document is one the vault promises, decided at most once and on results
\* already on file (record.go, record and apply).
THEOREM ImplementsTheLifecycle == Spec /\ ~Overlap => ImplementsLifecycle
<1>1. Init => Lifecycle!LifeInit
  <2> SUFFICES ASSUME Init PROVE Lifecycle!LifeInit
    OBVIOUS
  <2>1. \A r \in Runs : ~Documented(r)
    BY DEF Init, Documented
  <2>2. edit.autonomy \in Autonomies /\ Seen = "proposed" /\ author = "nobody"
    BY DEF Init, Seen
  <2>3. Filed = [r \in Runs |-> Nothing]
    BY <2>1 DEF Filed
  <2> QED
    BY <2>2, <2>3, SameWords DEF Lifecycle!LifeInit, Filed, Seen
<1>2. IInv /\ [Next]_vars => [Lifecycle!LifeNext]_(Lifecycle!lifeVars)
  <2> SUFFICES ASSUME IInv, [Next]_vars PROVE Refined
    BY DEF Refined
  <2>1. ASSUME NEW r \in Runs, RunStep(r) PROVE Refined
    <3>1. CASE WriteDocument(r)
      BY <3>1, WritingFiles
    <3>2. CASE Truncate(r) \/ Fill(r)
      BY <3>2, RewritingDecides
    <3>3. CASE Crash(r) /\ pc[r] = "fill"
      BY <3>3, DyingDamages
    <3>4. CASE ~WriteDocument(r) /\ ~Truncate(r) /\ ~Fill(r) /\ ~(Crash(r) /\ pc[r] = "fill")
      BY <2>1, <3>4, UnseenSteps DEF Refined
    <3> QED
      BY <3>1, <3>2, <3>3, <3>4
  <2>2. CASE PersonDecides
    BY <2>2, PersonIsSeen
  <2>3. CASE UNCHANGED vars
    <3>1. Seen' = Seen /\ Filed' = Filed /\ UNCHANGED <<edit, author>>
      BY <2>3 DEF vars, Seen, Filed, Documented
    <3> QED
      BY <3>1 DEF Refined, Lifecycle!lifeVars, Seen, Filed
  <2> QED
    BY <2>1, <2>2, <2>3 DEF Next
<1> QED
  BY <1>1, <1>2, Invariant, PTL DEF Spec, ImplementsLifecycle, Lifecycle!LifeSpec
=============================================================================
