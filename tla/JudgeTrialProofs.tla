-------------------------- MODULE JudgeTrialProofs --------------------------
(***************************************************************************)
(* Theorems about JudgeTrial, for every plan, card and set of inputs and   *)
(* any number of passes.                                                   *)
(***************************************************************************)
EXTENDS JudgeTrial, FiniteSetTheorems, WellFoundedInduction, TLAPS

-----------------------------------------------------------------------------
(***************************************************************************)
(* The plan: what flattening, the marks of the known failures and the      *)
(* blocks make of the manifests.                                           *)
(***************************************************************************)
\* x is before y in a sequence.
Before(s, x, y) == \E a, b \in DOMAIN s : a < b /\ s[a] = x /\ s[b] = y

\* Sets of naturals have a least element.
LEMMA LeastIs ==
  ASSUME NEW T \in SUBSET Nat, T # {}
  PROVE  \E n \in T : \A m \in T : n <= m
<1> DEFINE R == {ss \in Nat \X Nat : ss[1] < ss[2]}
<1>1. IsWellFoundedOn(R, Nat)
  BY NatLessThanWellFounded, Zenon DEF OpToRel
<1>2. PICK n \in T : \A m \in T : ~ (<<m, n>> \in R)
  <2> HIDE DEF R
  <2> QED
    BY <1>1, WFMin, Zenon
<1>3. ASSUME NEW m \in T PROVE n <= m
  <2>1. m \in Nat /\ n \in Nat
    OBVIOUS
  <2>2. ~ (m < n)
    BY <1>2, <2>1
  <2> QED
    BY <2>1, <2>2
<1> QED
  BY <1>3

-----------------------------------------------------------------------------
(***************************************************************************)
(* Sequences put one after the other.                                      *)
(***************************************************************************)
LEMMA JoinIs ==
  ASSUME NEW S, NEW s \in Seq(S), NEW t \in Seq(S)
  PROVE  /\ s \o t \in Seq(S)
         /\ Range(s \o t) = Range(s) \cup Range(t)
         /\ IsInjective(s) /\ IsInjective(t) /\ Range(s) \cap Range(t) = {} => IsInjective(s \o t)
         /\ \A x, y : (Before(s, x, y) \/ Before(t, x, y) \/ (x \in Range(s) /\ y \in Range(t)))
                        => Before(s \o t, x, y)
<1> DEFINE u == s \o t
<1>1. /\ u \in Seq(S) /\ Len(u) = Len(s) + Len(t) /\ Len(s) \in Nat /\ Len(t) \in Nat
      /\ DOMAIN s = 1..Len(s) /\ DOMAIN t = 1..Len(t) /\ DOMAIN u = 1..(Len(s) + Len(t))
      /\ \A i \in DOMAIN s : u[i] = s[i]
      /\ \A i \in DOMAIN t : u[Len(s) + i] = t[i]
  OBVIOUS
<1> HIDE DEF u
<1>2. \A i \in DOMAIN u : i \in DOMAIN s \/ \E j \in DOMAIN t : i = Len(s) + j
  <2> SUFFICES ASSUME NEW i \in DOMAIN u, i \notin DOMAIN s PROVE \E j \in DOMAIN t : i = Len(s) + j
    OBVIOUS
  <2>1. i - Len(s) \in DOMAIN t /\ i = Len(s) + (i - Len(s))
    BY <1>1
  <2> QED
    BY <2>1
<1>3. Range(u) = Range(s) \cup Range(t)
  <2>1. \A x \in Range(u) : x \in Range(s) \cup Range(t)
    BY <1>1, <1>2 DEF Range
  <2>2. \A i \in DOMAIN s : i \in DOMAIN u
    BY <1>1
  <2>3. \A i \in DOMAIN t : Len(s) + i \in DOMAIN u
    BY <1>1
  <2>4. \A x \in Range(s) \cup Range(t) : x \in Range(u)
    BY <1>1, <2>2, <2>3 DEF Range
  <2> QED
    BY <2>1, <2>4
<1>4. ASSUME IsInjective(s), IsInjective(t), Range(s) \cap Range(t) = {} PROVE IsInjective(u)
  <2> SUFFICES ASSUME NEW a \in DOMAIN u, NEW b \in DOMAIN u, u[a] = u[b] PROVE a = b
    BY DEF IsInjective
  <2>1. CASE a \in DOMAIN s /\ b \in DOMAIN s
    BY <1>1, <1>4, <2>1 DEF IsInjective
  <2>2. CASE a \notin DOMAIN s /\ b \notin DOMAIN s
    <3>1. PICK i \in DOMAIN t, j \in DOMAIN t : a = Len(s) + i /\ b = Len(s) + j
      BY <1>2, <2>2
    <3> QED
      BY <1>1, <1>4, <3>1 DEF IsInjective
  <2>3. ASSUME NEW i \in DOMAIN s, NEW j \in DOMAIN u, j \notin DOMAIN s, u[i] = u[j] PROVE FALSE
    <3>1. PICK m \in DOMAIN t : j = Len(s) + m
      BY <1>2, <2>3
    <3>2. s[i] = t[m]
      BY <1>1, <2>3, <3>1
    <3> QED
      BY <1>4, <3>2 DEF Range
  <2> QED
    BY <2>1, <2>2, <2>3
<1>5. ASSUME NEW x, NEW y, Before(s, x, y) PROVE Before(u, x, y)
  <2>1. PICK a, b \in DOMAIN s : a < b /\ s[a] = x /\ s[b] = y
    BY <1>5 DEF Before
  <2>2. a \in DOMAIN u /\ b \in DOMAIN u /\ u[a] = x /\ u[b] = y
    BY <1>1, <2>1
  <2> QED
    BY <2>1, <2>2 DEF Before
<1>6. ASSUME NEW x, NEW y, Before(t, x, y) PROVE Before(u, x, y)
  <2>1. PICK a, b \in DOMAIN t : a < b /\ t[a] = x /\ t[b] = y
    BY <1>6 DEF Before
  <2>2. /\ Len(s) + a \in DOMAIN u /\ Len(s) + b \in DOMAIN u /\ u[Len(s) + a] = x /\ u[Len(s) + b] = y
        /\ Len(s) + a < Len(s) + b
    BY <1>1, <2>1
  <2> QED
    BY <2>2 DEF Before
<1>7. ASSUME NEW x \in Range(s), NEW y \in Range(t) PROVE Before(u, x, y)
  <2>1. PICK a \in DOMAIN s, b \in DOMAIN t : s[a] = x /\ t[b] = y
    BY DEF Range
  <2>2. a \in DOMAIN u /\ Len(s) + b \in DOMAIN u /\ u[a] = x /\ u[Len(s) + b] = y /\ a < Len(s) + b
    BY <1>1, <2>1
  <2> QED
    BY <2>2 DEF Before
<1> QED
  BY <1>1, <1>3, <1>4, <1>5, <1>6, <1>7 DEF u

\* What flattening computes for the first of the sequences.
Joins(f, seqs, n) == f = [i \in 1..n |-> IF i = 1 THEN seqs[i] ELSE f[i - 1] \o seqs[i]]

\* For every sequence of sequences there is the function that joins their first n.
LEMMA JoinsExists == ASSUME NEW seqs, NEW n \in Nat PROVE \E f : Joins(f, seqs, n)
<1> DEFINE T == {m \in Nat : \A f : ~ Joins(f, seqs, m)}
<1>1. SUFFICES ASSUME T # {} PROVE FALSE
  OBVIOUS
<1>2. PICK m \in T : \A j \in T : m <= j
  <2>1. T \in SUBSET Nat
    OBVIOUS
  <2> HIDE DEF T
  <2> QED
    BY <1>1, <2>1, LeastIs
<1>3. m # 0
  <2>1. Joins(<<>>, seqs, 0)
    BY DEF Joins
  <2> QED
    BY <1>2, <2>1
<1>4. m - 1 \in Nat /\ m - 1 \notin T
  BY <1>2, <1>3
<1>5. PICK f : Joins(f, seqs, m - 1)
  BY <1>4
<1> DEFINE g == [i \in 1..m |-> IF i < m THEN f[i] ELSE IF i = 1 THEN seqs[i] ELSE f[i - 1] \o seqs[i]]
<1>6. \A i \in 1..m : g[i] = IF i = 1 THEN seqs[i] ELSE g[i - 1] \o seqs[i]
  <2> SUFFICES ASSUME NEW i \in 1..m PROVE g[i] = IF i = 1 THEN seqs[i] ELSE g[i - 1] \o seqs[i]
    OBVIOUS
  <2>1. i # 1 => i - 1 \in 1..m /\ i - 1 < m /\ g[i - 1] = f[i - 1]
    OBVIOUS
  <2>2. CASE i < m
    <3>1. i \in 1..(m - 1)
      BY <1>4, <2>2
    <3>2. f[i] = IF i = 1 THEN seqs[i] ELSE f[i - 1] \o seqs[i]
      BY <1>5, <3>1 DEF Joins
    <3> QED
      BY <2>1, <2>2, <3>2
  <2>3. CASE i = m
    BY <2>1, <2>3
  <2> QED
    BY <2>2, <2>3
<1>7. Joins(g, seqs, m)
  <2>1. g = [i \in 1..m |-> g[i]]
    OBVIOUS
  <2> HIDE DEF g
  <2> QED
    BY <1>6, <2>1 DEF Joins
<1> QED
  BY <1>2, <1>7

\* FlattenSeq is what that function gives for all of them.
LEMMA FlattenIs ==
  ASSUME NEW seqs, Len(seqs) \in Nat \ {0}
  PROVE  \E f : Joins(f, seqs, Len(seqs)) /\ FlattenSeq(seqs) = f[Len(seqs)]
<1> DEFINE f == CHOOSE f : Joins(f, seqs, Len(seqs))
<1>1. Joins(f, seqs, Len(seqs))
  BY JoinsExists
<1>2. FlattenSeq(seqs) = f[Len(seqs)]
  BY DEF FlattenSeq, Joins
<1> QED
  BY <1>1, <1>2

\* What holds of no entry at first and of one more at a time holds of all.
PartsOf(seqs, n, x) == \E i \in 1..n : x \in Range(seqs[i])
InParts(seqs, n, x, y) ==
  \/ \E i \in 1..n : Before(seqs[i], x, y)
  \/ \E i, j \in 1..n : i < j /\ x \in Range(seqs[i]) /\ y \in Range(seqs[j])
PartsDiffer(seqs) ==
  /\ \A i \in 1..Len(seqs) : IsInjective(seqs[i])
  /\ \A i, j \in 1..Len(seqs) : i # j => Range(seqs[i]) \cap Range(seqs[j]) = {}

Flat(S, seqs, n, s) ==
  /\ s \in Seq(S)
  /\ \A x : x \in Range(s) <=> PartsOf(seqs, n, x)
  /\ PartsDiffer(seqs) => IsInjective(s)
  /\ \A x, y : InParts(seqs, n, x, y) => Before(s, x, y)

\* The first part joined is the first part ...
LEMMA FlatFirst ==
  ASSUME NEW S, NEW seqs, Len(seqs) \in Nat \ {0}, \A i \in 1..Len(seqs) : seqs[i] \in Seq(S)
  PROVE  Flat(S, seqs, 1, seqs[1])
<1>1. 1 \in 1..Len(seqs) /\ \A i \in 1..1 : i = 1
  OBVIOUS
<1>2. ASSUME NEW x, NEW y, InParts(seqs, 1, x, y) PROVE Before(seqs[1], x, y)
  BY <1>1, <1>2 DEF InParts
<1> QED
  BY <1>1, <1>2 DEF Flat, PartsOf, PartsDiffer

\* ... and each step puts one more part behind what is joined.
LEMMA FlatNext ==
  ASSUME NEW S, NEW seqs, Len(seqs) \in Nat, \A i \in 1..Len(seqs) : seqs[i] \in Seq(S),
         NEW n \in 1..Len(seqs), n > 1, NEW s, Flat(S, seqs, n - 1, s)
  PROVE  Flat(S, seqs, n, s \o seqs[n])
<1> DEFINE t == seqs[n]
<1>1. s \in Seq(S) /\ t \in Seq(S)
  BY DEF Flat
<1>2. n - 1 \in Nat /\ \A i : i \in 1..n <=> i \in 1..(n - 1) \/ i = n
  OBVIOUS
<1>3. /\ s \o t \in Seq(S)
      /\ Range(s \o t) = Range(s) \cup Range(t)
      /\ IsInjective(s) /\ IsInjective(t) /\ Range(s) \cap Range(t) = {} => IsInjective(s \o t)
      /\ \A x, y : (Before(s, x, y) \/ Before(t, x, y) \/ (x \in Range(s) /\ y \in Range(t)))
                        => Before(s \o t, x, y)
  BY <1>1, JoinIs
<1>4. \A x : x \in Range(s) <=> PartsOf(seqs, n - 1, x)
  BY DEF Flat
<1>5. \A x : x \in Range(s \o t) <=> PartsOf(seqs, n, x)
  BY <1>2, <1>3, <1>4 DEF PartsOf
<1>6. ASSUME PartsDiffer(seqs) PROVE IsInjective(s \o t)
  <2>1. Range(s) \cap Range(t) = {}
    <3> SUFFICES ASSUME NEW x, x \in Range(s), x \in Range(t) PROVE FALSE
      OBVIOUS
    <3>1. PICK i \in 1..(n - 1) : x \in Range(seqs[i])
      BY <1>4 DEF PartsOf
    <3>2. i \in 1..Len(seqs) /\ i # n
      BY <3>1
    <3> QED
      BY <1>6, <3>1, <3>2 DEF PartsDiffer
  <2> QED
    BY <1>3, <1>6, <2>1 DEF Flat, PartsDiffer
<1>7. ASSUME NEW x, NEW y, InParts(seqs, n, x, y) PROVE Before(s \o t, x, y)
  <2>1. CASE InParts(seqs, n - 1, x, y)
    BY <1>3, <2>1 DEF Flat
  <2>2. CASE Before(t, x, y)
    BY <1>3, <2>2
  <2>3. CASE PartsOf(seqs, n - 1, x) /\ y \in Range(t)
    BY <1>3, <1>4, <2>3
  <2>4. CASE \E i \in 1..n : Before(seqs[i], x, y)
    BY <1>2, <2>1, <2>2, <2>4 DEF InParts
  <2>5. CASE \E i, j \in 1..n : i < j /\ x \in Range(seqs[i]) /\ y \in Range(seqs[j])
    <3>1. PICK i \in 1..n, j \in 1..n : i < j /\ x \in Range(seqs[i]) /\ y \in Range(seqs[j])
      BY <2>5
    <3>2. i \in 1..(n - 1)
      BY <3>1
    <3>3. j = n \/ j \in 1..(n - 1)
      BY <3>1
    <3> QED
      BY <2>1, <2>3, <3>1, <3>2, <3>3 DEF InParts, PartsOf
  <2> QED
    BY <1>7, <2>4, <2>5 DEF InParts
<1> QED
  BY <1>3, <1>5, <1>6, <1>7 DEF Flat

\* Flattening keeps everything, and the order.
LEMMA FlattenHas ==
  ASSUME NEW S, NEW n \in Nat, NEW seqs, seqs = [i \in 1..n |-> seqs[i]],
         \A i \in 1..n : seqs[i] \in Seq(S)
  PROVE  Len(seqs) = n /\ Flat(S, seqs, n, FlattenSeq(seqs))
<1>1. Len(seqs) = n
  OBVIOUS
<1>2. CASE n = 0
  <2>1. seqs = <<>>
    BY <1>2
  <2>2. FlattenSeq(seqs) = <<>>
    BY <1>1, <1>2, <2>1 DEF FlattenSeq
  <2>3. <<>> \in Seq(S) /\ Range(<<>>) = {} /\ IsInjective(<<>>) /\ 1..n = {}
    BY <1>2 DEF Range, IsInjective
  <2> QED
    BY <1>1, <2>2, <2>3 DEF Flat, PartsOf, InParts
<1>3. CASE n # 0
  <2>1. PICK f : Joins(f, seqs, n) /\ FlattenSeq(seqs) = f[n]
    BY <1>1, <1>3, FlattenIs
  <2>2. \A i \in 1..n : f[i] = IF i = 1 THEN seqs[i] ELSE f[i - 1] \o seqs[i]
    BY <2>1 DEF Joins
  <2> DEFINE T == {m \in Nat : m \in 1..n /\ ~ Flat(S, seqs, m, f[m])}
  <2>3. T = {}
    <3> SUFFICES ASSUME T # {} PROVE FALSE
      OBVIOUS
    <3>1. PICK m \in T : \A j \in T : m <= j
      <4>1. T \in SUBSET Nat
        OBVIOUS
      <4> HIDE DEF T
      <4> QED
        BY <4>1, LeastIs
    <3>2. m \in 1..n /\ ~ Flat(S, seqs, m, f[m])
      OBVIOUS
    <3>3. m # 1
      BY <1>1, <1>3, <2>2, <3>2, FlatFirst
    <3>4. m > 1 /\ m - 1 \in 1..n /\ m - 1 \in Nat /\ m - 1 < m
      BY <3>2, <3>3
    <3>5. Flat(S, seqs, m - 1, f[m - 1])
      <4>1. m - 1 \notin T
        <5> HIDE DEF T
        <5> QED
          BY <3>1, <3>2, <3>4
      <4> QED
        BY <3>4, <4>1
    <3>6. f[m] = f[m - 1] \o seqs[m]
      BY <2>2, <3>2, <3>3
    <3>7. Flat(S, seqs, m, f[m - 1] \o seqs[m])
      BY <1>1, <3>2, <3>4, <3>5, FlatNext
    <3> QED
      BY <3>2, <3>6, <3>7
  <2>4. n \notin T
    BY <2>3, Zenon
  <2>5. n \in Nat /\ n \in 1..n
    BY <1>3
  <2>6. Flat(S, seqs, n, f[n])
    BY <2>4, <2>5
  <2> HIDE DEF T
  <2> QED
    BY <1>1, <2>1, <2>6
<1> QED
  BY <1>2, <1>3

-----------------------------------------------------------------------------
(***************************************************************************)
(* The order of the items.                                                 *)
(***************************************************************************)
\* A quotient rounded down.
LEMMA QuotientIs ==
  ASSUME NEW a \in Nat, NEW b \in Nat \ {0}
  PROVE  /\ a \div b \in Nat
         /\ b * (a \div b) <= a /\ a < b * (a \div b) + b
OBVIOUS

\* A factor that is less than its product allows.
LEMMA FactorBelow ==
  ASSUME NEW m \in Nat \ {0}, NEW x \in Int, NEW c \in Int, m * x < m * c
  PROVE  x < c
<1> SUFFICES ASSUME x >= c PROVE FALSE
  OBVIOUS
<1>1. m * (x - c) >= 0
  <2>1. x - c \in Nat
    OBVIOUS
  <2> QED
    BY <2>1
<1> QED
  BY <1>1

\* How many numbers there are up to n.
LEMMA UpToCounted == ASSUME NEW n \in Nat PROVE IsFiniteSet(1..n) /\ Cardinality(1..n) = n
<1>1. 1 \in Int /\ n \in Int
  OBVIOUS
<1>2. /\ IsFiniteSet(1..n)
      /\ Cardinality(1..n) = IF 1 > n THEN 0 ELSE n - 1 + 1
  BY <1>1, FS_Interval
<1> QED
  BY <1>2

\* What is there as often as it has places has one place each.
LEMMA CountedOnce ==
  ASSUME NEW S, NEW s \in Seq(S)
  PROVE  /\ IsFiniteSet(Range(s)) /\ Cardinality(Range(s)) \in Nat /\ Cardinality(Range(s)) <= Len(s)
         /\ Cardinality(Range(s)) = Len(s) => IsInjective(s)
<1>1. Len(s) \in Nat /\ DOMAIN s = 1..Len(s) /\ s = [i \in 1..Len(s) |-> s[i]]
  OBVIOUS
<1>2. IsFiniteSet(1..Len(s)) /\ Cardinality(1..Len(s)) = Len(s)
  BY <1>1, UpToCounted
<1>3. s \in Surjection(1..Len(s), Range(s))
  BY <1>1 DEF Surjection, Range
<1>4. /\ IsFiniteSet(Range(s))
      /\ Cardinality(Range(s)) <= Cardinality(1..Len(s))
      /\ Cardinality(Range(s)) = Cardinality(1..Len(s)) <=> s \in Injection(1..Len(s), Range(s))
  BY <1>2, <1>3, FS_Surjection
<1>5. Cardinality(Range(s)) \in Nat
  BY <1>4, FS_CardinalityType
<1>6. s \in Injection(1..Len(s), Range(s)) => IsInjective(s)
  BY <1>1 DEF Injection, IsInjective
<1> QED
  BY <1>1, <1>2, <1>4, <1>5, <1>6


Distinct(s) == s \in Seq(STRING) /\ IsInjective(s)
Apart(s, t) == Range(s) \cap Range(t) = {}

\* No item is in the manifests twice.
LEMMA ItemsDiffer ==
  /\ Distinct(Dev) /\ Distinct(Known) /\ Distinct(Rest)
  /\ Apart(Dev, Known) /\ Apart(Dev, Rest) /\ Apart(Known, Rest)
<1> DEFINE all == Dev \o Known \o Rest
           d == Len(Dev)
           r == Len(Known)
           m == Len(Rest)
<1>1. Dev \in Seq(STRING) /\ Known \in Seq(STRING) /\ Rest \in Seq(STRING)
  BY PlanAssumption
<1>2. /\ all \in Seq(STRING) /\ Len(all) = d + r + m /\ d \in Nat /\ r \in Nat /\ m \in Nat
      /\ DOMAIN Dev = 1..d /\ DOMAIN Known = 1..r /\ DOMAIN Rest = 1..m /\ DOMAIN all = 1..(d + r + m)
      /\ \A i \in 1..d : all[i] = Dev[i]
      /\ \A i \in 1..r : all[d + i] = Known[i]
      /\ \A i \in 1..m : all[d + r + i] = Rest[i]
  BY <1>1
<1>3. IsInjective(all)
  BY <1>2, CountedOnce, PlanAssumption
<1>4. \A i, j \in 1..(d + r + m) : all[i] = all[j] => i = j
  BY <1>2, <1>3 DEF IsInjective
<1> HIDE DEF all, d, r, m
<1>5. IsInjective(Dev)
  <2> SUFFICES ASSUME NEW i \in 1..d, NEW j \in 1..d, Dev[i] = Dev[j] PROVE i = j
    BY <1>2 DEF IsInjective
  <2>1. i \in 1..(d + r + m) /\ j \in 1..(d + r + m)
    BY <1>2
  <2> QED
    BY <1>2, <1>4, <2>1
<1>6. IsInjective(Known)
  <2> SUFFICES ASSUME NEW i \in 1..r, NEW j \in 1..r, Known[i] = Known[j] PROVE i = j
    BY <1>2 DEF IsInjective
  <2>1. d + i \in 1..(d + r + m) /\ d + j \in 1..(d + r + m)
    BY <1>2
  <2>2. d + i = d + j
    BY <1>2, <1>4, <2>1
  <2> QED
    BY <1>2, <2>2
<1>7. IsInjective(Rest)
  <2> SUFFICES ASSUME NEW i \in 1..m, NEW j \in 1..m, Rest[i] = Rest[j] PROVE i = j
    BY <1>2 DEF IsInjective
  <2>1. d + r + i \in 1..(d + r + m) /\ d + r + j \in 1..(d + r + m)
    BY <1>2
  <2>2. d + r + i = d + r + j
    BY <1>2, <1>4, <2>1
  <2> QED
    BY <1>2, <2>2
<1>8. Apart(Dev, Known)
  <2> SUFFICES ASSUME NEW i \in 1..d, NEW j \in 1..r, Dev[i] = Known[j] PROVE FALSE
    BY <1>2 DEF Apart, Range
  <2>1. i \in 1..(d + r + m) /\ d + j \in 1..(d + r + m) /\ i # d + j
    BY <1>2
  <2> QED
    BY <1>2, <1>4, <2>1
<1>9. Apart(Dev, Rest)
  <2> SUFFICES ASSUME NEW i \in 1..d, NEW j \in 1..m, Dev[i] = Rest[j] PROVE FALSE
    BY <1>2 DEF Apart, Range
  <2>1. i \in 1..(d + r + m) /\ d + r + j \in 1..(d + r + m) /\ i # d + r + j
    BY <1>2
  <2> QED
    BY <1>2, <1>4, <2>1
<1>10. Apart(Known, Rest)
  <2> SUFFICES ASSUME NEW i \in 1..r, NEW j \in 1..m, Known[i] = Rest[j] PROVE FALSE
    BY <1>2 DEF Apart, Range
  <2>1. d + i \in 1..(d + r + m) /\ d + r + j \in 1..(d + r + m) /\ d + i # d + r + j
    BY <1>2
  <2> QED
    BY <1>2, <1>4, <2>1
<1> QED
  BY <1>1, <1>5, <1>6, <1>7, <1>8, <1>9, <1>10 DEF Distinct

\* A known failure's mark is within set D.
Mark(i) == Position(i, Len(Dev), Len(Known))
\* A known failure is marked to follow some D item, or to come before all.
LEMMA MarksIn == \A i \in DOMAIN Known : Mark(i) \in 0..Len(Dev)
<1> DEFINE d == Len(Dev)
           m == Len(Known) + 1
<1>1. Len(Dev) \in Nat /\ Len(Known) \in Nat /\ DOMAIN Known = 1..Len(Known)
  BY PlanAssumption
<1> SUFFICES ASSUME NEW i \in 1..Len(Known) PROVE Mark(i) \in 0..d
  BY <1>1
<1>2. d \in Nat /\ m \in Nat \ {0} /\ i \in Nat /\ i < m
  BY <1>1
<1> DEFINE z == i * d
           q == (2 * z + m) \div (2 * m)
<1>3. Mark(i) = q
  <2>1. 2 * i * d = 2 * z
    BY <1>2
  <2> QED
    BY <1>1, <1>2, <2>1 DEF Position, Mark
<1>4. z \in Nat /\ z <= m * d
  <2>1. m * d = z + (m - i) * d /\ m - i \in Nat
    BY <1>2
  <2>2. (m - i) * d \in Nat /\ z \in Nat
    BY <1>2, <2>1
  <2> QED
    BY <2>1, <2>2
<1> HIDE DEF d, m, z
<1>5. 2 * z + m \in Nat /\ 2 * m \in Nat \ {0}
  BY <1>2, <1>4
<1>6. q \in Nat /\ (2 * m) * q <= 2 * z + m
  BY <1>5, QuotientIs
<1> HIDE DEF q
<1>7. (2 * m) * q < (2 * m) * (d + 1)
  <2>1. (2 * m) * (d + 1) = 2 * (m * d) + 2 * m /\ m * d \in Nat /\ (2 * m) * q \in Nat
    BY <1>2, <1>6
  <2> QED
    BY <1>2, <1>4, <1>6, <2>1
<1>8. q < d + 1
  <2>1. d + 1 \in Int /\ q \in Int
    BY <1>2, <1>6
  <2> QED
    BY <1>5, <1>7, <2>1, FactorBelow
<1> QED
  BY <1>2, <1>3, <1>6, <1>8


\* A sequence of one item ...
LEMMA OneIs ==
  ASSUME NEW S, NEW x \in S
  PROVE  <<x>> \in Seq(S) /\ Range(<<x>>) = {x} /\ IsInjective(<<x>>)
<1>1. <<x>> \in Seq(S) /\ DOMAIN <<x>> = {1} /\ <<x>>[1] = x
  OBVIOUS
<1> QED
  BY <1>1 DEF Range, IsInjective

\* ... and of none.
LEMMA NoneIs ==
  ASSUME NEW S
  PROVE  <<>> \in Seq(S) /\ Range(<<>>) = {} /\ IsInjective(<<>>)
BY DEF Range, IsInjective

\* The known failures that follow one D item.
LEMMA AfterIs ==
  ASSUME NEW at
  PROVE  /\ Distinct(After(at))
         /\ \A x : x \in Range(After(at)) <=> \E i \in DOMAIN Known : Mark(i) = at /\ x = Known[i]
<1> DEFINE r == Len(Known)
           part(i) == IF Mark(i) = at THEN <<Known[i]>> ELSE <<>>
           parts == [i \in 1..r |-> part(i)]
<1>1. /\ r \in Nat /\ DOMAIN Known = 1..r /\ IsInjective(Known)
      /\ \A i \in 1..r : Known[i] \in STRING
  BY ItemsDiffer DEF Distinct
<1>2. After(at) = FlattenSeq(parts)
  BY <1>1 DEF After, Mark
<1>3. ASSUME NEW i \in 1..r
      PROVE  /\ part(i) \in Seq(STRING) /\ IsInjective(part(i))
             /\ \A x : x \in Range(part(i)) <=> Mark(i) = at /\ x = Known[i]
  <2>1. Known[i] \in STRING
    BY <1>1
  <2>2. CASE Mark(i) = at
    BY <2>1, <2>2, OneIs
  <2>3. CASE Mark(i) # at
    BY <2>3, NoneIs
  <2> QED
    BY <2>2, <2>3
<1>4. parts = [i \in 1..r |-> parts[i]] /\ \A i \in 1..r : parts[i] = part(i)
  OBVIOUS
<1> HIDE DEF part, parts, r
<1>5. Len(parts) = r /\ Flat(STRING, parts, r, FlattenSeq(parts))
  <2>1. \A i \in 1..r : parts[i] \in Seq(STRING)
    BY <1>3, <1>4
  <2> QED
    BY <1>1, <1>4, <2>1, FlattenHas
<1>6. PartsDiffer(parts)
  <2>1. ASSUME NEW i \in 1..r, NEW j \in 1..r, i # j PROVE Range(parts[i]) \cap Range(parts[j]) = {}
    <3> SUFFICES ASSUME NEW x, x \in Range(parts[i]), x \in Range(parts[j]) PROVE FALSE
      OBVIOUS
    <3>1. Known[i] = Known[j]
      BY <1>3, <1>4
    <3> QED
      BY <1>1, <2>1, <3>1 DEF IsInjective
  <2> QED
    BY <1>3, <1>4, <1>5, <2>1 DEF PartsDiffer
<1>7. \A x : x \in Range(After(at)) <=> \E i \in DOMAIN Known : Mark(i) = at /\ x = Known[i]
  BY <1>1, <1>2, <1>3, <1>4, <1>5 DEF Flat, PartsOf
<1> QED
  BY <1>2, <1>5, <1>6, <1>7 DEF Flat, Distinct

\* A D item and what follows it.
Stretch(n) == <<Dev[n]>> \o After(n)
\* A stretch holds its D item, then the known failures marked for it.
LEMMA StretchIs ==
  ASSUME NEW n \in DOMAIN Dev
  PROVE  /\ Distinct(Stretch(n))
         /\ Range(Stretch(n)) = {Dev[n]} \cup Range(After(n))
         /\ \A x \in Range(After(n)) : Before(Stretch(n), Dev[n], x)
<1>1. Dev[n] \in STRING /\ Dev[n] \in Range(Dev)
  BY ItemsDiffer DEF Distinct, Range
<1>2. <<Dev[n]>> \in Seq(STRING) /\ Range(<<Dev[n]>>) = {Dev[n]} /\ IsInjective(<<Dev[n]>>)
  BY <1>1, OneIs
<1>3. After(n) \in Seq(STRING) /\ IsInjective(After(n))
  BY AfterIs DEF Distinct
<1>4. Dev[n] \notin Range(After(n))
  <2> SUFFICES ASSUME Dev[n] \in Range(After(n)) PROVE FALSE
    OBVIOUS
  <2>1. PICK i \in DOMAIN Known : Dev[n] = Known[i]
    BY AfterIs
  <2>2. Dev[n] \in Range(Known)
    BY <2>1 DEF Range
  <2> QED
    BY <1>1, <2>2, ItemsDiffer DEF Apart
<1> DEFINE s == <<Dev[n]>>
           t == After(n)
<1>5. s \in Seq(STRING) /\ t \in Seq(STRING) /\ IsInjective(s) /\ IsInjective(t) /\ Range(s) \cap Range(t) = {}
  BY <1>2, <1>3, <1>4
<1> HIDE DEF s, t
<1>6. s \o t \in Seq(STRING) /\ IsInjective(s \o t) /\ Range(s \o t) = Range(s) \cup Range(t)
  BY <1>5, JoinIs
<1>7. \A x \in Range(t) : Before(s \o t, Dev[n], x)
  <2>1. Dev[n] \in Range(s)
    BY <1>2 DEF s
  <2> QED
    BY <1>5, <2>1, JoinIs
<1> QED
  BY <1>2, <1>6, <1>7 DEF Stretch, Distinct, s, t

Middle == FlattenSeq([n \in DOMAIN Dev |-> Stretch(n)])
\* The stretches together hold D and the known failures marked inside it.
LEMMA MiddleIs ==
  /\ Distinct(Middle)
  /\ \A x : x \in Range(Middle) <=> \E n \in DOMAIN Dev : x = Dev[n] \/ x \in Range(After(n))
  /\ \A n \in DOMAIN Dev : \A i \in DOMAIN Known : Mark(i) \in DOMAIN Dev =>
       IF n <= Mark(i) THEN Before(Middle, Dev[n], Known[i]) ELSE Before(Middle, Known[i], Dev[n])
<1> DEFINE d == Len(Dev)
           parts == [n \in 1..d |-> Stretch(n)]
<1>1. d \in Nat /\ DOMAIN Dev = 1..d /\ IsInjective(Dev)
  BY ItemsDiffer DEF Distinct
<1>2. Middle = FlattenSeq(parts)
  BY <1>1 DEF Middle
<1>3. parts = [n \in 1..d |-> parts[n]] /\ \A n \in 1..d : parts[n] = Stretch(n)
  OBVIOUS
<1>4. \A n \in 1..d : /\ Stretch(n) \in Seq(STRING) /\ IsInjective(Stretch(n))
                      /\ Range(Stretch(n)) = {Dev[n]} \cup Range(After(n))
                      /\ \A x \in Range(After(n)) : Before(Stretch(n), Dev[n], x)
  BY <1>1, StretchIs DEF Distinct
<1> HIDE DEF parts, d
<1>5. Len(parts) = d /\ Flat(STRING, parts, d, FlattenSeq(parts))
  BY <1>1, <1>3, <1>4, FlattenHas
<1>6. PartsDiffer(parts)
  <2>1. ASSUME NEW i \in 1..d, NEW j \in 1..d, i # j PROVE Range(parts[i]) \cap Range(parts[j]) = {}
    <3> SUFFICES ASSUME NEW x, x \in Range(parts[i]), x \in Range(parts[j]) PROVE FALSE
      OBVIOUS
    <3>1. /\ x = Dev[i] \/ \E m \in DOMAIN Known : Mark(m) = i /\ x = Known[m]
          /\ x = Dev[j] \/ \E m \in DOMAIN Known : Mark(m) = j /\ x = Known[m]
      BY <1>3, <1>4, AfterIs
    <3>2. Dev[i] # Dev[j]
      BY <1>1, <2>1 DEF IsInjective
    <3>3. \A m \in DOMAIN Known : Known[m] # Dev[i] /\ Known[m] # Dev[j]
      BY <1>1, ItemsDiffer DEF Apart, Range
    <3>4. \A m, l \in DOMAIN Known : Known[m] = Known[l] => m = l
      BY ItemsDiffer DEF Distinct, IsInjective
    <3> QED
      BY <2>1, <3>1, <3>2, <3>3, <3>4
  <2> QED
    BY <1>3, <1>4, <1>5, <2>1 DEF PartsDiffer
<1>7. \A x : x \in Range(Middle) <=> \E n \in DOMAIN Dev : x = Dev[n] \/ x \in Range(After(n))
  BY <1>1, <1>2, <1>3, <1>4, <1>5 DEF Flat, PartsOf
<1>8. ASSUME NEW n \in DOMAIN Dev, NEW i \in DOMAIN Known, Mark(i) \in DOMAIN Dev
      PROVE  IF n <= Mark(i) THEN Before(Middle, Dev[n], Known[i]) ELSE Before(Middle, Known[i], Dev[n])
  <2> DEFINE m == Mark(i)
  <2>1. m \in 1..d /\ n \in 1..d
    BY <1>1, <1>8
  <2>2. Known[i] \in Range(After(m))
    BY AfterIs
  <2>3. Dev[n] \in Range(parts[n]) /\ Known[i] \in Range(parts[m])
    BY <1>3, <1>4, <2>1, <2>2
  <2> HIDE DEF m
  <2>4. CASE n < m
    <3>1. InParts(parts, d, Dev[n], Known[i])
      BY <2>1, <2>3, <2>4 DEF InParts
    <3> QED
      BY <1>2, <1>5, <2>1, <2>4, <3>1 DEF Flat, m
  <2>5. CASE n = m
    <3>1. Before(parts[n], Dev[n], Known[i])
      BY <1>3, <1>4, <2>1, <2>2, <2>5
    <3>2. InParts(parts, d, Dev[n], Known[i])
      BY <2>1, <3>1 DEF InParts
    <3> QED
      BY <1>2, <1>5, <2>1, <2>5, <3>2 DEF Flat, m
  <2>6. CASE m < n
    <3>1. InParts(parts, d, Known[i], Dev[n])
      BY <2>1, <2>3, <2>6 DEF InParts
    <3> QED
      BY <1>2, <1>5, <2>1, <2>6, <3>1 DEF Flat, m
  <2> QED
    BY <2>1, <2>4, <2>5, <2>6
<1> QED
  BY <1>2, <1>5, <1>6, <1>7, <1>8 DEF Flat, Distinct


\* Two sequences without an item in common, each without repetition.
LEMMA JoinDistinct ==
  ASSUME NEW s, NEW t, Distinct(s), Distinct(t), Apart(s, t)
  PROVE  /\ Distinct(s \o t) /\ Range(s \o t) = Range(s) \cup Range(t)
         /\ \A x, y : (Before(s, x, y) \/ Before(t, x, y) \/ (x \in Range(s) /\ y \in Range(t)))
                        => Before(s \o t, x, y)
<1>1. s \in Seq(STRING) /\ t \in Seq(STRING) /\ IsInjective(s) /\ IsInjective(t)
      /\ Range(s) \cap Range(t) = {}
  BY DEF Distinct, Apart
<1> QED
  BY <1>1, JoinIs DEF Distinct

\* Every item has its place in the order, and one place.
LEMMA ItemsAre ==
  /\ Distinct(PlanItems)
  /\ Range(PlanItems) = Range(Dev) \cup Range(Known) \cup Range(Rest)
  /\ \A n \in DOMAIN Dev : \A i \in DOMAIN Known :
       IF n <= Mark(i) THEN Before(PlanItems, Dev[n], Known[i]) ELSE Before(PlanItems, Known[i], Dev[n])
<1>1. CASE Dev = <<>> \/ Known = <<>>
  <2>1. /\ Distinct(Dev \o Known) /\ Range(Dev \o Known) = Range(Dev) \cup Range(Known)
    BY ItemsDiffer, JoinDistinct
  <2>2. Apart(Dev \o Known, Rest)
    BY <2>1, ItemsDiffer DEF Apart
  <2>3. /\ Distinct((Dev \o Known) \o Rest)
        /\ Range((Dev \o Known) \o Rest) = Range(Dev) \cup Range(Known) \cup Range(Rest)
    BY <2>1, <2>2, ItemsDiffer, JoinDistinct
  <2>4. DOMAIN Dev = {} \/ DOMAIN Known = {}
    BY <1>1
  <2> QED
    BY <1>1, <2>3, <2>4 DEF PlanItems
<1>2. CASE ~ (Dev = <<>> \/ Known = <<>>)
  <2>1. PlanItems = (After(0) \o Middle) \o Rest
    BY <1>2 DEF PlanItems, Middle, Stretch
  <2>2. DOMAIN Dev = 1..Len(Dev) /\ Len(Dev) \in Nat
    BY PlanAssumption
  <2>3. Range(After(0)) \cup Range(Middle) = Range(Dev) \cup Range(Known)
    <3>1. ASSUME NEW x, x \in Range(After(0)) \cup Range(Middle) PROVE x \in Range(Dev) \cup Range(Known)
      BY <3>1, MiddleIs, AfterIs DEF Range
    <3>2. ASSUME NEW i \in DOMAIN Known PROVE Known[i] \in Range(After(0)) \cup Range(Middle)
      <4>1. Known[i] \in Range(After(Mark(i)))
        BY AfterIs
      <4>2. Mark(i) = 0 \/ Mark(i) \in DOMAIN Dev
        BY <2>2, MarksIn
      <4> QED
        BY <4>1, <4>2, MiddleIs
    <3>3. ASSUME NEW n \in DOMAIN Dev PROVE Dev[n] \in Range(Middle)
      BY MiddleIs
    <3>4. \A x \in Range(Dev) \cup Range(Known) : x \in Range(After(0)) \cup Range(Middle)
      BY <3>2, <3>3 DEF Range
    <3> QED
      BY <3>1, <3>4
  <2>4. Apart(After(0), Middle)
    <3> SUFFICES ASSUME NEW x, x \in Range(After(0)), x \in Range(Middle) PROVE FALSE
      BY DEF Apart
    <3>1. PICK i \in DOMAIN Known : Mark(i) = 0 /\ x = Known[i]
      BY AfterIs
    <3>2. PICK n \in DOMAIN Dev : x = Dev[n] \/ \E j \in DOMAIN Known : Mark(j) = n /\ x = Known[j]
      BY MiddleIs, AfterIs
    <3>3. \A m, l \in DOMAIN Known : Known[m] = Known[l] => m = l
      BY ItemsDiffer DEF Distinct, IsInjective
    <3>4. \A m \in DOMAIN Known : Known[m] # Dev[n]
      BY ItemsDiffer DEF Apart, Range
    <3>5. n # 0
      BY <2>2
    <3> QED
      BY <3>1, <3>2, <3>3, <3>4, <3>5
  <2>5. /\ Distinct(After(0) \o Middle)
        /\ Range(After(0) \o Middle) = Range(Dev) \cup Range(Known)
        /\ \A x, y : (Before(After(0), x, y) \/ Before(Middle, x, y) \/ (x \in Range(After(0)) /\ y \in Range(Middle)))
                        => Before(After(0) \o Middle, x, y)
    BY <2>3, <2>4, AfterIs, MiddleIs, JoinDistinct
  <2> DEFINE front == After(0) \o Middle
  <2>6. Apart(front, Rest)
    BY <2>5, ItemsDiffer DEF Apart
  <2>7. /\ Distinct(PlanItems)
        /\ Range(PlanItems) = Range(Dev) \cup Range(Known) \cup Range(Rest)
        /\ \A x, y : Before(front, x, y) => Before(PlanItems, x, y)
    <3> HIDE DEF front
    <3>1. Distinct(front) /\ Range(front) = Range(Dev) \cup Range(Known)
      BY <2>5 DEF front
    <3>2. Distinct(front \o Rest) /\ Range(front \o Rest) = Range(front) \cup Range(Rest)
          /\ \A x, y : Before(front, x, y) => Before(front \o Rest, x, y)
      BY <2>6, <3>1, ItemsDiffer, JoinDistinct
    <3> QED
      BY <2>1, <3>1, <3>2 DEF front
  <2>8. ASSUME NEW n \in DOMAIN Dev, NEW i \in DOMAIN Known
        PROVE  IF n <= Mark(i) THEN Before(front, Dev[n], Known[i]) ELSE Before(front, Known[i], Dev[n])
    <3>1. CASE Mark(i) = 0
      <4>1. Known[i] \in Range(After(0)) /\ Dev[n] \in Range(Middle)
        BY <3>1, AfterIs, MiddleIs
      <4>2. ~ (n <= Mark(i))
        BY <2>2, <3>1
      <4> QED
        BY <2>5, <4>1, <4>2
    <3>2. CASE Mark(i) # 0
      <4>1. Mark(i) \in DOMAIN Dev
        BY <2>2, <3>2, MarksIn
      <4> QED
        BY <2>5, <4>1, MiddleIs
    <3> QED
      BY <3>1, <3>2
  <2> QED
    BY <2>7, <2>8
<1> QED
  BY <1>1, <1>2


-----------------------------------------------------------------------------
(***************************************************************************)
(* The order of the steps.                                                 *)
(***************************************************************************)
Steps == [item : STRING, condition : Conditions]
StepOf(x, c) == [item |-> x, condition |-> c]

\* What a step is made of.
LEMMA StepFields ==
  \A z \in Steps : z = StepOf(z.item, z.condition) /\ z.item \in STRING /\ z.condition \in Conditions
BY DEF Steps, StepOf

\* The steps that measure a sequence of items under one condition, in its order.
LEMMA UnderIs ==
  ASSUME NEW items, Distinct(items), NEW c \in Conditions
  PROVE  /\ Under(items, c) \in Seq(Steps) /\ IsInjective(Under(items, c))
         /\ \A z : z \in Range(Under(items, c)) <=> \E x \in Range(items) : z = StepOf(x, c)
         /\ \A x, y : Before(items, x, y) => Before(Under(items, c), StepOf(x, c), StepOf(y, c))
<1> DEFINE u == Under(items, c)
<1>1. /\ Len(items) \in Nat /\ DOMAIN items = 1..Len(items) /\ \A i \in 1..Len(items) : items[i] \in STRING
      /\ \A i, j \in 1..Len(items) : items[i] = items[j] => i = j
  BY DEF Distinct, IsInjective
<1>2. DOMAIN u = 1..Len(items) /\ \A i \in 1..Len(items) : u[i] = StepOf(items[i], c)
  BY <1>1 DEF Under, StepOf
<1>3. \A i \in 1..Len(items) : u[i] \in Steps /\ u[i].item = items[i]
  BY <1>1, <1>2 DEF Steps, StepOf
<1>4. u \in Seq(Steps)
  <2>1. u = [i \in 1..Len(items) |-> u[i]]
    BY <1>1 DEF Under
  <2> HIDE DEF u
  <2> QED
    BY <1>1, <1>3, <2>1
<1> HIDE DEF u
<1>5. IsInjective(u)
  BY <1>1, <1>2, <1>3 DEF IsInjective
<1>6. \A z : z \in Range(u) <=> \E x \in Range(items) : z = StepOf(x, c)
  BY <1>1, <1>2 DEF Range
<1>7. \A x, y : Before(items, x, y) => Before(u, StepOf(x, c), StepOf(y, c))
  BY <1>1, <1>2 DEF Before
<1> QED
  BY <1>4, <1>5, <1>6, <1>7 DEF u

\* There are two conditions.
LEMMA OtherIs == \A c \in Conditions : Other(c) \in Conditions /\ Other(c) # c
BY DEF Other, Conditions

\* Some items under one condition and then the other.
Both(items, c) == Under(items, c) \o Under(items, Other(c))

\* The items under one condition, then under the other.
LEMMA BothIs ==
  ASSUME NEW items, Distinct(items), NEW c \in Conditions
  PROVE  /\ Both(items, c) \in Seq(Steps) /\ IsInjective(Both(items, c))
         /\ \A z : z \in Range(Both(items, c)) <=> z \in Steps /\ z.item \in Range(items)
         /\ \A x, y : Before(items, x, y) =>
              \A b \in Conditions : Before(Both(items, c), StepOf(x, c), StepOf(y, b))
<1> DEFINE s == Under(items, c)
           t == Under(items, Other(c))
           u == s \o t
<1>0. Other(c) \in Conditions /\ Other(c) # c /\ Conditions = {c, Other(c)}
  BY DEF Other, Conditions
<1>1. /\ s \in Seq(Steps) /\ IsInjective(s)
      /\ \A z : z \in Range(s) <=> \E x \in Range(items) : z = StepOf(x, c)
      /\ \A x, y : Before(items, x, y) => Before(s, StepOf(x, c), StepOf(y, c))
  BY UnderIs
<1>2. /\ t \in Seq(Steps) /\ IsInjective(t)
      /\ \A z : z \in Range(t) <=> \E x \in Range(items) : z = StepOf(x, Other(c))
  BY <1>0, UnderIs
<1> HIDE DEF s, t
<1>3. Range(s) \cap Range(t) = {}
  <2> SUFFICES ASSUME NEW z, z \in Range(s), z \in Range(t) PROVE FALSE
    OBVIOUS
  <2>1. PICK x \in Range(items), y \in Range(items) : z = StepOf(x, c) /\ z = StepOf(y, Other(c))
    BY <1>1, <1>2
  <2>2. z.condition = c /\ z.condition = Other(c)
    BY <2>1 DEF StepOf
  <2> QED
    BY <1>0, <2>2
<1>4. /\ u \in Seq(Steps) /\ IsInjective(u) /\ Range(u) = Range(s) \cup Range(t)
      /\ \A x, y : (Before(s, x, y) \/ Before(t, x, y) \/ (x \in Range(s) /\ y \in Range(t)))
                     => Before(u, x, y)
  BY <1>1, <1>2, <1>3, JoinIs
<1> HIDE DEF u
<1>5. \A x \in Range(items) : x \in STRING
  BY DEF Distinct, Range
<1>6. ASSUME NEW z PROVE z \in Range(u) <=> z \in Steps /\ z.item \in Range(items)
  <2>1. ASSUME z \in Range(u) PROVE z \in Steps /\ z.item \in Range(items)
    <3>1. PICK x \in Range(items), b \in Conditions : z = StepOf(x, b)
      BY <1>0, <1>1, <1>2, <1>4, <2>1
    <3> QED
      BY <1>5, <3>1 DEF StepOf, Steps
  <2>2. ASSUME z \in Steps, z.item \in Range(items) PROVE z \in Range(u)
    <3>1. z = StepOf(z.item, c) \/ z = StepOf(z.item, Other(c))
      BY <1>0, <2>2, StepFields
    <3> QED
      BY <1>1, <1>2, <1>4, <2>2, <3>1
  <2> QED
    BY <2>1, <2>2
<1>7. ASSUME NEW x, NEW y, Before(items, x, y), NEW b \in Conditions
      PROVE  Before(u, StepOf(x, c), StepOf(y, b))
  <2>1. x \in Range(items) /\ y \in Range(items)
    BY <1>7 DEF Before, Range
  <2>2. CASE b = c
    BY <1>1, <1>4, <1>7, <2>2
  <2>3. CASE b = Other(c)
    BY <1>1, <1>2, <1>4, <2>1, <2>3
  <2> QED
    BY <1>0, <2>2, <2>3
<1> QED
  BY <1>4, <1>6, <1>7 DEF Both, u, s, t

\* x is measured before y is, under one condition at least.
Leads(steps, x, y) == \E c \in Conditions : \A b \in Conditions : Before(steps, StepOf(x, c), StepOf(y, b))

\* Groups of items, each under both conditions.
LEMMA GroupsAre ==
  ASSUME NEW n \in Nat, NEW groups, NEW lead,
         \A i \in 1..n : Distinct(groups[i]) /\ lead[i] \in Conditions,
         \A i, j \in 1..n : i # j => Apart(groups[i], groups[j])
  PROVE  LET steps == FlattenSeq([i \in 1..n |-> Both(groups[i], lead[i])])
         IN /\ steps \in Seq(Steps) /\ IsInjective(steps)
            /\ \A z : z \in Range(steps) <=> z \in Steps /\ \E i \in 1..n : z.item \in Range(groups[i])
            /\ \A i \in 1..n : \A x, y : Before(groups[i], x, y) => Leads(steps, x, y)
            /\ \A i, j \in 1..n : \A x \in Range(groups[i]), y \in Range(groups[j]) :
                 i < j => Leads(steps, x, y)
<1> DEFINE parts == [i \in 1..n |-> Both(groups[i], lead[i])]
           steps == FlattenSeq(parts)
<1>1. parts = [i \in 1..n |-> parts[i]] /\ \A i \in 1..n : parts[i] = Both(groups[i], lead[i])
  OBVIOUS
<1> HIDE DEF parts
<1>2. \A i \in 1..n :
        /\ parts[i] \in Seq(Steps) /\ IsInjective(parts[i])
        /\ \A z : z \in Range(parts[i]) <=> z \in Steps /\ z.item \in Range(groups[i])
        /\ \A x, y : Before(groups[i], x, y) =>
             \A b \in Conditions : Before(parts[i], StepOf(x, lead[i]), StepOf(y, b))
  BY <1>1, BothIs
<1>3. Len(parts) = n /\ Flat(Steps, parts, n, steps)
  <2>1. \A i \in 1..n : parts[i] \in Seq(Steps)
    BY <1>2
  <2> QED
    BY <1>1, <2>1, FlattenHas
<1> HIDE DEF steps
<1>4. PartsDiffer(parts)
  <2>1. ASSUME NEW i \in 1..n, NEW j \in 1..n, i # j PROVE Range(parts[i]) \cap Range(parts[j]) = {}
    <3> SUFFICES ASSUME NEW z, z \in Range(parts[i]), z \in Range(parts[j]) PROVE FALSE
      OBVIOUS
    <3>1. z.item \in Range(groups[i]) /\ z.item \in Range(groups[j])
      BY <1>2
    <3> QED
      BY <2>1, <3>1 DEF Apart
  <2> QED
    BY <1>2, <1>3, <2>1 DEF PartsDiffer
<1>5. steps \in Seq(Steps) /\ IsInjective(steps)
  BY <1>3, <1>4 DEF Flat
<1>6. \A z : z \in Range(steps) <=> z \in Steps /\ \E i \in 1..n : z.item \in Range(groups[i])
  BY <1>2, <1>3 DEF Flat, PartsOf
<1>7. ASSUME NEW i \in 1..n, NEW x, NEW y, Before(groups[i], x, y) PROVE Leads(steps, x, y)
  <2>1. \A b \in Conditions : Before(steps, StepOf(x, lead[i]), StepOf(y, b))
    <3> SUFFICES ASSUME NEW b \in Conditions PROVE Before(steps, StepOf(x, lead[i]), StepOf(y, b))
      OBVIOUS
    <3>1. Before(parts[i], StepOf(x, lead[i]), StepOf(y, b))
      BY <1>2, <1>7
    <3>2. InParts(parts, n, StepOf(x, lead[i]), StepOf(y, b))
      BY <3>1 DEF InParts
    <3> QED
      BY <1>3, <3>2 DEF Flat
  <2> QED
    BY <2>1 DEF Leads
<1>8. ASSUME NEW i \in 1..n, NEW j \in 1..n, NEW x \in Range(groups[i]), NEW y \in Range(groups[j]), i < j
      PROVE  Leads(steps, x, y)
  <2>0. x \in STRING /\ y \in STRING
    BY DEF Distinct, Range
  <2>1. \A b \in Conditions : Before(steps, StepOf(x, lead[i]), StepOf(y, b))
    <3> SUFFICES ASSUME NEW b \in Conditions PROVE Before(steps, StepOf(x, lead[i]), StepOf(y, b))
      OBVIOUS
    <3>1. /\ StepOf(x, lead[i]) \in Steps /\ StepOf(x, lead[i]).item = x
          /\ StepOf(y, b) \in Steps /\ StepOf(y, b).item = y
      BY <2>0 DEF StepOf, Steps
    <3>2. StepOf(x, lead[i]) \in Range(parts[i]) /\ StepOf(y, b) \in Range(parts[j])
      BY <1>2, <3>1
    <3>3. InParts(parts, n, StepOf(x, lead[i]), StepOf(y, b))
      BY <1>8, <3>2 DEF InParts
    <3> QED
      BY <1>3, <3>3 DEF Flat
  <2> QED
    BY <2>1 DEF Leads
<1> QED
  BY <1>5, <1>6, <1>7, <1>8 DEF steps, parts


\* A stretch of a list.
LEMMA StretchOf ==
  ASSUME NEW items, Distinct(items), NEW a \in Nat \ {0}, NEW b \in Nat, b <= Len(items)
  PROVE  /\ Distinct(SubSeq(items, a, b))
         /\ \A x : x \in Range(SubSeq(items, a, b)) <=> \E p \in a..b : x = items[p]
         /\ \A p, q \in a..b : p < q => Before(SubSeq(items, a, b), items[p], items[q])
<1> DEFINE s == SubSeq(items, a, b)
<1>1. /\ items \in Seq(STRING) /\ Len(items) \in Nat /\ DOMAIN items = 1..Len(items)
      /\ \A i \in 1..Len(items) : items[i] \in STRING
      /\ \A i, j \in 1..Len(items) : items[i] = items[j] => i = j
  BY DEF Distinct, IsInjective
<1>2. \A p \in a..b : p \in 1..Len(items)
  BY <1>1
<1>3. DOMAIN s = 1..(b - a + 1) /\ \A i \in 1..(b - a + 1) : s[i] = items[i + a - 1] /\ i + a - 1 \in a..b
  BY <1>1
<1>4. s \in Seq(STRING)
  <2>1. a <= b => s = [i \in 1..(b - a + 1) |-> s[i]] /\ b - a + 1 \in Nat
    BY <1>1
  <2>2. \A i \in 1..(b - a + 1) : s[i] \in STRING
    BY <1>1, <1>2, <1>3
  <2>3. b < a => s = <<>>
    BY <1>1
  <2> HIDE DEF s
  <2>4. CASE a <= b
    BY <2>1, <2>2, <2>4
  <2>5. CASE b < a
    BY <2>3, <2>5
  <2> QED
    BY <2>4, <2>5
<1> HIDE DEF s
<1>5. IsInjective(s)
  <2> SUFFICES ASSUME NEW i \in 1..(b - a + 1), NEW j \in 1..(b - a + 1), s[i] = s[j] PROVE i = j
    BY <1>3 DEF IsInjective
  <2>1. i + a - 1 = j + a - 1
    BY <1>1, <1>2, <1>3
  <2> QED
    BY <2>1
<1>6. \A p \in a..b : p - a + 1 \in 1..(b - a + 1) /\ s[p - a + 1] = items[p]
  BY <1>3
<1>7. \A x : x \in Range(s) <=> \E p \in a..b : x = items[p]
  <2>1. ASSUME NEW x, x \in Range(s) PROVE \E p \in a..b : x = items[p]
    <3>1. PICK i \in 1..(b - a + 1) : s[i] = x
      BY <1>3, <2>1 DEF Range
    <3> QED
      BY <1>3, <3>1
  <2>2. ASSUME NEW p \in a..b PROVE items[p] \in Range(s)
    BY <1>3, <1>6 DEF Range
  <2> QED
    BY <2>1, <2>2
<1>8. \A p, q \in a..b : p < q => Before(s, items[p], items[q])
  <2> SUFFICES ASSUME NEW p \in a..b, NEW q \in a..b, p < q PROVE Before(s, items[p], items[q])
    OBVIOUS
  <2>1. p - a + 1 < q - a + 1
    OBVIOUS
  <2> QED
    BY <1>3, <1>6, <2>1 DEF Before
<1> QED
  BY <1>4, <1>5, <1>7, <1>8 DEF Distinct, s


\* The end of a block: its size, or what is left.
LEMMA MinOfTwo ==
  ASSUME NEW a \in Int, NEW b \in Int
  PROVE  Min({a, b}) = IF a <= b THEN a ELSE b
<1> DEFINE m == IF a <= b THEN a ELSE b
<1>1. m \in {a, b} /\ \A y \in {a, b} : m <= y
  OBVIOUS
<1>2. \A x \in {a, b} : (\A y \in {a, b} : x <= y) => x = m
  OBVIOUS
<1> QED
  BY <1>1, <1>2 DEF Min

\* The blocks of a plan: each place in one of them, in order.
InBlock(p, b, size) == size * (b - 1) < p /\ p <= size * b

\* Every item is in a block, and later items are in no earlier block.
LEMMA BlocksAre ==
  ASSUME NEW size \in Nat \ {0}, NEW n \in Nat
  PROVE  LET last == (n + size - 1) \div size
         IN /\ last \in Nat
            /\ \A p \in 1..n : \E b \in 1..last : InBlock(p, b, size)
            /\ \A p, q \in 1..n : \A a, b \in 1..last :
                 p <= q /\ InBlock(p, a, size) /\ InBlock(q, b, size) => a <= b
<1> DEFINE last == (n + size - 1) \div size
<1>1. last \in Nat /\ n + size - 1 < size * last + size
  <2>1. n + size - 1 \in Nat
    OBVIOUS
  <2> QED
    BY <2>1, QuotientIs
<1> HIDE DEF last
<1>2. ASSUME NEW p \in 1..n PROVE \E b \in 1..last : InBlock(p, b, size)
  <2> DEFINE q == (p - 1) \div size
  <2>1. q \in Nat /\ size * q <= p - 1 /\ p - 1 < size * q + size
    <3>1. p - 1 \in Nat
      OBVIOUS
    <3> QED
      BY <3>1, QuotientIs
  <2> HIDE DEF q
  <2>2. size * q \in Nat /\ size * last \in Nat /\ size * (q + 1) = size * q + size /\ (q + 1) - 1 = q
    BY <1>1, <2>1
  <2>3. size * q < size * last
    BY <1>1, <2>1, <2>2
  <2>4. q < last
    <3>1. q \in Int /\ last \in Int
      BY <1>1, <2>1
    <3> QED
      BY <2>3, <3>1, FactorBelow
  <2>5. q + 1 \in 1..last
    BY <1>1, <2>1, <2>4
  <2>6. InBlock(p, q + 1, size)
    BY <2>1, <2>2 DEF InBlock
  <2> QED
    BY <2>5, <2>6
<1>3. ASSUME NEW p \in 1..n, NEW q \in 1..n, NEW a \in 1..last, NEW b \in 1..last,
             p <= q, InBlock(p, a, size), InBlock(q, b, size)
      PROVE  a <= b
  <2>1. a - 1 \in Int /\ b \in Int /\ size * (a - 1) \in Int /\ size * b \in Int
    BY <1>1
  <2>2. size * (a - 1) < size * b
    BY <1>3, <2>1 DEF InBlock
  <2>3. a - 1 < b
    BY <2>1, <2>2, FactorBelow
  <2> QED
    BY <1>1, <2>1, <2>3
<1> QED
  BY <1>1, <1>2, <1>3 DEF last

\* The items of one block.
BlockOf(b, size) == SubSeq(PlanItems, (b - 1) * size + 1, Min({b * size, Len(PlanItems)}))

\* A block measures its items under one condition, then under the other.
LEMMA BlockIs ==
  ASSUME NEW size \in Nat \ {0}, NEW b \in 1..((Len(PlanItems) + size - 1) \div size)
  PROVE  /\ Distinct(BlockOf(b, size))
         /\ \A x : x \in Range(BlockOf(b, size))
                     <=> \E p \in 1..Len(PlanItems) : InBlock(p, b, size) /\ x = PlanItems[p]
         /\ \A p, q \in 1..Len(PlanItems) :
              p < q /\ InBlock(p, b, size) /\ InBlock(q, b, size)
                => Before(BlockOf(b, size), PlanItems[p], PlanItems[q])
<1> DEFINE n == Len(PlanItems)
           lo == (b - 1) * size + 1
           hi == Min({b * size, n})
<1>1. n \in Nat /\ Distinct(PlanItems)
  BY ItemsAre DEF Distinct
<1>2. b \in Nat \ {0} /\ b - 1 \in Nat
  BY <1>1, BlocksAre
<1>3. b * size \in Nat /\ (b - 1) * size \in Nat /\ size * b = b * size /\ size * (b - 1) = (b - 1) * size
  BY <1>2
<1>4. hi \in Nat /\ hi <= n /\ hi <= b * size /\ (hi = n \/ hi = b * size)
  <2>1. hi = IF b * size <= n THEN b * size ELSE n
    BY <1>1, <1>3, MinOfTwo
  <2> HIDE DEF hi
  <2> QED
    BY <1>1, <1>3, <2>1
<1>5. lo \in Nat \ {0}
  BY <1>3
<1>6. \A p : p \in lo..hi <=> p \in 1..n /\ InBlock(p, b, size)
  <2> HIDE DEF hi
  <2> QED
    BY <1>1, <1>3, <1>4 DEF InBlock
<1> HIDE DEF lo, hi, n
<1>7. /\ Distinct(SubSeq(PlanItems, lo, hi))
      /\ \A x : x \in Range(SubSeq(PlanItems, lo, hi)) <=> \E p \in lo..hi : x = PlanItems[p]
      /\ \A p, q \in lo..hi : p < q => Before(SubSeq(PlanItems, lo, hi), PlanItems[p], PlanItems[q])
  BY <1>1, <1>4, <1>5, StretchOf DEF n
<1>8. BlockOf(b, size) = SubSeq(PlanItems, lo, hi)
  BY DEF BlockOf, lo, hi, n
<1> QED
  BY <1>6, <1>7, <1>8 DEF n

\* The plan has every step of every item, once, and measures them in order.
LEMMA PlanIs ==
  ASSUME NEW c, c.block \in Nat
  PROVE  /\ PlanOf(c) \in Seq(Steps) /\ IsInjective(PlanOf(c))
         /\ \A z : z \in Range(PlanOf(c)) <=> z \in Steps /\ z.item \in Range(PlanItems)
         /\ \A x, y : Before(PlanItems, x, y) => Leads(PlanOf(c), x, y)
<1> DEFINE n == Len(PlanItems)
<1>1. /\ n \in Nat /\ DOMAIN PlanItems = 1..n /\ Distinct(PlanItems)
      /\ \A i \in 1..n : PlanItems[i] \in STRING
      /\ \A i, j \in 1..n : PlanItems[i] = PlanItems[j] => i = j
  BY ItemsAre DEF Distinct, IsInjective
<1>5. \A x : x \in Range(PlanItems) <=> \E i \in 1..n : x = PlanItems[i]
  BY <1>1 DEF Range
<1> HIDE DEF n
<1>2. CASE c.block = 0
  <2> DEFINE groups == [i \in 1..n |-> <<PlanItems[i]>>]
             lead == [i \in 1..n |-> "candidate"]
             steps == FlattenSeq([i \in 1..n |-> Both(groups[i], lead[i])])
  <2>1. \A i \in 1..n : /\ Distinct(groups[i]) /\ Range(groups[i]) = {PlanItems[i]}
                        /\ lead[i] = "candidate" /\ lead[i] \in Conditions
    BY <1>1, OneIs DEF Distinct, Conditions
  <2>2. \A i, j \in 1..n : i # j => Apart(groups[i], groups[j])
    <3> HIDE DEF groups
    <3> QED
      BY <1>1, <2>1 DEF Apart
  <2>3. Other("candidate") = "base"
    BY DEF Other, Conditions
  <2>4. PlanOf(c) = steps
    <3> DEFINE pairs == [i \in DOMAIN PlanItems |->
                          Under(<<PlanItems[i]>>, "candidate") \o Under(<<PlanItems[i]>>, "base")]
    <3>1. [i \in 1..n |-> Both(groups[i], lead[i])] = pairs
      BY <1>1, <2>3 DEF Both
    <3>2. PlanOf(c) = FlattenSeq(pairs)
      BY <1>2 DEF PlanOf
    <3> HIDE DEF pairs, groups, lead
    <3> QED
      BY <3>1, <3>2
  <2> HIDE DEF groups, lead
  <2>5. /\ steps \in Seq(Steps) /\ IsInjective(steps)
        /\ \A z : z \in Range(steps) <=> z \in Steps /\ \E i \in 1..n : z.item \in Range(groups[i])
        /\ \A i \in 1..n : \A x, y : Before(groups[i], x, y) => Leads(steps, x, y)
        /\ \A i, j \in 1..n : \A x \in Range(groups[i]), y \in Range(groups[j]) :
             i < j => Leads(steps, x, y)
    <3>1. \A i \in 1..n : Distinct(groups[i]) /\ lead[i] \in Conditions
      BY <2>1
    <3>2. n \in Nat
      BY <1>1
    <3> QED
      BY <2>2, <3>1, <3>2, GroupsAre
  <2> HIDE DEF steps
  <2>6. \A x : x \in Range(PlanItems) <=> \E i \in 1..n : x \in Range(groups[i])
    <3>1. \A i \in 1..n : Range(groups[i]) = {PlanItems[i]}
      BY <2>1
    <3> QED
      BY <1>5, <3>1
  <2>7. ASSUME NEW x, NEW y, Before(PlanItems, x, y) PROVE Leads(steps, x, y)
    <3>1. PICK a \in 1..n, b \in 1..n : a < b /\ PlanItems[a] = x /\ PlanItems[b] = y
      BY <1>1, <2>7 DEF Before
    <3>2. x \in Range(groups[a]) /\ y \in Range(groups[b])
      BY <2>1, <3>1
    <3> QED
      BY <2>5, <3>1, <3>2
  <2> QED
    BY <2>4, <2>5, <2>6, <2>7
<1>3. CASE c.block # 0
  <2> DEFINE size == c.block
             m == (n + size - 1) \div size
             groups == [b \in 1..m |-> BlockOf(b, size)]
             lead == [b \in 1..m |-> IF b % 2 = 1 THEN "candidate" ELSE "base"]
             steps == FlattenSeq([b \in 1..m |-> Both(groups[b], lead[b])])
  <2>1. size \in Nat \ {0}
    BY <1>3
  <2>2. PlanOf(c) = steps
    <3>1. [b \in 1..m |-> Both(groups[b], lead[b])]
            = [b \in 1..m |->
                 Under(SubSeq(PlanItems, (b - 1) * size + 1, Min({b * size, n})),
                       IF b % 2 = 1 THEN "candidate" ELSE "base")
                 \o Under(SubSeq(PlanItems, (b - 1) * size + 1, Min({b * size, n})),
                          Other(IF b % 2 = 1 THEN "candidate" ELSE "base"))]
      BY DEF Both, BlockOf, n
    <3>2. size > 0
      BY <2>1
    <3> QED
      BY <3>1, <3>2 DEF PlanOf, InBlocks, n
  <2> HIDE DEF size
  <2>3. /\ m \in Nat
        /\ \A p \in 1..n : \E b \in 1..m : InBlock(p, b, size)
        /\ \A p, q \in 1..n : \A a, b \in 1..m :
             p <= q /\ InBlock(p, a, size) /\ InBlock(q, b, size) => a <= b
    BY <1>1, <2>1, BlocksAre
  <2>4. \A b \in 1..m :
          /\ Distinct(BlockOf(b, size))
          /\ \A x : x \in Range(BlockOf(b, size)) <=> \E p \in 1..n : InBlock(p, b, size) /\ x = PlanItems[p]
          /\ \A p, q \in 1..n : p < q /\ InBlock(p, b, size) /\ InBlock(q, b, size)
                => Before(BlockOf(b, size), PlanItems[p], PlanItems[q])
    BY <2>1, BlockIs DEF n
  <2> HIDE DEF m
  <2>5. \A b \in 1..m : groups[b] = BlockOf(b, size) /\ lead[b] \in Conditions
    BY DEF Conditions
  <2> HIDE DEF groups, lead
  <2>6. ASSUME NEW a \in 1..m, NEW b \in 1..m, a # b PROVE Apart(groups[a], groups[b])
    <3> SUFFICES ASSUME NEW x, x \in Range(groups[a]), x \in Range(groups[b]) PROVE FALSE
      BY DEF Apart
    <3>1. PICK p \in 1..n : InBlock(p, a, size) /\ x = PlanItems[p]
      BY <2>4, <2>5
    <3>2. PICK q \in 1..n : InBlock(q, b, size) /\ x = PlanItems[q]
      BY <2>4, <2>5
    <3>3. p = q
      BY <1>1, <3>1, <3>2
    <3>4. p <= p
      OBVIOUS
    <3>5. a <= b /\ b <= a
      BY <2>3, <3>1, <3>2, <3>3, <3>4
    <3> QED
      BY <2>3, <2>6, <3>5
  <2>7. /\ steps \in Seq(Steps) /\ IsInjective(steps)
        /\ \A z : z \in Range(steps) <=> z \in Steps /\ \E i \in 1..m : z.item \in Range(groups[i])
        /\ \A i \in 1..m : \A x, y : Before(groups[i], x, y) => Leads(steps, x, y)
        /\ \A i, j \in 1..m : \A x \in Range(groups[i]), y \in Range(groups[j]) :
             i < j => Leads(steps, x, y)
    <3>1. \A i \in 1..m : Distinct(groups[i]) /\ lead[i] \in Conditions
      BY <2>4, <2>5
    <3> QED
      BY <2>3, <2>6, <3>1, GroupsAre
  <2> HIDE DEF steps
  <2>8. \A x : x \in Range(PlanItems) <=> \E b \in 1..m : x \in Range(groups[b])
    BY <1>5, <2>3, <2>4, <2>5
  <2>9. ASSUME NEW x, NEW y, Before(PlanItems, x, y) PROVE Leads(steps, x, y)
    <3>1. PICK p \in 1..n, q \in 1..n : p < q /\ PlanItems[p] = x /\ PlanItems[q] = y
      BY <1>1, <2>9 DEF Before
    <3>2. PICK a \in 1..m : InBlock(p, a, size)
      BY <2>3
    <3>3. PICK b \in 1..m : InBlock(q, b, size)
      BY <2>3
    <3>4. a <= b
      BY <2>3, <3>1, <3>2, <3>3
    <3>5. CASE a = b
      <4>1. Before(groups[a], x, y)
        BY <2>4, <2>5, <3>1, <3>2, <3>3, <3>5
      <4> QED
        BY <2>7, <4>1
    <3>6. CASE a < b
      <4>1. x \in Range(groups[a]) /\ y \in Range(groups[b])
        BY <2>4, <2>5, <3>1, <3>2, <3>3
      <4> QED
        BY <2>7, <3>6, <4>1
    <3> QED
      BY <2>3, <3>4, <3>5, <3>6
  <2> QED
    BY <2>2, <2>7, <2>8, <2>9
<1> QED
  BY <1>2, <1>3


\* Min is what its name says.
LEMMA LeastNat ==
  ASSUME NEW T \in SUBSET Nat, T # {}
  PROVE  Min(T) \in T /\ \A m \in T : Min(T) <= m
BY LeastIs DEF Min

\* Where an item is measured first.
FirstOf(steps, x) == Min({n \in DOMAIN steps : steps[n].item = x})

\* What leads another in the plan is measured before it.
LEMMA LeadsFirst ==
  ASSUME NEW steps \in Seq(Steps), IsInjective(steps), NEW x, NEW y, Leads(steps, x, y)
  PROVE  FirstOf(steps, x) < FirstOf(steps, y)
<1> DEFINE X == {n \in DOMAIN steps : steps[n].item = x}
           Y == {n \in DOMAIN steps : steps[n].item = y}
<1>1. /\ DOMAIN steps = 1..Len(steps) /\ Len(steps) \in Nat
      /\ \A n \in DOMAIN steps : steps[n] \in Steps
      /\ \A m, n \in DOMAIN steps : steps[m] = steps[n] => m = n
  BY DEF IsInjective
<1>2. PICK c \in Conditions : \A b \in Conditions : Before(steps, StepOf(x, c), StepOf(y, b))
  BY DEF Leads
<1>3. X \in SUBSET Nat /\ Y \in SUBSET Nat
  BY <1>1
<1>4. Y # {}
  <2>1. PICK p, q \in DOMAIN steps : steps[q] = StepOf(y, c)
    BY <1>2 DEF Before
  <2>2. q \in Y
    BY <2>1 DEF StepOf
  <2> QED
    BY <2>2
<1>5. Min(Y) \in Y
  <2> HIDE DEF Y
  <2> QED
    BY <1>3, <1>4, LeastNat
<1>6. PICK q \in DOMAIN steps : q = Min(Y) /\ steps[q].item = y
  BY <1>5
<1>7. steps[q].condition \in Conditions /\ steps[q] = StepOf(y, steps[q].condition)
  BY <1>1, <1>6, StepFields
<1>8. PICK a, b \in DOMAIN steps : a < b /\ steps[a] = StepOf(x, c) /\ steps[b] = StepOf(y, steps[q].condition)
  BY <1>2, <1>7 DEF Before
<1>9. b = q /\ a \in X
  BY <1>1, <1>7, <1>8 DEF StepOf
<1>10. Min(X) \in Nat /\ Min(X) <= a
  <2> HIDE DEF X
  <2> QED
    BY <1>3, <1>9, LeastNat
<1>11. a \in Nat /\ q \in Nat /\ a < q
  BY <1>1, <1>8, <1>9
<1>12. Min(X) < Min(Y)
  <2> HIDE DEF X, Y
  <2> QED
    BY <1>6, <1>10, <1>11
<1> QED
  BY <1>12 DEF FirstOf

\* A known failure is reached after as many D items as its mark says.
LEMMA ReachedAtItsMark ==
  ASSUME NEW c, c.block \in Nat, NEW i \in DOMAIN Known
  PROVE  Cardinality({n \in DOMAIN Dev : FirstOf(PlanOf(c), Dev[n]) < FirstOf(PlanOf(c), Known[i])}) = Mark(i)
<1> DEFINE steps == PlanOf(c)
           before == {n \in DOMAIN Dev : FirstOf(steps, Dev[n]) < FirstOf(steps, Known[i])}
<1>1. /\ steps \in Seq(Steps) /\ IsInjective(steps)
      /\ \A x, y : Before(PlanItems, x, y) => Leads(steps, x, y)
  BY PlanIs
<1> HIDE DEF steps
<1>2. DOMAIN Dev = 1..Len(Dev) /\ Len(Dev) \in Nat
  BY PlanAssumption
<1>3. Mark(i) \in Nat /\ Mark(i) <= Len(Dev)
  BY <1>2, MarksIn
<1>4. \A x \in Range(Dev) \cup Range(Known) : FirstOf(steps, x) \in Nat
  <2> SUFFICES ASSUME NEW x \in Range(PlanItems) PROVE FirstOf(steps, x) \in Nat
    BY ItemsAre
  <2> DEFINE X == {n \in DOMAIN steps : steps[n].item = x}
  <2>1. X \in SUBSET Nat
    BY <1>1
  <2>2. X # {}
    <3>1. x \in STRING
      BY ItemsAre DEF Distinct, Range
    <3>2. StepOf(x, "base") \in Steps /\ StepOf(x, "base").item = x
      BY <3>1 DEF StepOf, Steps, Conditions
    <3>3. StepOf(x, "base") \in Range(steps)
      BY <3>2, PlanIs DEF steps
    <3>4. PICK n \in DOMAIN steps : steps[n] = StepOf(x, "base")
      BY <3>3 DEF Range
    <3>5. n \in X
      BY <3>2, <3>4
    <3> QED
      BY <3>5
  <2>3. Min(X) \in Nat
    <3> HIDE DEF X
    <3> QED
      BY <2>1, <2>2, LeastNat
  <2> QED
    BY <2>3 DEF FirstOf
<1>5. \A n \in DOMAIN Dev : n \in before <=> n <= Mark(i)
  <2> SUFFICES ASSUME NEW n \in DOMAIN Dev
               PROVE  FirstOf(steps, Dev[n]) < FirstOf(steps, Known[i]) <=> n <= Mark(i)
    OBVIOUS
  <2>1. FirstOf(steps, Dev[n]) \in Nat /\ FirstOf(steps, Known[i]) \in Nat
    BY <1>4 DEF Range
  <2>2. CASE n <= Mark(i)
    <3>1. Leads(steps, Dev[n], Known[i])
      BY <1>1, <2>2, ItemsAre
    <3> QED
      BY <1>1, <2>2, <3>1, LeadsFirst
  <2>3. CASE ~ (n <= Mark(i))
    <3>1. Leads(steps, Known[i], Dev[n])
      BY <1>1, <2>3, ItemsAre
    <3>2. FirstOf(steps, Known[i]) < FirstOf(steps, Dev[n])
      BY <1>1, <3>1, LeadsFirst
    <3> QED
      BY <2>1, <2>3, <3>2
  <2> QED
    BY <2>2, <2>3
<1>6. before = 1..Mark(i)
  <2>1. before \subseteq DOMAIN Dev
    OBVIOUS
  <2> HIDE DEF before
  <2>2. ASSUME NEW n \in before PROVE n \in 1..Mark(i)
    BY <1>2, <1>3, <1>5, <2>1
  <2>3. ASSUME NEW n \in 1..Mark(i) PROVE n \in before
    <3>1. n \in DOMAIN Dev /\ n <= Mark(i)
      BY <1>2, <1>3
    <3> QED
      BY <1>5, <3>1
  <2> QED
    BY <2>2, <2>3
<1>7. Cardinality(1..Mark(i)) = Mark(i)
  BY <1>3, UpToCounted
<1> QED
  BY <1>6, <1>7 DEF steps

-----------------------------------------------------------------------------
(***************************************************************************)
(* A pass.                                                                 *)
(***************************************************************************)
Phases == {"idle", "identifying", "planning", "running", "asking"}

\* The part of TypeOK the journal's theorems rest on.
JournalTyped ==
  /\ card \in Cards /\ plan = PlanOf(card)
  /\ inputs \in Versions
  /\ journal \in Seq(Rows)
  /\ phase \in Phases
  /\ k \in Nat \ {0} /\ done \in 0..Len(journal)

\* A step is asked inside the plan, and not if an earlier pass recorded it.
AskedIsOpen == phase = "asking" => k \in DOMAIN plan /\ ~Completed(Step)

\* What this pass recorded, it recorded at a position it is past.
FreshIsBehind ==
  phase # "idle" =>
    \A n \in (done + 1)..Len(journal) :
      \E m \in 1..(k - 1) : m \in DOMAIN plan /\ journal[n].step = plan[m]

\* A pass that records holds the identity of its inputs, and nothing is
\* recorded before there is one.
IdentityHolds ==
  /\ phase \in {"planning", "running", "asking"} => identity = inputs
  /\ phase = "identifying" => journal = <<>>
  /\ identity = Nothing => journal = <<>>

\* What a pass believes of the fleet is so, unless a switch failed in it.
BeliefHolds ==
  /\ phase = "asking" => current = Step.condition
  /\ current \in card.hooked /\ ~refused => fleet = current
  /\ phase = "idle" => current = Nothing

-----------------------------------------------------------------------------
(***************************************************************************)
(* Facts about the plan and the journal                                    *)
(***************************************************************************)

\* The plan has every step of every item, each of them once.
LEMMA PlanFacts ==
  ASSUME JournalTyped
  PROVE  /\ plan \in Seq(Steps)
         /\ \A n \in DOMAIN plan : plan[n] \in Steps
         /\ \A m, n \in DOMAIN plan : plan[m] = plan[n] => m = n
         /\ \A z : z \in Range(plan) <=> z \in Steps /\ z.item \in Range(PlanItems)
<1>1. card.block \in Nat /\ plan = PlanOf(card)
  BY TrialAssumption DEF JournalTyped
<1>2. /\ plan \in Seq(Steps) /\ IsInjective(plan)
      /\ \A z : z \in Range(plan) <=> z \in Steps /\ z.item \in Range(PlanItems)
  BY <1>1, PlanIs
<1>3. \A n \in DOMAIN plan : plan[n] \in Steps
  BY <1>2
<1> QED
  BY <1>2, <1>3 DEF IsInjective

\* A record of the step at hand is a row, and is the journal's last.
LEMMA RecordFacts ==
  ASSUME JournalTyped, k \in DOMAIN plan,
         NEW source \in {"measured", "reused"},
         NEW answer \in {"answered", "invalid_output", "none"},
         Record(source, answer)
  PROVE  /\ journal' \in Seq(Rows)
         /\ Len(journal') = Len(journal) + 1
         /\ \A n \in 1..Len(journal) : journal'[n] = journal[n]
         /\ journal'[Len(journal) + 1].step = plan[k]
         /\ journal'[Len(journal) + 1].under = inputs
<1> DEFINE row == [step |-> Step, source |-> source, answer |-> answer, under |-> inputs]
<1>1. Step \in Range(plan)
  BY DEF Step, Range
<1>2. row \in Rows
  BY <1>1 DEF Rows, JournalTyped
<1>3. journal \in Seq(Rows) /\ journal' = Append(journal, row)
  BY DEF JournalTyped, Record
<1>4. row.step = plan[k] /\ row.under = inputs
  BY DEF Step
<1> HIDE DEF row
<1> QED
  BY <1>2, <1>3, <1>4

\* A step that records something.
Records == Reuse \/ Unreadable \/ SwitchFails \/ Answer \/ Fail

\* Whatever it is, it records the step at hand, which no earlier pass did, and
\* goes on to the next.
LEMMA RecordsStep ==
  ASSUME JournalTyped, AskedIsOpen, Records
  PROVE  /\ phase \in {"running", "asking"} /\ phase' = "running"
         /\ k \in DOMAIN plan /\ ~Completed(Step) /\ k' = k + 1
         /\ \E source \in {"measured", "reused"},
               answer \in {"answered", "invalid_output", "none"} : Record(source, answer)
         /\ UNCHANGED <<card, plan, inputs, identity, done>>
<1>1. InPlan => k \in DOMAIN plan
  BY PlanFacts DEF InPlan, JournalTyped
<1>2. CASE Reuse
  BY <1>1, <1>2 DEF Reuse, InPlan, setup
<1>3. CASE Unreadable
  BY <1>1, <1>3 DEF Unreadable, InPlan, setup
<1>4. CASE SwitchFails
  BY <1>1, <1>4 DEF SwitchFails, Paid, InPlan, setup
<1>5. CASE Answer
  BY <1>5 DEF Answer, AskedIsOpen, setup
<1>6. CASE Fail
  BY <1>6 DEF Fail, AskedIsOpen, setup
<1> QED
  BY <1>2, <1>3, <1>4, <1>5, <1>6 DEF Records

\* What such a step leaves: the old journal, and one row after it.
LEMMA RecordsRow ==
  ASSUME JournalTyped, AskedIsOpen, Records
  PROVE  /\ journal' \in Seq(Rows)
         /\ Len(journal') = Len(journal) + 1
         /\ \A n \in 1..Len(journal) : journal'[n] = journal[n]
         /\ journal'[Len(journal) + 1].step = plan[k]
         /\ journal'[Len(journal) + 1].under = inputs
<1>1. PICK source \in {"measured", "reused"},
           answer \in {"answered", "invalid_output", "none"} : Record(source, answer)
  BY RecordsStep
<1> QED
  BY <1>1, RecordsStep, RecordFacts

\* Every step keeps the types.
LEMMA StepTyped == JournalTyped /\ AskedIsOpen /\ [Next]_vars => JournalTyped'
<1> SUFFICES ASSUME JournalTyped, AskedIsOpen, [Next]_vars PROVE JournalTyped'
  OBVIOUS
<1>0. Len(journal) \in Nat
  BY DEF JournalTyped
<1>1. CASE Records
  <2>1. Rows' = Rows
    BY <1>1, RecordsStep DEF Rows
  <2>2. journal' \in Seq(Rows)' /\ done' \in 0..Len(journal')
    BY <1>0, <1>1, <2>1, RecordsStep, RecordsRow DEF JournalTyped
  <2> QED
    BY <1>1, <2>2, RecordsStep DEF JournalTyped, Phases
<1> DEFINE Frame == card' = card /\ plan' = plan /\ journal' = journal
<1>2. ASSUME Frame, inputs' \in Versions, phase' \in Phases,
             k' \in {1, k, k + 1}, done' \in {0, done, Len(journal)}
      PROVE  JournalTyped'
  BY <1>0, <1>2 DEF JournalTyped, Rows
<1>3. CASE Claim
  BY <1>2, <1>3 DEF Claim, setup, JournalTyped, Phases
<1>4. CASE Identify \/ Preregister
  BY <1>2, <1>4 DEF Identify, Preregister, setup, JournalTyped, Phases
<1>5. CASE Skip \/ Drop
  BY <1>2, <1>5 DEF Skip, Drop, setup, disk, JournalTyped
<1>6. CASE Ask \/ Switch
  BY <1>2, <1>6 DEF Ask, Switch, setup, disk, JournalTyped, Phases
<1>7. CASE Return \/ Finish \/ Crash
  BY <1>2, <1>7 DEF Return, Finish, Crash, EndPass, setup, disk, JournalTyped, Phases
<1>8. CASE Deadline \/ Interrupt
  BY <1>2, <1>8 DEF Deadline, Interrupt, setup, disk, JournalTyped
<1>9. CASE Edit
  BY <1>2, <1>9 DEF Edit, setup, disk, pass, JournalTyped
<1>10. CASE UNCHANGED vars
  BY <1>2, <1>10 DEF vars, setup, disk, pass, JournalTyped
<1> QED
  BY <1>1, <1>3, <1>4, <1>5, <1>6, <1>7, <1>8, <1>9, <1>10
     DEF Next, PassStep, Disturbance, Records

\* A step is only ever asked once it has been found open.
LEMMA StepAsked == JournalTyped /\ AskedIsOpen /\ [Next]_vars => AskedIsOpen'
<1> SUFFICES ASSUME JournalTyped, AskedIsOpen, [Next]_vars PROVE AskedIsOpen'
  OBVIOUS
<1>1. CASE Records
  BY <1>1, RecordsStep DEF AskedIsOpen
<1>2. CASE Ask \/ Switch
  <2>1. k \in DOMAIN plan /\ ~Completed(Step)
    BY <1>2, PlanFacts DEF Ask, Switch, Paid, InPlan, JournalTyped
  <2>2. UNCHANGED <<plan, journal, done, k>>
    BY <1>2 DEF Ask, Switch, setup, disk
  <2> QED
    BY <2>1, <2>2 DEF AskedIsOpen, Completed, Step
<1>3. CASE Claim \/ Identify \/ Preregister \/ Skip \/ Drop
  BY <1>3 DEF Claim, Identify, Preregister, Skip, Drop, InPlan, AskedIsOpen
<1>4. CASE Return \/ Finish \/ Crash
  BY <1>4 DEF Return, Finish, Crash, EndPass, AskedIsOpen
<1>5. CASE Deadline \/ Interrupt \/ Edit \/ UNCHANGED vars
  <2>1. UNCHANGED <<plan, journal, done, k, phase>>
    BY <1>5 DEF Deadline, Interrupt, Edit, vars, setup, disk, pass
  <2> QED
    BY <2>1 DEF AskedIsOpen, Completed, Step
<1> QED
  BY <1>1, <1>2, <1>3, <1>4, <1>5 DEF Next, PassStep, Disturbance, Records

\* Initially no pass runs and the directory is empty.
LEMMA InitFacts ==
  ASSUME Init
  PROVE  JournalTyped /\ AskedIsOpen /\ FreshIsBehind /\ IdentityHolds /\ BeliefHolds
         /\ StepsRecordedOnce /\ JournalIsOneMeasurement
<1>1. journal = <<>> /\ phase = "idle" /\ k = 1 /\ done = 0 /\ current = Nothing
  BY DEF Init, NoPass
<1>2. <<>> \in Seq(Rows) /\ Len(<<>>) = 0 /\ DOMAIN <<>> = {}
  OBVIOUS
<1>3. JournalTyped
  BY <1>1, <1>2 DEF Init, JournalTyped, Phases
<1>4. BeliefHolds
  BY <1>1, TrialAssumption DEF Init, BeliefHolds
<1> QED
  BY <1>1, <1>2, <1>3, <1>4
     DEF AskedIsOpen, FreshIsBehind, IdentityHolds, StepsRecordedOnce, JournalIsOneMeasurement

-----------------------------------------------------------------------------
(***************************************************************************)
(* One measurement                                                         *)
(***************************************************************************)

\* A pass goes on only under the identity of its inputs, and the identity is
\* written before anything is recorded.
LEMMA StepIdentity ==
  JournalTyped /\ AskedIsOpen /\ IdentityHolds /\ JournalIsOneMeasurement /\ [Next]_vars
    => IdentityHolds' /\ JournalIsOneMeasurement'
<1> SUFFICES ASSUME JournalTyped, AskedIsOpen, IdentityHolds, JournalIsOneMeasurement,
                    [Next]_vars
             PROVE  IdentityHolds' /\ JournalIsOneMeasurement'
  OBVIOUS
<1>0. journal \in Seq(Rows) /\ Len(journal) \in Nat
  BY DEF JournalTyped
<1>1. CASE Records
  <2>1. identity = inputs /\ identity' = identity /\ inputs' = inputs /\ phase' = "running"
    BY <1>1, RecordsStep DEF IdentityHolds
  <2>2. \A n \in DOMAIN journal' : journal'[n].under = identity
    BY <1>0, <1>1, <2>1, RecordsRow DEF JournalIsOneMeasurement
  <2>3. identity \in Versions /\ Nothing \notin Versions
    BY <2>1, TrialAssumption DEF JournalTyped
  <2> QED
    BY <2>1, <2>2, <2>3 DEF IdentityHolds, JournalIsOneMeasurement
<1>2. CASE Claim
  <2>1. identity = Nothing => journal = <<>>
    BY DEF IdentityHolds
  <2> QED
    BY <1>2, <2>1, TrialAssumption
       DEF Claim, Resumable, setup, IdentityHolds, JournalIsOneMeasurement, JournalTyped
<1>3. CASE Identify
  BY <1>3, TrialAssumption
     DEF Identify, setup, IdentityHolds, JournalIsOneMeasurement, JournalTyped
<1>4. CASE Preregister \/ Skip \/ Drop \/ Ask \/ Switch
  <2>1. UNCHANGED <<inputs, identity, journal>> /\ phase \in {"planning", "running"}
        /\ phase' \in {"running", "asking"}
    BY <1>4 DEF Preregister, Skip, Drop, Ask, Switch, Paid, InPlan, setup, disk
  <2> QED
    BY <2>1 DEF IdentityHolds, JournalIsOneMeasurement
<1>5. CASE Return \/ Finish \/ Crash
  BY <1>5 DEF Return, Finish, Crash, EndPass, disk, IdentityHolds, JournalIsOneMeasurement
<1>6. CASE Edit
  BY <1>6 DEF Edit, disk, pass, IdentityHolds, JournalIsOneMeasurement
<1>7. CASE Deadline \/ Interrupt \/ UNCHANGED vars
  <2>1. UNCHANGED <<inputs, identity, journal, phase>>
    BY <1>7 DEF Deadline, Interrupt, vars, disk, pass
  <2> QED
    BY <2>1 DEF IdentityHolds, JournalIsOneMeasurement
<1> QED
  BY <1>1, <1>2, <1>3, <1>4, <1>5, <1>6, <1>7 DEF Next, PassStep, Disturbance, Records

\* A journal is one measurement: every record in it was made from the files
\* the identity names, whoever edits them between the passes.
THEOREM OneMeasurement == Spec => []JournalIsOneMeasurement
<1> DEFINE Inv == JournalTyped /\ AskedIsOpen /\ IdentityHolds /\ JournalIsOneMeasurement
<1>1. Init => Inv
  BY InitFacts
<1>2. Inv /\ [Next]_vars => Inv'
  BY StepTyped, StepAsked, StepIdentity
<1>3. Inv => JournalIsOneMeasurement
  OBVIOUS
<1> QED
  BY <1>1, <1>2, <1>3, PTL DEF Spec

-----------------------------------------------------------------------------
(***************************************************************************)
(* Each step once                                                          *)
(***************************************************************************)

\* What a pass recorded stays behind it, and the step it records next is not
\* in the journal.
LEMMA StepFresh ==
  JournalTyped /\ AskedIsOpen /\ FreshIsBehind /\ StepsRecordedOnce /\ [Next]_vars
    => FreshIsBehind' /\ StepsRecordedOnce'
<1> SUFFICES ASSUME JournalTyped, AskedIsOpen, FreshIsBehind, StepsRecordedOnce, [Next]_vars
             PROVE  FreshIsBehind' /\ StepsRecordedOnce'
  OBVIOUS
<1>0. journal \in Seq(Rows) /\ Len(journal) \in Nat /\ k \in Nat \ {0} /\ done \in Nat
  BY DEF JournalTyped
<1>1. CASE Records
  <2>1. /\ phase # "idle" /\ k \in DOMAIN plan /\ ~Completed(Step)
        /\ k' = k + 1 /\ plan' = plan /\ done' = done
    BY <1>1, RecordsStep
  <2>2. \A n \in DOMAIN journal : journal[n].step # plan[k]
    <3> SUFFICES ASSUME NEW n \in DOMAIN journal, journal[n].step = plan[k] PROVE FALSE
      OBVIOUS
    <3>1. CASE n <= done
      BY <1>0, <2>1, <3>1 DEF Completed, Step
    <3>2. CASE n > done
      <4>0. n \in (done + 1)..Len(journal)
        BY <1>0, <3>2
      <4>1. PICK m \in 1..(k - 1) : m \in DOMAIN plan /\ journal[n].step = plan[m]
        BY <2>1, <4>0 DEF FreshIsBehind
      <4>2. m # k
        BY <1>0, <4>1
      <4>3. \A i, j \in DOMAIN plan : plan[i] = plan[j] => i = j
        BY PlanFacts
      <4> QED
        BY <2>1, <4>1, <4>2, <4>3
    <3> QED
      BY <1>0, <3>1, <3>2
  <2>3. FreshIsBehind'
    <3>0. k' - 1 = k /\ done' = done /\ plan' = plan
      BY <1>0, <2>1
    <3> SUFFICES ASSUME NEW n \in (done + 1)..Len(journal')
                 PROVE  \E m \in 1..k : m \in DOMAIN plan /\ journal'[n].step = plan[m]
      BY <3>0 DEF FreshIsBehind
    <3>1. CASE n <= Len(journal)
      <4>1. PICK m \in 1..(k - 1) : m \in DOMAIN plan /\ journal[n].step = plan[m]
        BY <1>0, <2>1, <3>1 DEF FreshIsBehind
      <4>2. journal'[n] = journal[n]
        BY <1>0, <1>1, <3>1, RecordsRow
      <4> QED
        BY <1>0, <4>1, <4>2
    <3>2. CASE n > Len(journal)
      <4>1. n = Len(journal) + 1
        BY <1>0, <1>1, <3>2, RecordsRow
      <4> QED
        BY <1>0, <1>1, <2>1, <4>1, RecordsRow
    <3> QED
      BY <1>0, <3>1, <3>2
  <2>4. StepsRecordedOnce'
    <3>1. DOMAIN journal' = 1..(Len(journal) + 1) /\ DOMAIN journal = 1..Len(journal)
      BY <1>0, <1>1, RecordsRow
    <3> QED
      BY <1>0, <1>1, <2>2, <3>1, RecordsRow DEF StepsRecordedOnce
  <2> QED
    BY <2>3, <2>4
<1>2. CASE Claim
  <2>1. done' = Len(journal) /\ journal' = journal
    BY <1>2 DEF Claim
  <2> QED
    BY <1>0, <2>1 DEF FreshIsBehind, StepsRecordedOnce
<1>3. CASE Skip \/ Drop
  <2>1. UNCHANGED <<plan, journal, done, phase>> /\ k' = k + 1
    BY <1>3 DEF Skip, Drop, setup, disk
  <2>2. 1..(k - 1) \subseteq 1..(k' - 1)
    BY <1>0, <2>1
  <2> QED
    BY <2>1, <2>2 DEF FreshIsBehind, StepsRecordedOnce
<1>4. CASE Identify \/ Preregister \/ Ask \/ Switch
  <2>1. UNCHANGED <<plan, journal, done, k>> /\ phase # "idle"
    BY <1>4 DEF Identify, Preregister, Ask, Switch, Paid, InPlan, setup, disk
  <2> QED
    BY <2>1 DEF FreshIsBehind, StepsRecordedOnce
<1>5. CASE Return \/ Finish \/ Crash
  BY <1>5 DEF Return, Finish, Crash, EndPass, disk, FreshIsBehind, StepsRecordedOnce
<1>6. CASE Deadline \/ Interrupt \/ Edit \/ UNCHANGED vars
  <2>1. UNCHANGED <<plan, journal, done, k, phase>>
    BY <1>6 DEF Deadline, Interrupt, Edit, vars, setup, disk, pass
  <2> QED
    BY <2>1 DEF FreshIsBehind, StepsRecordedOnce
<1> QED
  BY <1>1, <1>2, <1>3, <1>4, <1>5, <1>6 DEF Next, PassStep, Disturbance, Records

\* However often a trial is interrupted, killed and resumed, its journal holds
\* each step once.
THEOREM RecordedOnce == Spec => []StepsRecordedOnce
<1> DEFINE Inv == JournalTyped /\ AskedIsOpen /\ FreshIsBehind /\ StepsRecordedOnce
<1>1. Init => Inv
  BY InitFacts
<1>2. Inv /\ [Next]_vars => Inv'
  BY StepTyped, StepAsked, StepFresh
<1>3. Inv => StepsRecordedOnce
  OBVIOUS
<1> QED
  BY <1>1, <1>2, <1>3, PTL DEF Spec

-----------------------------------------------------------------------------
(***************************************************************************)
(* In its condition                                                        *)
(***************************************************************************)

\* Only a switch moves the fleet, and one that succeeds says so.
LEMMA StepBelief == JournalTyped /\ BeliefHolds /\ [Next]_vars => BeliefHolds'
<1> SUFFICES ASSUME JournalTyped, BeliefHolds, [Next]_vars PROVE BeliefHolds'
  OBVIOUS
<1>0. card.hooked \subseteq Conditions /\ Nothing \notin Conditions
  BY TrialAssumption DEF JournalTyped
<1>1. CASE Ask
  <2>1. current' = Step.condition /\ UNCHANGED <<card, plan, k, fleet, refused>>
    BY <1>1 DEF Ask, Believed, setup
  <2>2. Step.condition \in card.hooked => current = Step.condition
    BY <1>1 DEF Ask, NeedsSwitch
  <2> QED
    BY <1>1, <2>1, <2>2 DEF Ask, BeliefHolds, Step
<1>2. CASE Switch
  BY <1>2 DEF Switch, Believed, setup, BeliefHolds, Step
<1>3. CASE SwitchFails
  BY <1>3 DEF SwitchFails, Paid, InPlan, BeliefHolds
<1>4. CASE Reuse \/ Unreadable \/ Answer \/ Fail \/ Skip \/ Drop \/ Identify \/ Preregister
  <2>1. UNCHANGED <<card, fleet, current, refused>> /\ phase' \in {"planning", "running"}
    BY <1>4 DEF Reuse, Unreadable, Answer, Fail, Skip, Drop, Identify, Preregister, InPlan, setup
  <2> QED
    BY <2>1 DEF BeliefHolds
<1>5. CASE Claim
  <2>1. UNCHANGED <<card, fleet, current, refused>> /\ phase' \in {"identifying", "planning"}
    BY <1>5 DEF Claim, setup
  <2> QED
    BY <2>1 DEF BeliefHolds
<1>6. CASE Return \/ Finish \/ Crash
  BY <1>0, <1>6 DEF Return, Finish, Crash, EndPass, setup, BeliefHolds
<1>7. CASE Deadline \/ Interrupt \/ Edit \/ UNCHANGED vars
  <2>1. UNCHANGED <<card, plan, k, fleet, current, refused, phase>>
    BY <1>7 DEF Deadline, Interrupt, Edit, vars, setup, pass
  <2> QED
    BY <2>1 DEF BeliefHolds, Step
<1> QED
  BY <1>1, <1>2, <1>3, <1>4, <1>5, <1>6, <1>7 DEF Next, PassStep, Disturbance

\* Unless a switch failed in the pass, the harness is asked while the fleet is
\* in the condition of the step.
THEOREM AskedRight == Spec => []AskedInItsCondition
<1> DEFINE Inv == JournalTyped /\ AskedIsOpen /\ BeliefHolds
<1>1. Init => Inv
  BY InitFacts
<1>2. Inv /\ [Next]_vars => Inv'
  BY StepTyped, StepAsked, StepBelief
<1>3. Inv => AskedInItsCondition
  BY DEF BeliefHolds, AskedInItsCondition
<1> QED
  BY <1>1, <1>2, <1>3, PTL DEF Spec

-----------------------------------------------------------------------------
(***************************************************************************)
(* Reuse                                                                   *)
(***************************************************************************)

\* An item with a conversation of this pass's own was measured in this pass,
\* and the base's key is known only where the builds are one.
KnownIsMeasured ==
  /\ \A item \in known : \E c \in Conditions : Fresh(item, c)
  /\ resolved => card.sameBuild
  /\ phase = "idle" => known = {}

\* Rows are only added behind the ones a pass has.
LEMMA FreshStays ==
  ASSUME JournalTyped, AskedIsOpen, Records, NEW item, NEW c, Fresh(item, c)
  PROVE  Fresh(item, c)'
<1>0. Len(journal) \in Nat /\ done \in Nat
  BY DEF JournalTyped
<1>1. PICK n \in (done + 1)..Len(journal) :
        /\ journal[n].step = [item |-> item, condition |-> c]
        /\ journal[n].source = "measured" /\ journal[n].answer # "none"
  BY DEF Fresh
<1>2. n \in 1..Len(journal) /\ n \in (done + 1)..(Len(journal) + 1)
  BY <1>0, <1>1
<1>3. journal'[n] = journal[n] /\ Len(journal') = Len(journal) + 1 /\ done' = done
  BY <1>2, RecordsRow, RecordsStep
<1> QED
  BY <1>1, <1>2, <1>3 DEF Fresh

\* An answer is a fresh record of the step that was asked.
LEMMA AnswerIsFresh ==
  ASSUME JournalTyped, AskedIsOpen, Answer,
         NEW item, item = Step.item, NEW c, c = Step.condition
  PROVE  c \in Conditions /\ Fresh(item, c)'
<1>0. journal \in Seq(Rows) /\ Len(journal) \in Nat /\ done \in 0..Len(journal)
  BY DEF JournalTyped
<1>1. k \in DOMAIN plan
  BY DEF Answer, AskedIsOpen
<1>2. Step \in [item : STRING, condition : Conditions]
  BY <1>1, PlanFacts DEF Step, Steps
<1>3. PICK answer \in {"answered", "invalid_output"} : Record("measured", answer)
  BY DEF Answer
<1> DEFINE row == [step |-> Step, source |-> "measured", answer |-> answer, under |-> inputs]
<1>4. journal' = Append(journal, row)
  BY <1>3 DEF Record
<1>5. row.step = [item |-> item, condition |-> c]
      /\ row.source = "measured" /\ row.answer # "none"
  BY <1>2
<1>6. Len(journal') = Len(journal) + 1 /\ done' = done
  BY RecordsRow, RecordsStep DEF Records
<1>7. journal'[Len(journal) + 1] = row
  BY <1>0, <1>4
<1>8. Len(journal) + 1 \in (done' + 1)..Len(journal')
  BY <1>0, <1>6
<1> HIDE DEF row
<1>9. Fresh(item, c)'
  BY <1>5, <1>7, <1>8 DEF Fresh
<1> QED
  BY <1>2, <1>9

\* What a pass knows it has measured, in this pass.
LEMMA StepKnown ==
  JournalTyped /\ AskedIsOpen /\ KnownIsMeasured /\ [Next]_vars => KnownIsMeasured'
<1> SUFFICES ASSUME JournalTyped, AskedIsOpen, KnownIsMeasured, [Next]_vars
             PROVE  KnownIsMeasured'
  OBVIOUS
<1>1. CASE Answer
  <2>1. \A item \in known, c \in Conditions : Fresh(item, c) => Fresh(item, c)'
    BY <1>1, FreshStays DEF Records
  <2>2. \A item, c : item = Step.item /\ c = Step.condition
                       => c \in Conditions /\ Fresh(item, c)'
    BY <1>1, AnswerIsFresh
  <2>3. known' \subseteq known \cup {Step.item}
    BY <1>1 DEF Answer
  <2>4. \A item \in known' : \E c \in Conditions : Fresh(item, c)'
    BY <2>1, <2>2, <2>3 DEF KnownIsMeasured
  <2>5. phase' = "running" /\ card' = card /\ (resolved' => resolved \/ card.sameBuild)
    BY <1>1 DEF Answer, setup
  <2> QED
    BY <2>4, <2>5 DEF KnownIsMeasured
<1>2. CASE Reuse \/ Unreadable \/ SwitchFails \/ Fail
  <2>1. \A item \in known, c \in Conditions : Fresh(item, c) => Fresh(item, c)'
    BY <1>2, FreshStays DEF Records
  <2>2. UNCHANGED <<known, resolved, card>> /\ phase' = "running"
    BY <1>2, RecordsStep DEF Records, Reuse, Unreadable, SwitchFails, Fail, setup
  <2> QED
    BY <2>1, <2>2 DEF KnownIsMeasured
<1>3. CASE Claim
  BY <1>3 DEF Claim, setup, KnownIsMeasured
<1>4. CASE Identify \/ Preregister \/ Skip \/ Drop \/ Ask \/ Switch
  <2>1. UNCHANGED <<known, resolved, card, journal, done>> /\ phase' # "idle"
    BY <1>4 DEF Identify, Preregister, Skip, Drop, Ask, Switch, InPlan, setup, disk
  <2> QED
    BY <2>1 DEF KnownIsMeasured, Fresh
<1>5. CASE Return \/ Finish \/ Crash
  BY <1>5 DEF Return, Finish, Crash, EndPass, KnownIsMeasured
<1>6. CASE Deadline \/ Interrupt \/ Edit \/ UNCHANGED vars
  <2>1. UNCHANGED <<known, resolved, card, journal, done, phase>>
    BY <1>6 DEF Deadline, Interrupt, Edit, vars, setup, disk, pass
  <2> QED
    BY <2>1 DEF KnownIsMeasured, Fresh
<1> QED
  BY <1>1, <1>2, <1>3, <1>4, <1>5, <1>6 DEF Next, PassStep, Disturbance

\* A step that reads a saved run finds its item measured under the candidate:
\* under the base it would have been this very step.
LEMMA ReuseIsFounded ==
  ASSUME JournalTyped, FreshIsBehind, KnownIsMeasured, Reuse
  PROVE  card.sameBuild /\ Fresh(Step.item, "candidate")
<1>0. k \in Nat \ {0} /\ done \in Nat /\ Len(journal) \in Nat
  BY DEF JournalTyped
<1>1. /\ phase = "running" /\ k \in DOMAIN plan
      /\ Step.condition = "base" /\ resolved /\ Step.item \in known
  BY PlanFacts DEF Reuse, Reusable, InPlan, JournalTyped
<1>2. PICK c \in Conditions : Fresh(Step.item, c)
  BY <1>1 DEF KnownIsMeasured
<1>3. c # "base"
  <2> SUFFICES ASSUME c = "base" PROVE FALSE
    OBVIOUS
  <2>1. PICK n \in (done + 1)..Len(journal) : journal[n].step = [item |-> Step.item, condition |-> c]
    BY <1>2 DEF Fresh
  <2>2. PICK m \in 1..(k - 1) : m \in DOMAIN plan /\ journal[n].step = plan[m]
    BY <1>1, <2>1 DEF FreshIsBehind
  <2>3. plan[k] \in [item : STRING, condition : Conditions]
    BY <1>1, PlanFacts DEF Steps
  <2>4. plan[k] = [item |-> Step.item, condition |-> "base"]
    BY <1>1, <2>3 DEF Step
  <2>5. plan[m] = plan[k] /\ m # k
    BY <1>0, <2>1, <2>2, <2>4
  <2>6. \A i, j \in DOMAIN plan : plan[i] = plan[j] => i = j
    BY PlanFacts
  <2> QED
    BY <1>1, <2>2, <2>5, <2>6
<1>4. c = "candidate"
  BY <1>3 DEF Conditions
<1> QED
  BY <1>1, <1>2, <1>4 DEF KnownIsMeasured

\* A reused record is the one its own step appends.
LEMMA ReusedRow ==
  ASSUME JournalTyped, AskedIsOpen, FreshIsBehind, KnownIsMeasured, [Next]_vars,
         NEW n \in DOMAIN journal' \ DOMAIN journal, journal'[n].source = "reused"
  PROVE  card.sameBuild /\ Fresh(journal'[n].step.item, "candidate")
<1>0. journal \in Seq(Rows) /\ Len(journal) \in Nat
  BY DEF JournalTyped
<1>1. CASE Reuse
  <2>1. journal' = Append(journal, [step |-> Step, source |-> "reused",
                                    answer |-> "answered", under |-> inputs])
    BY <1>1 DEF Reuse, Record
  <2>2. n = Len(journal) + 1
    BY <1>0, <2>1
  <2>3. journal'[n].step = Step
    BY <1>0, <2>1, <2>2
  <2> QED
    BY <1>1, <2>3, ReuseIsFounded
<1>2. ASSUME NEW answer, Record("measured", answer) PROVE FALSE
  <2>1. journal' = Append(journal, [step |-> Step, source |-> "measured",
                                    answer |-> answer, under |-> inputs])
    BY <1>2 DEF Record
  <2>2. n = Len(journal) + 1
    BY <1>0, <2>1
  <2>3. journal'[n].source = "measured"
    BY <1>0, <2>1, <2>2
  <2> QED
    BY <2>3
<1>3. CASE Unreadable \/ SwitchFails \/ Answer \/ Fail
  BY <1>2, <1>3 DEF Unreadable, SwitchFails, Answer, Fail
<1>4. CASE journal' = journal
  BY <1>4
<1> QED
  BY <1>1, <1>3, <1>4
     DEF Next, PassStep, Disturbance, Claim, Identify, Preregister, Skip, Drop, Ask, Switch,
         Return, Finish, Deadline, Interrupt, Crash, Edit, vars, disk

\* A saved run answers for the base only once the same pass has measured that
\* item under the candidate, with the base's own harness build.
THEOREM ReuseFounded == Spec => ReuseFollowsAMeasurement
<1> DEFINE Inv == JournalTyped /\ AskedIsOpen /\ FreshIsBehind /\ StepsRecordedOnce /\ KnownIsMeasured
           Founded == \A n \in DOMAIN journal' \ DOMAIN journal :
                        journal'[n].source = "reused" =>
                          /\ card.sameBuild
                          /\ Fresh(journal'[n].step.item, "candidate")
<1>1. Init => Inv
  <2>1. Init => KnownIsMeasured
    BY DEF Init, NoPass, KnownIsMeasured
  <2> QED
    BY <2>1, InitFacts
<1>2. Inv /\ [Next]_vars => Inv'
  BY StepTyped, StepAsked, StepFresh, StepKnown
<1>3. Inv /\ [Next]_vars => Founded
  BY ReusedRow
<1>4. Spec => [][Founded]_vars
  BY <1>1, <1>2, <1>3, PTL DEF Spec
<1> QED
  BY <1>4 DEF ReuseFollowsAMeasurement

-----------------------------------------------------------------------------
(***************************************************************************)
(* What a pass leaves unrecorded                                           *)
(***************************************************************************)
\* A base step a saved run could stand for now.
Readable(step) == step.condition = "base" /\ resolved /\ step.item \in card.saved \cap known

\* A pass leaves a step behind it unrecorded only where the clock dropped it;
\* from then on it asks for nothing, so no saved run becomes readable for it.
PassedHolds ==
  /\ phase \in {"idle", "identifying", "planning"} => k = 1
  /\ \A m \in 1..(k - 1) : m \in DOMAIN plan =>
       \/ Recorded(plan[m], journal)
       \/ dropped /\ late /\ phase = "running" /\ ~ Readable(plan[m])

\* Records stay, and the step at hand becomes one.
LEMMA RecordedStays ==
  ASSUME JournalTyped, AskedIsOpen, Records
  PROVE  /\ \A step : Recorded(step, journal) => Recorded(step, journal')
         /\ Recorded(plan[k], journal')
<1>1. /\ journal \in Seq(Rows) /\ Len(journal) \in Nat /\ DOMAIN journal = 1..Len(journal)
  BY DEF JournalTyped
<1>2. /\ DOMAIN journal' = 1..(Len(journal) + 1)
      /\ \A n \in 1..Len(journal) : journal'[n] = journal[n]
      /\ journal'[Len(journal) + 1].step = plan[k]
  BY RecordsRow
<1>3. \A n \in 1..Len(journal) : n \in DOMAIN journal'
  BY <1>1, <1>2
<1>4. Len(journal) + 1 \in DOMAIN journal'
  BY <1>1, <1>2
<1> QED
  BY <1>1, <1>2, <1>3, <1>4 DEF Recorded

\* Every step of the trial keeps what is said of the steps behind the pass.
LEMMA StepPassed ==
  JournalTyped /\ AskedIsOpen /\ PassedHolds /\ [Next]_vars => PassedHolds'
<1> SUFFICES ASSUME JournalTyped, AskedIsOpen, PassedHolds, [Next]_vars PROVE PassedHolds'
  OBVIOUS
<1>0. k \in Nat \ {0} /\ done \in 0..Len(journal) /\ Len(journal) \in Nat /\ DOMAIN journal = 1..Len(journal)
  BY DEF JournalTyped
<1>1. CASE Records
  <2>1. /\ phase' = "running" /\ k' = k + 1 /\ plan' = plan /\ card' = card
        /\ \A step : Recorded(step, journal) => Recorded(step, journal')
        /\ Recorded(plan[k], journal')
    BY <1>1, RecordsStep, RecordedStays
  <2>2. late /\ phase = "running" => UNCHANGED <<late, dropped, known, resolved>>
    BY <1>1 DEF Records, Reuse, Unreadable, SwitchFails, Paid, Answer, Fail
  <2>3. ASSUME NEW m \in 1..k, m \in DOMAIN plan
        PROVE  \/ Recorded(plan[m], journal')
               \/ dropped' /\ late' /\ phase' = "running" /\ ~ Readable(plan[m])'
    <3>1. CASE m = k
      BY <2>1, <3>1
    <3>2. CASE m # k
      <4>1. m \in 1..(k - 1)
        BY <1>0, <3>2
      <4>2. CASE Recorded(plan[m], journal)
        BY <2>1, <4>2
      <4>3. CASE dropped /\ late /\ phase = "running" /\ ~ Readable(plan[m])
        BY <2>1, <2>2, <4>3 DEF Readable
      <4> QED
        BY <2>3, <4>1, <4>2, <4>3 DEF PassedHolds
    <3> QED
      BY <3>1, <3>2
  <2>4. k' - 1 = k
    BY <1>0, <2>1
  <2> QED
    BY <2>1, <2>3, <2>4 DEF PassedHolds
<1>2. CASE Skip \/ Drop
  <2>1. /\ phase = "running" /\ k \in DOMAIN plan
        /\ UNCHANGED <<card, plan, journal, phase, known, resolved, late>> /\ k' = k + 1
    BY <1>2, PlanFacts DEF Skip, Drop, InPlan, setup, disk, JournalTyped
  <2>2. dropped => dropped'
    BY <1>2 DEF Skip, Drop
  <2>3. Recorded(plan[k], journal) \/ (dropped' /\ late /\ ~ Readable(plan[k]))
    <3>1. CASE Skip
      BY <1>0, <3>1 DEF Skip, Completed, Recorded, Step
    <3>2. CASE Drop
      BY <3>2 DEF Drop, Reusable, Readable, Step
    <3> QED
      BY <1>2, <3>1, <3>2
  <2>4. \A m \in 1..k : m = k \/ m \in 1..(k - 1)
    BY <1>0
  <2>5. k' - 1 = k
    BY <1>0, <2>1
  <2>6. \A step : Readable(step)' <=> Readable(step)
    BY <2>1 DEF Readable
  <2>7. ASSUME NEW m \in 1..k, m \in DOMAIN plan
        PROVE  Recorded(plan[m], journal) \/ (dropped' /\ late /\ ~ Readable(plan[m]))
    BY <2>2, <2>3, <2>4, <2>7 DEF PassedHolds
  <2> QED
    BY <2>1, <2>5, <2>6, <2>7 DEF PassedHolds
<1>3. CASE Ask \/ Switch
  BY <1>3 DEF Ask, Switch, Paid, InPlan, setup, disk, PassedHolds
<1>4. CASE Claim \/ Identify \/ Preregister
  <2>1. k = 1 /\ k' = k
    BY <1>4 DEF Claim, Identify, Preregister, PassedHolds
  <2> QED
    BY <2>1 DEF PassedHolds
<1>5. CASE Return \/ Finish \/ Crash
  BY <1>5 DEF Return, Finish, Crash, EndPass, PassedHolds
<1>6. CASE Deadline \/ Interrupt \/ Edit \/ UNCHANGED vars
  <2>1. UNCHANGED <<card, plan, journal, phase, k, known, resolved, dropped>> /\ (late => late')
    BY <1>6 DEF Deadline, Interrupt, Edit, vars, setup, disk, pass
  <2> QED
    BY <2>1 DEF PassedHolds, Readable
<1> QED
  BY <1>1, <1>2, <1>3, <1>4, <1>5, <1>6 DEF Next, PassStep, Disturbance, Records

\* A pass that ends has passed its whole plan.
LEMMA FinishPassed ==
  ASSUME JournalTyped, PassedHolds, Finish, NEW m \in DOMAIN plan
  PROVE  Recorded(plan[m], journal) \/ (dropped /\ ~ Readable(plan[m]))
<1>1. DOMAIN plan = 1..Len(plan) /\ Len(plan) \in Nat /\ k \in Nat /\ k > Len(plan)
  BY PlanFacts DEF Finish, JournalTyped
<1>2. m \in 1..(k - 1)
  BY <1>1
<1> QED
  BY <1>2 DEF PassedHolds

\* A report without a drop is of a whole journal, and `completed` is said only
\* of a set measured whole.
THEOREM ReportWhole == Spec => ReportSaysWhatIsMissing
<1> DEFINE Inv == JournalTyped /\ AskedIsOpen /\ PassedHolds
           Says == Finish =>
             /\ ~dropped => \A n \in DOMAIN plan : Recorded(plan[n], journal)
             /\ report'.stop = "completed" =>
                  \A n \in DOMAIN plan : Answered(plan[n].item, plan[n].condition, journal)
<1>1. Init => Inv
  <2>1. Init => PassedHolds
    BY DEF Init, NoPass, PassedHolds
  <2> QED
    BY <2>1, InitFacts
<1>2. Inv /\ [Next]_vars => Inv'
  BY StepTyped, StepAsked, StepPassed
<1>3. Inv => Says
  <2> SUFFICES ASSUME Inv, Finish PROVE Says
    OBVIOUS
  <2>1. ~dropped => \A n \in DOMAIN plan : Recorded(plan[n], journal)
    BY FinishPassed
  <2>2. ASSUME report'.stop = "completed", NEW n \in DOMAIN plan
        PROVE  Answered(plan[n].item, plan[n].condition, journal)
    <3>1. StopReason(journal) = "completed"
      BY <2>2 DEF Finish
    <3>2. Complete(journal) = Range(PlanItems)
      BY <3>1 DEF StopReason
    <3>3. plan[n].item \in Range(PlanItems) /\ plan[n].condition \in Conditions
      BY PlanFacts, StepFields DEF Range
    <3> QED
      BY <3>2, <3>3 DEF Complete
  <2> QED
    BY <2>1, <2>2
<1>4. Spec => [][Says]_vars
  BY <1>1, <1>2, <1>3, PTL DEF Spec
<1> QED
  BY <1>4 DEF ReportSaysWhatIsMissing

\* Every base step a pass could have read from a saved run is recorded when it
\* ends, the clock notwithstanding.
THEOREM ItemsStayPaired == Spec => ReusedItemsStayPaired
<1> DEFINE Inv == JournalTyped /\ AskedIsOpen /\ PassedHolds /\ FreshIsBehind /\ StepsRecordedOnce
                  /\ KnownIsMeasured
           Paired == Finish => \A item \in card.saved \cap known :
             resolved => Recorded([item |-> item, condition |-> "base"], journal)
<1>1. Init => Inv
  <2>1. Init => PassedHolds /\ KnownIsMeasured
    BY DEF Init, NoPass, PassedHolds, KnownIsMeasured
  <2> QED
    BY <2>1, InitFacts
<1>2. Inv /\ [Next]_vars => Inv'
  BY StepTyped, StepAsked, StepPassed, StepFresh, StepKnown
<1>3. Inv => Paired
  <2> SUFFICES ASSUME Inv, Finish, NEW item \in card.saved \cap known, resolved
               PROVE  Recorded([item |-> item, condition |-> "base"], journal)
    OBVIOUS
  <2> DEFINE step == [item |-> item, condition |-> "base"]
  <2>1. PICK c \in Conditions : Fresh(item, c)
    BY DEF KnownIsMeasured
  <2>2. PICK n \in (done + 1)..Len(journal) : journal[n].step = [item |-> item, condition |-> c]
    BY <2>1 DEF Fresh
  <2>3. PICK m \in 1..(k - 1) : m \in DOMAIN plan /\ journal[n].step = plan[m]
    BY <2>2 DEF FreshIsBehind, Finish
  <2>4. plan[m] \in Range(plan) /\ plan[m].item = item
    BY <2>2, <2>3 DEF Range
  <2>5. step \in Steps /\ step.item \in Range(PlanItems)
    BY <2>4, PlanFacts DEF Steps, Conditions
  <2>6. PICK b \in DOMAIN plan : plan[b] = step
    BY <2>5, PlanFacts DEF Range
  <2>7. Readable(plan[b])
    BY <2>6 DEF Readable
  <2> QED
    BY <2>6, <2>7, FinishPassed
<1>4. Spec => [][Paired]_vars
  BY <1>1, <1>2, <1>3, PTL DEF Spec
<1> QED
  BY <1>4 DEF ReusedItemsStayPaired

-----------------------------------------------------------------------------
(***************************************************************************)
(* The spread of the known failures                                        *)
(***************************************************************************)
\* From one mark to the next it is d divided by r + 1, or one item more.
LEMMA GapIs ==
  ASSUME NEW d \in Nat, NEW m \in Nat \ {0}, NEW i \in Nat
  PROVE  (2 * (i + 1) * d + m) \div (2 * m) - (2 * i * d + m) \div (2 * m)
           \in {d \div m, d \div m + 1}
<1> DEFINE A == (2 * i * d + m) \div (2 * m)
           B == (2 * (i + 1) * d + m) \div (2 * m)
           q == d \div m
           z == i * d
<1>1. z \in Nat /\ 2 * i * d = 2 * z /\ 2 * (i + 1) * d = 2 * z + 2 * d
  OBVIOUS
<1>2. A \in Nat /\ 2 * (m * A) <= 2 * z + m /\ 2 * z + m < 2 * (m * A) + 2 * m
  <2>1. 2 * z + m \in Nat /\ 2 * m \in Nat \ {0}
    BY <1>1
  <2>2. A = (2 * z + m) \div (2 * m)
    BY <1>1
  <2> HIDE DEF A, z
  <2>3. A \in Nat /\ (2 * m) * A <= 2 * z + m /\ 2 * z + m < (2 * m) * A + 2 * m
    BY <2>1, <2>2, QuotientIs
  <2> QED
    BY <2>3
<1>3. B \in Nat /\ 2 * (m * B) <= 2 * z + 2 * d + m /\ 2 * z + 2 * d + m < 2 * (m * B) + 2 * m
  <2>1. 2 * z + 2 * d + m \in Nat /\ 2 * m \in Nat \ {0}
    BY <1>1
  <2>2. B = (2 * z + 2 * d + m) \div (2 * m)
    BY <1>1
  <2> HIDE DEF B, z
  <2>3. /\ B \in Nat /\ (2 * m) * B <= 2 * z + 2 * d + m
        /\ 2 * z + 2 * d + m < (2 * m) * B + 2 * m
    BY <2>1, <2>2, QuotientIs
  <2> QED
    BY <2>3
<1>4. q \in Nat /\ m * q <= d /\ d < m * q + m
  BY QuotientIs
<1> HIDE DEF A, B, q, z
<1>5. /\ m * (B - A - q) = m * B - m * A - m * q
      /\ m * A \in Nat /\ m * B \in Nat /\ m * q \in Nat /\ m * 2 = 2 * m /\ m * (-1) = -m
      /\ B - A - q \in Int
  BY <1>2, <1>3, <1>4
<1>6. m * (B - A - q) < m * 2 /\ m * (-1) < m * (B - A - q)
  <2> DEFINE a == m * A
             b == m * B
             c == m * q
  <2>1. /\ a \in Nat /\ b \in Nat /\ c \in Nat /\ m * (B - A - q) = b - a - c
        /\ 2 * a <= 2 * z + m /\ 2 * z + m < 2 * a + 2 * m
        /\ 2 * b <= 2 * z + 2 * d + m /\ 2 * z + 2 * d + m < 2 * b + 2 * m
        /\ c <= d /\ d < c + m
    BY <1>2, <1>3, <1>4, <1>5
  <2> HIDE DEF a, b, c
  <2>2. b - a - c < 2 * m /\ -m < b - a - c
    BY <1>1, <2>1
  <2> QED
    BY <1>5, <2>1, <2>2
<1>7. B - A - q < 2 /\ -1 < B - A - q
  <2>1. B - A - q < 2
    BY <1>5, <1>6, FactorBelow
  <2>2. -1 < B - A - q
    BY <1>5, <1>6, FactorBelow
  <2> QED
    BY <2>1, <2>2
<1>8. B - A \in {q, q + 1}
  BY <1>2, <1>3, <1>4, <1>7
<1> QED
  BY <1>8 DEF A, B, q

\* However many items D has and however many failures are known, the failures
\* leave stretches of D between them that differ by one item at most (trial.go,
\* interleave).
THEOREM SpreadEvenly == \A d, r \in Nat \ {0} : Spread(d, r)
<1> SUFFICES ASSUME NEW d \in Nat \ {0}, NEW r \in Nat \ {0} PROVE Spread(d, r)
  OBVIOUS
<1> DEFINE m == r + 1
           at(i) == (2 * i * d + m) \div (2 * m)
           mark(i) == IF i = 0 THEN 0 ELSE IF i > r THEN d ELSE Position(i, d, r)
           gap(i) == mark(i + 1) - mark(i)
           q == d \div m
<1>1. m \in Nat \ {0} /\ d \in Nat
  OBVIOUS
<1>2. \A i \in 0..m : mark(i) = at(i)
  <2> SUFFICES ASSUME NEW i \in 0..m PROVE mark(i) = at(i)
    OBVIOUS
  <2>1. CASE i = 0
    BY <1>1, <2>1
  <2>2. CASE i = m
    <3>1. 2 * i * d + m = (2 * m) * d + m
      BY <2>2
    <3>2. at(i) = ((2 * m) * d + m) \div (2 * m)
      BY <3>1
    <3>3. (2 * m) * d + m \in Nat /\ 2 * m \in Nat \ {0}
      OBVIOUS
    <3> HIDE DEF at, m
    <3>4. /\ at(i) \in Nat /\ (2 * m) * at(i) <= (2 * m) * d + m
          /\ (2 * m) * d + m < (2 * m) * at(i) + 2 * m
      BY <3>2, <3>3, QuotientIs
    <3>5. /\ (2 * m) * (at(i) - d) = (2 * m) * at(i) - (2 * m) * d
          /\ (2 * m) * at(i) \in Nat /\ (2 * m) * d \in Nat /\ (2 * m) * 1 = 2 * m
          /\ (2 * m) * (-1) = -(2 * m)
      BY <1>1, <3>4
    <3>6. (2 * m) * (at(i) - d) < (2 * m) * 1 /\ (2 * m) * (-1) < (2 * m) * (at(i) - d)
      BY <1>1, <3>4, <3>5
    <3>7. at(i) - d < 1 /\ -1 < at(i) - d
      <4>1. at(i) - d \in Int
        BY <3>4
      <4>2. at(i) - d < 1
        BY <3>3, <3>6, <4>1, FactorBelow
      <4>3. -1 < at(i) - d
        BY <3>3, <3>6, <4>1, FactorBelow
      <4> QED
        BY <4>2, <4>3
    <3>8. at(i) = d
      BY <3>4, <3>7
    <3> QED
      BY <2>2, <3>8 DEF m
  <2>3. CASE i # 0 /\ i # m
    <3>1. mark(i) = Position(i, d, r)
      BY <2>3
    <3> QED
      BY <3>1 DEF Position
  <2> QED
    BY <2>1, <2>2, <2>3
<1>3. \A i \in 0..r : gap(i) \in {q, q + 1}
  <2> SUFFICES ASSUME NEW i \in 0..r PROVE gap(i) \in {q, q + 1}
    OBVIOUS
  <2>1. i \in Nat /\ i \in 0..m /\ i + 1 \in 0..m
    OBVIOUS
  <2>2. gap(i) = at(i + 1) - at(i)
    BY <1>2, <2>1
  <2> HIDE DEF m, gap
  <2>3. at(i + 1) - at(i) \in {q, q + 1}
    BY <1>1, <2>1, GapIs
  <2> QED
    BY <2>2, <2>3
<1>4. q \in Nat
  <2> HIDE DEF m
  <2> QED
    BY <1>1, QuotientIs
<1> HIDE DEF m, q
<1>5. ASSUME NEW i \in 0..r, NEW j \in 0..r PROVE gap(i) \in 0..(gap(j) + 1)
  <2> HIDE DEF gap
  <2> QED
    BY <1>3, <1>4
<1> QED
  BY <1>5 DEF Spread

\* The known failures of a plan are spread through its own set D: one is
\* reached after as many D items as its mark says (trial.go, interleave).
THEOREM FailuresSpread == Spec => []FailuresAreSpread
<1> DEFINE Inv == JournalTyped /\ AskedIsOpen
<1>1. Init => Inv
  BY InitFacts
<1>2. Inv /\ [Next]_vars => Inv'
  BY StepTyped, StepAsked
<1>3. Inv => FailuresAreSpread
  <2> SUFFICES ASSUME Inv PROVE FailuresAreSpread
    OBVIOUS
  <2>1. card.block \in Nat /\ plan = PlanOf(card) /\ Longest \in Nat
    BY TrialAssumption DEF JournalTyped
  <2>2. \A d \in 1..Longest, r \in 1..Longest : Spread(d, r)
    BY <2>1, SpreadEvenly
  <2>3. \A i \in DOMAIN Known :
          Cardinality({n \in DOMAIN Dev : FirstOf(plan, Dev[n]) < FirstOf(plan, Known[i])}) = Mark(i)
    BY <2>1, ReachedAtItsMark
  <2> QED
    BY <2>2, <2>3 DEF FailuresAreSpread, FirstOf, Mark
<1> QED
  BY <1>1, <1>2, <1>3, PTL DEF Spec
=============================================================================
