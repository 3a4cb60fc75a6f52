-------------------------- MODULE AssessmentProofs --------------------------
(***************************************************************************)
(* Theorems about Assessment, for every set of cards, items and requests,  *)
(* any number of passes and any number of edits.                           *)
(***************************************************************************)
EXTENDS Assessment, FiniteSetTheorems, TLAPS

\* The claim under a key is whole and this assessment's.
Held(use, key) == registry[key] \in Claim /\ registry[key].use = use

\* What a pass is past, its assessment holds.
PassesHold ==
  \A p \in DOMAIN pass : pass[p].stage # "ended" =>
    /\ pass[p].n <= Claims(pass[p].use.card) + 1
    /\ \A m \in 1..(pass[p].n - 1) : Held(pass[p].use, KeyAt(pass[p].use.card, m))

\* A file that is being written is empty, and one pass writes it.
WritersOwn ==
  \A p \in DOMAIN pass : Stage(p, "writing") =>
    /\ pass[p].n <= Claims(pass[p].use.card)
    /\ registry[Target(p)] = Torn
    /\ \A q \in DOMAIN pass : Stage(q, "writing") /\ Target(q) = Target(p) => q = p

\* An assessment that was opened holds every key of its items.
OpenedHold ==
  \A use \in opened : \A key \in KeysOf[use] : Held(use, key)

IInv == TypeOK /\ PassesHold /\ WritersOwn /\ OpenedHold

-----------------------------------------------------------------------------
(***************************************************************************)
(* Facts about keys and claims                                             *)
(***************************************************************************)

\* The n-th claim of a card is a key of one of its items.
LEMMA KeyFacts ==
  ASSUME NEW name \in Names, NEW n \in 1..Claims(name)
  PROVE  /\ ItemAt(name, n) \in ItemsOf(name)
         /\ ItemAt(name, n) \in DOMAIN Sources
         /\ KeyAt(name, n) \in AllKeys
<1> DEFINE items == Cards[name].items
<1>1. items \in Seq(DOMAIN Sources)
  BY AssessmentAssumption DEF Names
<1>2. Len(items) \in Nat /\ n \in Nat /\ 1 <= n /\ n <= 3 * Len(items)
  BY <1>1 DEF Claims
<1> HIDE DEF items
<1>3. ((n - 1) \div 3) + 1 \in 1..Len(items)
  BY <1>2
<1>4. ((n - 1) % 3) + 1 \in 1..3
  BY <1>2
<1>5. items[((n - 1) \div 3) + 1] \in DOMAIN Sources /\ items[((n - 1) \div 3) + 1] \in Range(items)
  BY <1>1, <1>3 DEF Range
<1>6. KindAt(n) \in Range(KeyKinds)
  BY <1>4 DEF KindAt, KeyKinds, Range
<1> QED
  BY <1>5, <1>6 DEF items, ItemAt, ItemsOf, KeyAt, AllKeys

\* Every key of an item of a card is among the card's claims.
LEMMA ItemKeys ==
  ASSUME NEW use \in Uses, NEW item \in ItemsOf(use.card), NEW kind \in Range(KeyKinds)
  PROVE  Key(item, kind) \in KeysOf[use]
<1> DEFINE items == Cards[use.card].items
<1>1. use.card \in Names
  BY DEF Uses
<1>2. items \in Seq(DOMAIN Sources)
  BY <1>1, AssessmentAssumption DEF Names
<1>3. PICK i \in 1..Len(items) : items[i] = item
  BY <1>2 DEF ItemsOf, Range
<1>4. PICK j \in 1..3 : KeyKinds[j] = kind
  BY DEF KeyKinds, Range
<1> DEFINE m == 3 * (i - 1) + j
<1>5. Len(items) \in Nat
  BY <1>2
<1> HIDE DEF items
<1>6. m \in 1..(3 * Len(items)) /\ ((m - 1) \div 3) + 1 = i /\ ((m - 1) % 3) + 1 = j
  BY <1>3, <1>4, <1>5
<1> HIDE DEF m
<1>7. KeyAt(use.card, m) = Key(item, kind)
  BY <1>3, <1>4, <1>6 DEF KeyAt, ItemAt, KindAt, items
<1> QED
  BY <1>6, <1>7 DEF KeysOf, Claims, items

\* A whole claim is neither a missing file nor an empty one.
LEMMA ClaimIsWhole ==
  ASSUME NEW use, NEW key, Held(use, key)
  PROVE  registry[key] # Free /\ registry[key] # Torn
BY RegistryAssumption DEF Held

\* Related items have a key in common.
LEMMA RelatedShareKey ==
  ASSUME NEW a \in DOMAIN Sources, NEW b \in DOMAIN Sources, Related(a, b)
  PROVE  \E kind \in Range(KeyKinds) : Key(a, kind) = Key(b, kind)
<1> "conversation" \in Range(KeyKinds) /\ "source" \in Range(KeyKinds)
      /\ "source_cluster" \in Range(KeyKinds)
  <2> DOMAIN KeyKinds = 1..3
    BY DEF KeyKinds
  <2> KeyKinds[1] = "conversation" /\ KeyKinds[2] = "source" /\ KeyKinds[3] = "source_cluster"
    BY DEF KeyKinds
  <2> QED
    BY DEF Range
<1>1. CASE Sources[a].conversation = Sources[b].conversation
  BY <1>1 DEF Key
<1>2. CASE Sources[a].source = Sources[b].source /\ Sources[a].id = Sources[b].id
  BY <1>2 DEF Key
<1>3. CASE Sources[a].source = Sources[b].source /\ Sources[a].cluster = Sources[b].cluster
  BY <1>3 DEF Key
<1> QED
  BY <1>1, <1>2, <1>3 DEF Related

-----------------------------------------------------------------------------
(***************************************************************************)
(* The invariant                                                           *)
(***************************************************************************)
\* Before anything ran nothing is claimed and nobody writes.
LEMMA InitIInv == Init => IInv
<1> SUFFICES ASSUME Init PROVE IInv
  OBVIOUS
<1>1. DOMAIN pass = {} /\ pass \in Seq([stage : {"ended"}] \cup
        [stage : {"claiming", "writing", "trial"}, use : Uses, resume : BOOLEAN, n : Nat \ {0}])
  BY DEF Init
<1>2. TypeOK
  BY <1>1 DEF Init, TypeOK
<1>3. PassesHold /\ WritersOwn
  BY <1>1 DEF PassesHold, WritersOwn
<1>4. OpenedHold
  BY DEF Init, OpenedHold
<1> QED
  BY <1>2, <1>3, <1>4 DEF IInv

\* What a live pass is, and the key it is about to claim.
LEMMA LivePass ==
  ASSUME TypeOK, NEW p \in DOMAIN pass, pass[p].stage # "ended"
  PROVE  /\ pass[p] \in [stage : {"claiming", "writing", "trial"}, use : Uses,
                          resume : BOOLEAN, n : Nat \ {0}]
         /\ pass[p].use.card \in Names
         /\ Claims(pass[p].use.card) \in Nat
         /\ pass[p].n <= Claims(pass[p].use.card) => Target(p) \in AllKeys
<1>1. pass[p] \in [stage : {"claiming", "writing", "trial"}, use : Uses,
                   resume : BOOLEAN, n : Nat \ {0}]
  BY DEF TypeOK
<1>2. pass[p].use.card \in Names
  BY <1>1 DEF Uses
<1>3. Cards[pass[p].use.card].items \in Seq(DOMAIN Sources)
  BY <1>2, AssessmentAssumption DEF Names
<1>4. Claims(pass[p].use.card) \in Nat
  BY <1>3 DEF Claims
<1>5. pass[p].n <= Claims(pass[p].use.card) => Target(p) \in AllKeys
  BY <1>1, <1>2, <1>4, KeyFacts DEF Target
<1> QED
  BY <1>1, <1>2, <1>4, <1>5

\* Steps that leave the registry, the passes and the opened sets alone.
Elsewhere == UNCHANGED <<registry, pass, opened>> /\ builds' \in BuildSets

\* Installing, editing, labelling, freezing and measuring are such steps.
LEMMA ElsewhereSteps ==
  ASSUME TypeOK,
         \/ UNCHANGED vars \/ Rebuild \/ Edit \/ Label
         \/ \E name \in Names, file \in merged : Freeze(name, file)
         \/ \E p \in DOMAIN pass : Measure(p)
  PROVE  Elsewhere
BY DEF TypeOK, Elsewhere, vars, assessVars, disk, Rebuild, Edit, Label, Freeze, Measure

\* Such steps keep the invariant.
LEMMA ElsewhereKeeps == IInv /\ Elsewhere => IInv'
<1> SUFFICES ASSUME IInv, Elsewhere PROVE IInv'
  OBVIOUS
<1>1. TypeOK'
  BY DEF IInv, TypeOK, Elsewhere
<1>2. PassesHold'
  BY DEF IInv, PassesHold, Elsewhere, Held
<1>3. WritersOwn'
  BY DEF IInv, WritersOwn, Elsewhere, Stage, Target
<1>4. OpenedHold'
  BY DEF IInv, OpenedHold, Elsewhere, Held
<1> QED
  BY <1>1, <1>2, <1>3, <1>4 DEF IInv

\* A pass that starts holds nothing yet.
LEMMA StartKeeps ==
  ASSUME IInv, NEW r \in Requests, Start(r)
  PROVE  IInv'
<1> DEFINE new == [use |-> [card |-> r.card, out |-> r.out, builds |-> builds],
                   resume |-> r.resume, stage |-> "claiming", n |-> 1]
           Passes == [stage : {"ended"}] \cup
             [stage : {"claiming", "writing", "trial"}, use : Uses, resume : BOOLEAN, n : Nat \ {0}]
<1>1. pass \in Seq(Passes) /\ builds \in BuildSets
  BY DEF IInv, TypeOK
<1>2. r.card \in Names /\ r.resume \in BOOLEAN
  BY AssessmentAssumption DEF Names
<1>3. new \in Passes
  BY <1>1, <1>2 DEF Uses
<1>4. pass' = Append(pass, new) /\ registry' = registry /\ opened' = opened /\ builds' = builds
  BY DEF Start, disk
<1> HIDE DEF new, Passes
<1>5. /\ pass' \in Seq(Passes) /\ DOMAIN pass' = 1..(Len(pass) + 1)
      /\ \A p \in DOMAIN pass' : (p \in DOMAIN pass /\ pass'[p] = pass[p]) \/ pass'[p] = new
  BY <1>1, <1>3, <1>4
<1>6. TypeOK'
  BY <1>4, <1>5 DEF IInv, TypeOK, Passes
<1>7. new.n = 1 /\ new.stage = "claiming" /\ new.use.card \in Names
  BY <1>2 DEF new
<1>8. Claims(new.use.card) \in Nat
  <2> Cards[new.use.card].items \in Seq(DOMAIN Sources)
    BY <1>7, AssessmentAssumption DEF Names
  <2> QED
    BY DEF Claims
<1>9. PassesHold'
  <2> SUFFICES ASSUME NEW p \in DOMAIN pass', pass'[p].stage # "ended"
               PROVE  /\ pass'[p].n <= Claims(pass'[p].use.card) + 1
                      /\ \A m \in 1..(pass'[p].n - 1) :
                           Held(pass'[p].use, KeyAt(pass'[p].use.card, m))
    BY <1>4 DEF PassesHold, Held
  <2>1. CASE p \in DOMAIN pass /\ pass'[p] = pass[p]
    BY <2>1 DEF IInv, PassesHold
  <2>2. CASE pass'[p] = new
    <3>1. pass'[p].n = 1 /\ pass'[p].use.card = new.use.card
      BY <2>2, <1>7
    <3>2. 1..(pass'[p].n - 1) = {} /\ pass'[p].n <= Claims(pass'[p].use.card) + 1
      BY <3>1, <1>8
    <3> QED
      BY <3>2
  <2> QED
    BY <2>1, <2>2, <1>5
<1>10. WritersOwn'
  <2>1. \A p : Stage(p, "writing")' => /\ p \in DOMAIN pass /\ pass'[p] = pass[p]
                                       /\ Stage(p, "writing") /\ Target(p)' = Target(p)
    BY <1>5, <1>7 DEF Stage, Target
  <2> QED
    BY <2>1, <1>4 DEF IInv, WritersOwn
<1>11. OpenedHold'
  BY <1>4 DEF IInv, OpenedHold, Held
<1> QED
  BY <1>6, <1>9, <1>10, <1>11 DEF IInv

\* The passes other than p are as they were.
Others(p) ==
  /\ DOMAIN pass' = DOMAIN pass
  /\ \A q \in DOMAIN pass : q # p => pass'[q] = pass[q]

\* Replacing one pass by a well-typed one leaves the rest as it was.
LEMMA TypedPass ==
  ASSUME TypeOK, NEW p \in DOMAIN pass,
         NEW new \in [stage : {"ended"}] \cup
           [stage : {"claiming", "writing", "trial"}, use : Uses, resume : BOOLEAN, n : Nat \ {0}],
         pass' = [pass EXCEPT ![p] = new]
  PROVE  /\ pass' \in Seq([stage : {"ended"}] \cup
              [stage : {"claiming", "writing", "trial"}, use : Uses, resume : BOOLEAN, n : Nat \ {0}])
         /\ Others(p) /\ pass'[p] = new
<1> DEFINE Passes == [stage : {"ended"}] \cup
             [stage : {"claiming", "writing", "trial"}, use : Uses, resume : BOOLEAN, n : Nat \ {0}]
<1>1. pass \in Seq(Passes) /\ new \in Passes
  BY DEF TypeOK
<1> HIDE DEF Passes
<1>2. pass' \in Seq(Passes) /\ DOMAIN pass' = DOMAIN pass /\ pass'[p] = new
  BY <1>1
<1> QED
  BY <1>1, <1>2 DEF Others, Passes

\* A pass that ends leaves what it claimed.
LEMMA EndKeeps ==
  ASSUME IInv, NEW p \in DOMAIN pass, End(p), UNCHANGED <<registry, opened, builds>>
  PROVE  IInv'
<1>1. pass' = [pass EXCEPT ![p] = [stage |-> "ended"]]
  BY DEF End
<1>2. pass'[p] = [stage |-> "ended"] /\ Others(p) /\ TypeOK'
  BY <1>1, TypedPass DEF IInv, TypeOK
<1>3. PassesHold'
  BY <1>2 DEF IInv, PassesHold, Held, Others
<1>4. WritersOwn'
  <2>1. ~Stage(p, "writing")'
    BY <1>2 DEF Stage
  <2>2. \A q : q # p => /\ Stage(q, "writing")' = Stage(q, "writing")
                        /\ Stage(q, "writing") => Target(q)' = Target(q)
    BY <1>2 DEF Stage, Target, Others
  <2>3. \A q \in DOMAIN pass : q # p => pass'[q] = pass[q]
    BY <1>2 DEF Others
  <2> QED
    BY <1>2, <2>1, <2>2, <2>3 DEF IInv, WritersOwn, Others
<1>5. OpenedHold'
  BY DEF IInv, OpenedHold, Held
<1> QED
  BY <1>2, <1>3, <1>4, <1>5 DEF IInv

\* What is opened was claimed whole by this pass.
LEMMA OpenClaims ==
  ASSUME IInv, NEW p \in DOMAIN pass, OpenItems(p)
  PROVE  /\ pass[p].use \in Uses
         /\ \A key \in KeysOf[pass[p].use] : Held(pass[p].use, key)
<1>1. pass[p].stage = "claiming" /\ pass[p].n > Claims(pass[p].use.card)
  BY DEF OpenItems, Claimed, Stage
<1>2. pass[p].use \in Uses /\ pass[p].n \in Nat /\ Claims(pass[p].use.card) \in Nat
  BY <1>1, LivePass DEF IInv
<1>3. \A m \in 1..(pass[p].n - 1) : Held(pass[p].use, KeyAt(pass[p].use.card, m))
  BY <1>1 DEF IInv, PassesHold
<1>4. \A m \in 1..Claims(pass[p].use.card) : Held(pass[p].use, KeyAt(pass[p].use.card, m))
  BY <1>1, <1>2, <1>3
<1> QED
  BY <1>2, <1>4 DEF KeysOf

\* Opening a set keeps the invariant.
LEMMA OpenKeeps ==
  ASSUME IInv, NEW p \in DOMAIN pass, OpenItems(p)
  PROVE  IInv'
<1> DEFINE use == pass[p].use
<1>1. /\ pass[p].stage = "claiming" /\ registry' = registry /\ builds' = builds
      /\ opened' = opened \cup {use}
  BY DEF OpenItems, Claimed, Stage, disk
<1>2. pass[p] \in [stage : {"claiming", "writing", "trial"}, use : Uses, resume : BOOLEAN, n : Nat \ {0}]
  BY <1>1, LivePass DEF IInv
<1>3. PICK new : /\ pass' = [pass EXCEPT ![p] = new]
                 /\ new = [stage |-> "ended"] \/ new = [pass[p] EXCEPT !.stage = "trial"]
  BY DEF OpenItems, To, End
<1>4. /\ new \in [stage : {"ended"}] \cup
           [stage : {"claiming", "writing", "trial"}, use : Uses, resume : BOOLEAN, n : Nat \ {0}]
      /\ new.stage # "writing"
      /\ new.stage # "ended" => new.use = use /\ new.n = pass[p].n
  BY <1>2, <1>3
<1>5. pass'[p] = new /\ Others(p) /\ TypeOK'
  BY <1>1, <1>2, <1>3, <1>4, TypedPass DEF IInv, TypeOK
<1>6. PassesHold'
  BY <1>1, <1>4, <1>5 DEF IInv, PassesHold, Held, Others
<1>7. WritersOwn'
  <2>1. ~Stage(p, "writing")'
    BY <1>4, <1>5 DEF Stage
  <2>2. \A q : q # p => /\ Stage(q, "writing")' = Stage(q, "writing")
                        /\ Stage(q, "writing") => Target(q)' = Target(q)
    BY <1>5 DEF Stage, Target, Others
  <2>3. \A q \in DOMAIN pass : q # p => pass'[q] = pass[q]
    BY <1>5 DEF Others
  <2> QED
    BY <1>1, <1>5, <2>1, <2>2, <2>3 DEF IInv, WritersOwn, Others
<1>8. OpenedHold'
  <2>1. \A key \in KeysOf[use] : Held(use, key)
    BY OpenClaims
  <2> QED
    BY <1>1, <2>1 DEF IInv, OpenedHold, Held
<1> QED
  BY <1>5, <1>6, <1>7, <1>8 DEF IInv

\* A key is created where there was none: nobody held it or wrote it.
LEMMA CreateKeeps ==
  ASSUME IInv, NEW p \in DOMAIN pass, Create(p)
  PROVE  IInv'
<1> DEFINE key == Target(p)
           new == [pass[p] EXCEPT !.stage = "writing"]
<1>1. /\ pass[p].stage = "claiming" /\ pass[p].n <= Claims(pass[p].use.card)
      /\ registry[key] = Free /\ registry' = [registry EXCEPT ![key] = Torn]
      /\ opened' = opened /\ builds' = builds /\ pass' = [pass EXCEPT ![p] = new]
  BY DEF Create, Claiming, Stage, To
<1>2. /\ pass[p] \in [stage : {"claiming", "writing", "trial"}, use : Uses, resume : BOOLEAN, n : Nat \ {0}]
      /\ key \in AllKeys
  BY <1>1, LivePass DEF IInv
<1>3. /\ new \in [stage : {"claiming", "writing", "trial"}, use : Uses, resume : BOOLEAN, n : Nat \ {0}]
      /\ new.stage = "writing" /\ new.use = pass[p].use /\ new.n = pass[p].n
  BY <1>2
<1> HIDE DEF key, new
<1>4. /\ pass' \in Seq([stage : {"ended"}] \cup
              [stage : {"claiming", "writing", "trial"}, use : Uses, resume : BOOLEAN, n : Nat \ {0}])
      /\ Others(p) /\ pass'[p] = new
  BY <1>1, <1>3, TypedPass DEF IInv
<1>5. registry \in [AllKeys -> {Free, Torn} \cup Claim]
  BY DEF IInv, TypeOK
<1>6. /\ registry' \in [AllKeys -> {Free, Torn} \cup Claim] /\ registry'[key] = Torn
      /\ \A other \in AllKeys : other # key => registry'[other] = registry[other]
  BY <1>1, <1>2, <1>5
<1>7. TypeOK'
  BY <1>1, <1>4, <1>6 DEF IInv, TypeOK
<1>8. \A use, other : Held(use, other) /\ other \in AllKeys => Held(use, other)'
  BY <1>1, <1>6, ClaimIsWhole DEF Held
<1>9. PassesHold'
  <2> SUFFICES ASSUME NEW q \in DOMAIN pass, pass'[q].stage # "ended"
               PROVE  /\ pass'[q].n <= Claims(pass'[q].use.card) + 1
                      /\ \A m \in 1..(pass'[q].n - 1) :
                           LET other == KeyAt(pass'[q].use.card, m)
                           IN registry'[other] \in Claim /\ registry'[other].use = pass'[q].use
    BY <1>4 DEF PassesHold, Held, Others
  <2>1. pass'[q].use = pass[q].use /\ pass'[q].n = pass[q].n /\ pass[q].stage # "ended"
    BY <1>1, <1>3, <1>4 DEF Others
  <2>2. /\ pass[q].n <= Claims(pass[q].use.card) + 1 /\ pass[q].n \in Nat
        /\ Claims(pass[q].use.card) \in Nat /\ pass[q].use.card \in Names
    BY <2>1, LivePass DEF IInv, PassesHold
  <2>3. ASSUME NEW m \in 1..(pass[q].n - 1)
        PROVE  /\ Held(pass[q].use, KeyAt(pass[q].use.card, m))
               /\ KeyAt(pass[q].use.card, m) \in AllKeys
    <3>1. m \in 1..Claims(pass[q].use.card)
      BY <2>2
    <3> QED
      BY <2>1, <2>2, <3>1, KeyFacts DEF IInv, PassesHold
  <2> QED
    BY <2>1, <2>2, <2>3, <1>8 DEF Held
<1>10. WritersOwn'
  <2>1. /\ Stage(p, "writing")' /\ Target(p)' = key /\ ~Stage(p, "writing")
    BY <1>1, <1>3, <1>4 DEF Stage, Target, key, Others
  <2>2. \A q : q # p => /\ Stage(q, "writing")' = Stage(q, "writing")
                        /\ Stage(q, "writing") => Target(q)' = Target(q)
    BY <1>4 DEF Stage, Target, Others
  <2>3. \A q \in DOMAIN pass : Stage(q, "writing") => /\ Target(q) # key /\ Target(q) \in AllKeys
                                                     /\ registry[Target(q)] = Torn
    <3> SUFFICES ASSUME NEW q \in DOMAIN pass, Stage(q, "writing")
                 PROVE  Target(q) # key /\ Target(q) \in AllKeys /\ registry[Target(q)] = Torn
      OBVIOUS
    <3>1. registry[Target(q)] = Torn /\ pass[q].n <= Claims(pass[q].use.card) /\ pass[q].stage # "ended"
      BY DEF IInv, WritersOwn, Stage
    <3> QED
      BY <3>1, <1>1, LivePass, RegistryAssumption DEF IInv
  <2>4. pass'[p].n <= Claims(pass'[p].use.card)
    BY <1>1, <1>3, <1>4
  <2>5. \A q \in DOMAIN pass : q # p => pass'[q] = pass[q]
    BY <1>4 DEF Others
  <2>6. DOMAIN pass' = DOMAIN pass
    BY <1>4 DEF Others
  <2> SUFFICES ASSUME NEW q \in DOMAIN pass, Stage(q, "writing")'
               PROVE  /\ pass'[q].n <= Claims(pass'[q].use.card)
                      /\ registry'[Target(q)'] = Torn
                      /\ \A r \in DOMAIN pass :
                           Stage(r, "writing")' /\ Target(r)' = Target(q)' => r = q
    BY <2>6 DEF WritersOwn
  <2>7. CASE q = p
    BY <2>7, <2>1, <2>2, <2>3, <2>4, <1>6
  <2>8. CASE q # p
    BY <2>8, <2>1, <2>2, <2>3, <2>5, <1>6 DEF IInv, WritersOwn
  <2> QED
    BY <2>7, <2>8
<1>11. OpenedHold'
  <2>1. \A use \in Uses : \A other \in KeysOf[use] : other \in AllKeys
    <3> SUFFICES ASSUME NEW use \in Uses, NEW other \in KeysOf[use] PROVE other \in AllKeys
      OBVIOUS
    <3>1. use.card \in Names
      BY DEF Uses
    <3> QED
      BY <3>1, KeyFacts DEF KeysOf
  <2>2. opened \subseteq Uses
    BY DEF IInv, TypeOK
  <2>3. \A use \in opened : \A other \in KeysOf[use] : Held(use, other)'
    BY <2>1, <2>2, <1>8 DEF IInv, OpenedHold
  <2> QED
    BY <1>1, <2>3 DEF OpenedHold
<1> QED
  BY <1>7, <1>9, <1>10, <1>11 DEF IInv

\* A pass moves on past a key that its assessment now holds, and nobody else
\* loses anything: the empty files of the others are still empty.
LEMMA AdvanceKeeps ==
  ASSUME IInv, NEW p \in DOMAIN pass,
         pass[p].stage # "ended", pass[p].n <= Claims(pass[p].use.card), Advance(p),
         opened' = opened, builds' = builds,
         registry' \in [AllKeys -> {Free, Torn} \cup Claim],
         registry'[Target(p)] \in Claim, registry'[Target(p)].use = pass[p].use,
         \A other \in AllKeys : registry[other] \in Claim => registry'[other] = registry[other],
         \A q \in DOMAIN pass : Stage(q, "writing") /\ q # p => registry'[Target(q)] = Torn
  PROVE  IInv'
<1> DEFINE new == [pass[p] EXCEPT !.n = @ + 1, !.stage = "claiming"]
<1>1. pass' = [pass EXCEPT ![p] = new]
  BY DEF Advance
<1>2. pass[p] \in [stage : {"claiming", "writing", "trial"}, use : Uses, resume : BOOLEAN, n : Nat \ {0}]
  BY LivePass DEF IInv
<1>3. /\ new \in [stage : {"claiming", "writing", "trial"}, use : Uses, resume : BOOLEAN, n : Nat \ {0}]
      /\ new.stage = "claiming" /\ new.use = pass[p].use /\ new.n = pass[p].n + 1
  <2> DEFINE next == pass[p].n + 1
  <2>1. next \in Nat \ {0}
    BY <1>2
  <2>2. new = [pass[p] EXCEPT !.n = next, !.stage = "claiming"]
    OBVIOUS
  <2> HIDE DEF next
  <2> QED
    BY <1>2, <2>1, <2>2 DEF next
<1> HIDE DEF new
<1>4. /\ pass' \in Seq([stage : {"ended"}] \cup
              [stage : {"claiming", "writing", "trial"}, use : Uses, resume : BOOLEAN, n : Nat \ {0}])
      /\ Others(p) /\ pass'[p] = new
  BY <1>1, <1>3, TypedPass DEF IInv
<1>5. TypeOK'
  BY <1>4 DEF IInv, TypeOK
<1>6. /\ DOMAIN pass' = DOMAIN pass
      /\ \A q \in DOMAIN pass : q # p => pass'[q] = pass[q]
  BY <1>4 DEF Others
<1>7. ASSUME NEW q \in DOMAIN pass, pass[q].stage # "ended", NEW m \in 1..(pass[q].n - 1)
      PROVE  LET other == KeyAt(pass[q].use.card, m)
             IN registry'[other] \in Claim /\ registry'[other].use = pass[q].use
  <2>1. /\ pass[q].n <= Claims(pass[q].use.card) + 1 /\ pass[q].n \in Nat
        /\ Claims(pass[q].use.card) \in Nat /\ pass[q].use.card \in Names
    BY <1>7, LivePass DEF IInv, PassesHold
  <2>2. KeyAt(pass[q].use.card, m) \in AllKeys
    BY <2>1, KeyFacts
  <2>3. Held(pass[q].use, KeyAt(pass[q].use.card, m))
    BY <1>7 DEF IInv, PassesHold
  <2> QED
    BY <2>2, <2>3 DEF Held
<1>8. PassesHold'
  <2> SUFFICES ASSUME NEW q \in DOMAIN pass, pass'[q].stage # "ended"
               PROVE  /\ pass'[q].n <= Claims(pass'[q].use.card) + 1
                      /\ \A m \in 1..(pass'[q].n - 1) :
                           LET other == KeyAt(pass'[q].use.card, m)
                           IN registry'[other] \in Claim /\ registry'[other].use = pass'[q].use
    BY <1>6 DEF PassesHold, Held
  <2>1. CASE q # p
    BY <2>1, <1>6, <1>7 DEF IInv, PassesHold
  <2>2. CASE q = p
    <3>1. pass'[q].use = pass[p].use /\ pass'[q].n = pass[p].n + 1
      BY <2>2, <1>3, <1>4
    <3>2. pass[p].n \in Nat /\ Claims(pass[p].use.card) \in Nat
      BY <1>2, LivePass DEF IInv
    <3>3. ASSUME NEW m \in 1..pass[p].n
          PROVE  LET other == KeyAt(pass[p].use.card, m)
                 IN registry'[other] \in Claim /\ registry'[other].use = pass[p].use
      <4>1. CASE m = pass[p].n
        BY <4>1 DEF Target
      <4>2. CASE m # pass[p].n
        <5>1. m \in 1..(pass[p].n - 1)
          BY <4>2, <3>2
        <5> QED
          BY <5>1, <1>7
      <4> QED
        BY <4>1, <4>2
    <3>4. 1..(pass'[q].n - 1) = 1..pass[p].n /\ pass'[q].n <= Claims(pass[p].use.card) + 1
      BY <3>1, <3>2
    <3> QED
      BY <3>1, <3>3, <3>4
  <2> QED
    BY <2>1, <2>2
<1>9. WritersOwn'
  <2>1. ~Stage(p, "writing")'
    BY <1>3, <1>4 DEF Stage
  <2>2. \A q : q # p => /\ Stage(q, "writing")' = Stage(q, "writing")
                        /\ Stage(q, "writing") => Target(q)' = Target(q)
    BY <1>4 DEF Stage, Target, Others
  <2> SUFFICES ASSUME NEW q \in DOMAIN pass, Stage(q, "writing")'
               PROVE  /\ pass'[q].n <= Claims(pass'[q].use.card)
                      /\ registry'[Target(q)'] = Torn
                      /\ \A r \in DOMAIN pass :
                           Stage(r, "writing")' /\ Target(r)' = Target(q)' => r = q
    BY <1>6 DEF WritersOwn
  <2>3. q # p /\ Stage(q, "writing") /\ pass'[q] = pass[q] /\ Target(q)' = Target(q)
    BY <2>1, <2>2, <1>6
  <2>4. pass[q].n <= Claims(pass[q].use.card) /\ registry'[Target(q)] = Torn
    BY <2>3 DEF IInv, WritersOwn
  <2>5. \A r \in DOMAIN pass : Stage(r, "writing")' /\ Target(r)' = Target(q)' => r = q
    BY <2>1, <2>2, <2>3 DEF IInv, WritersOwn
  <2> QED
    BY <2>3, <2>4, <2>5
<1>10. OpenedHold'
  <2>1. \A use \in Uses : \A other \in KeysOf[use] : other \in AllKeys
    <3> SUFFICES ASSUME NEW use \in Uses, NEW other \in KeysOf[use] PROVE other \in AllKeys
      OBVIOUS
    <3>1. use.card \in Names
      BY DEF Uses
    <3> QED
      BY <3>1, KeyFacts DEF KeysOf
  <2>2. opened \subseteq Uses
    BY DEF IInv, TypeOK
  <2> QED
    BY <2>1, <2>2 DEF IInv, OpenedHold, Held
<1> QED
  BY <1>5, <1>8, <1>9, <1>10 DEF IInv

\* The claim is filled in: the file was empty, and this pass's.
LEMMA WriteKeeps ==
  ASSUME IInv, NEW p \in DOMAIN pass, Write(p)
  PROVE  IInv'
<1> DEFINE key == Target(p)
           claim == [use |-> pass[p].use, item |-> ItemAt(pass[p].use.card, pass[p].n)]
<1>1. /\ Stage(p, "writing") /\ pass[p].stage = "writing" /\ Advance(p)
      /\ registry' = [registry EXCEPT ![key] = claim] /\ opened' = opened /\ builds' = builds
  BY DEF Write, Stage
<1>2. pass[p].n <= Claims(pass[p].use.card) /\ registry[key] = Torn
  BY <1>1 DEF IInv, WritersOwn
<1>3. /\ pass[p] \in [stage : {"claiming", "writing", "trial"}, use : Uses, resume : BOOLEAN, n : Nat \ {0}]
      /\ key \in AllKeys /\ pass[p].use.card \in Names /\ Claims(pass[p].use.card) \in Nat
  BY <1>1, <1>2, LivePass DEF IInv
<1>4. pass[p].n \in 1..Claims(pass[p].use.card)
  BY <1>2, <1>3
<1>5. claim \in Claim /\ claim.use = pass[p].use
  BY <1>3, <1>4, KeyFacts DEF Claim
<1>6. registry \in [AllKeys -> {Free, Torn} \cup Claim]
  BY DEF IInv, TypeOK
<1> HIDE DEF claim
<1>7. /\ registry' \in [AllKeys -> {Free, Torn} \cup Claim] /\ registry'[key] = claim
      /\ \A other \in AllKeys : other # key => registry'[other] = registry[other]
  BY <1>1, <1>3, <1>5, <1>6
<1>8. \A other \in AllKeys : registry[other] \in Claim => registry'[other] = registry[other]
  BY <1>2, <1>7, RegistryAssumption
<1>9. ASSUME NEW q \in DOMAIN pass, Stage(q, "writing"), q # p
      PROVE  registry'[Target(q)] = Torn
  <2>1. pass[q].n <= Claims(pass[q].use.card) /\ registry[Target(q)] = Torn /\ Target(q) # key
    BY <1>1, <1>9 DEF IInv, WritersOwn
  <2>2. Target(q) \in AllKeys
    BY <1>9, <2>1, LivePass DEF IInv, Stage
  <2> QED
    BY <2>1, <2>2, <1>7
<1> QED
  BY <1>1, <1>2, <1>5, <1>7, <1>8, <1>9, AdvanceKeeps

\* A claim that is found is taken only when it is this assessment's.
LEMMA AcceptKeeps ==
  ASSUME IInv, NEW p \in DOMAIN pass, Accept(p)
  PROVE  IInv'
<1> DEFINE key == Target(p)
<1>1. /\ pass[p].stage = "claiming" /\ pass[p].n <= Claims(pass[p].use.card) /\ Advance(p)
      /\ registry[key] # Free /\ registry[key] # Torn /\ registry[key].use = pass[p].use
      /\ registry' = registry /\ opened' = opened /\ builds' = builds
  BY DEF Accept, Found, Claiming, Resumes, Ours, Stage, disk
<1>2. key \in AllKeys
  BY <1>1, LivePass DEF IInv
<1>3. registry \in [AllKeys -> {Free, Torn} \cup Claim]
  BY DEF IInv, TypeOK
<1>4. registry[key] \in Claim
  BY <1>1, <1>2, <1>3
<1>5. \A q \in DOMAIN pass : Stage(q, "writing") => registry[Target(q)] = Torn
  BY DEF IInv, WritersOwn
<1> QED
  BY <1>1, <1>3, <1>4, <1>5, AdvanceKeeps

\* Every step keeps the invariant.
LEMMA NextKeeps == IInv /\ [Next]_vars => IInv'
<1> SUFFICES ASSUME IInv, [Next]_vars PROVE IInv'
  OBVIOUS
<1>1. CASE \/ UNCHANGED vars \/ Rebuild \/ Edit \/ Label
           \/ \E name \in Names, file \in merged : Freeze(name, file)
           \/ \E p \in DOMAIN pass : Measure(p)
  BY <1>1, ElsewhereSteps, ElsewhereKeeps DEF IInv
<1>2. ASSUME NEW r \in Requests, Start(r) PROVE IInv'
  BY <1>2, StartKeeps
<1>3. ASSUME NEW p \in DOMAIN pass, Create(p) PROVE IInv'
  BY <1>3, CreateKeeps
<1>4. ASSUME NEW p \in DOMAIN pass, Write(p) PROVE IInv'
  BY <1>4, WriteKeeps
<1>5. ASSUME NEW p \in DOMAIN pass, Accept(p) PROVE IInv'
  BY <1>5, AcceptKeeps
<1>6. ASSUME NEW p \in DOMAIN pass, OpenItems(p) PROVE IInv'
  BY <1>6, OpenKeeps
<1>7. ASSUME NEW p \in DOMAIN pass, Refuse(p) \/ Report(p) \/ Die(p) PROVE IInv'
  BY <1>7, EndKeeps DEF Refuse, Report, Die, disk
<1> QED
  BY <1>1, <1>2, <1>3, <1>4, <1>5, <1>6, <1>7 DEF Next, PassStep

\* The invariant holds of every behaviour.
LEMMA Invariant == Spec => []IInv
BY InitIInv, NextKeeps, PTL DEF Spec

-----------------------------------------------------------------------------
(***************************************************************************)
(* The results                                                             *)
(***************************************************************************)

\* Every variable of the opening protocol stays in its range.
THEOREM TypeCorrect == Spec => []TypeOK
<1>1. IInv => TypeOK
  BY DEF IInv
<1> QED
  BY <1>1, Invariant, PTL

\* Two opened assessments hold one key at most as the same assessment, and
\* related items have a key in common: H is opened by one (claimHoldout).
THEOREM HoldoutOnce == Spec => []HoldoutUsedOnce
<1>1. ASSUME IInv PROVE HoldoutUsedOnce
  <2> SUFFICES ASSUME NEW one \in opened, NEW other \in opened,
                      NEW a \in ItemsOf(one.card), NEW b \in ItemsOf(other.card), Related(a, b)
               PROVE  one = other
    BY DEF HoldoutUsedOnce
  <2>1. one \in Uses /\ other \in Uses
    BY <1>1 DEF IInv, TypeOK
  <2>2. a \in DOMAIN Sources /\ b \in DOMAIN Sources
    <3>1. one.card \in Names /\ other.card \in Names
      BY <2>1 DEF Uses
    <3>2. Cards[one.card].items \in Seq(DOMAIN Sources) /\ Cards[other.card].items \in Seq(DOMAIN Sources)
      BY <3>1, AssessmentAssumption DEF Names
    <3> QED
      BY <3>2 DEF ItemsOf, Range
  <2>3. PICK kind \in Range(KeyKinds) : Key(a, kind) = Key(b, kind)
    BY <2>2, RelatedShareKey
  <2>4. Key(a, kind) \in KeysOf[one] /\ Key(b, kind) \in KeysOf[other]
    BY <2>1, ItemKeys
  <2>5. Held(one, Key(a, kind)) /\ Held(other, Key(b, kind))
    BY <1>1, <2>4 DEF IInv, OpenedHold
  <2> QED
    BY <2>3, <2>5 DEF Held
<1> QED
  BY <1>1, Invariant, PTL

\* The registry, file by file and pass by pass, implements the ledger: an
\* assessment is opened in one step, and only when nothing it shares a key
\* with was opened by another.
THEOREM ImplementsTheLedger == Spec => ImplementsLedger
<1>1. Init => Ledger!LedgerInit
  BY DEF Init, Ledger!LedgerInit
<1>2. ASSUME IInv, [Next]_vars PROVE [Ledger!LedgerNext]_opened
  <2>1. ASSUME NEW p \in DOMAIN pass, OpenItems(p) PROVE Ledger!LedgerNext
    <3>1. /\ pass[p].use \in Uses
          /\ \A key \in KeysOf[pass[p].use] : Held(pass[p].use, key)
      BY <1>2, <2>1, OpenClaims
    <3>2. \A other \in opened : other = pass[p].use \/ KeysOf[other] \cap KeysOf[pass[p].use] = {}
      BY <1>2, <3>1 DEF IInv, OpenedHold, Held
    <3>3. opened' = opened \cup {pass[p].use}
      BY <2>1 DEF OpenItems
    <3> QED
      BY <3>1, <3>2, <3>3 DEF Ledger!LedgerNext, Ledger!Open
  <2>2. CASE ~\E p \in DOMAIN pass : OpenItems(p)
    BY <1>2, <2>2 DEF Next, PassStep, vars, assessVars, disk, Start, Create, Write, Accept, Refuse,
       Measure, Report, Die, Freeze, Rebuild, Edit, Label
  <2> QED
    BY <2>1, <2>2
<1> QED
  BY <1>1, <1>2, Invariant, PTL DEF Spec, ImplementsLedger, Ledger!LedgerSpec

-----------------------------------------------------------------------------
(***************************************************************************)
(* A verdict is final                                                      *)
(***************************************************************************)

\* A step of a trial, as its journal keeps it.
Row == [answer : Answers[0] \cup Answers[1], shown : Versions, builds : BuildSets]

\* A journal never holds more than the plan of its card.
JournalOK ==
  /\ DOMAIN report = Uses /\ DOMAIN pinned = Names /\ shown \in Versions
  /\ journal \in [Uses -> Seq(Row)]
  /\ \A use \in Uses : Len(journal[use]) <= Steps(use.card)

\* A pass runs on pinned labels.
FrozenFirst ==
  \A p \in DOMAIN pass : pass[p].stage # "ended" => \A name \in Names : pinned[name] # None

\* A report that adopts or rejects is what the journal of today says.
VerdictStands ==
  \A use \in Uses : report[use] \in {"adopt", "reject"} =>
    /\ pinned[use.card] # None
    /\ report[use] = Recommended(use.card, pinned[use.card], journal[use])

VerdictInv == JournalOK /\ FrozenFirst /\ VerdictStands

\* An item is measured twice.
LEMMA StepsOf ==
  ASSUME NEW name \in Names
  PROVE  /\ Cards[name].items \in Seq(DOMAIN Sources) /\ Len(Cards[name].items) \in Nat
         /\ DOMAIN Cards[name].items = 1..Len(Cards[name].items)
         /\ Steps(name) = 2 * Len(Cards[name].items) /\ Cards[name].serious \in Nat
<1>1. Cards[name].items \in Seq(DOMAIN Sources) /\ Cards[name].serious \in Nat
  BY AssessmentAssumption DEF Names
<1> QED
  BY <1>1 DEF Steps

\* While a step of the plan is left something is missing, so that nothing but
\* too many regressions decides.
LEMMA UndecidedShort ==
  ASSUME NEW name \in Names, NEW file, NEW rows \in Seq(Row), Len(rows) < Steps(name),
         Recommended(name, file, rows) \in {"adopt", "reject"}
  PROVE  /\ Cardinality(Regressions(name, file, rows)) > Cards[name].serious
         /\ Recommended(name, file, rows) = "reject"
<1> DEFINE last == Len(Cards[name].items)
<1>1. last \in Nat /\ Steps(name) = 2 * last /\ DOMAIN Cards[name].items = 1..last /\ Len(rows) \in Nat
  BY StepsOf
<1>2. last \in DOMAIN Cards[name].items /\ 2 * last - 1 + 1 > Len(rows)
  BY <1>1
<1> HIDE DEF last
<1>3. Side(name, file, rows, last, 1) = None
  BY <1>2 DEF Side
<1>4. Missing(name, file, rows) # {}
  BY <1>2, <1>3 DEF Missing
<1> QED
  BY <1>4 DEF Recommended

\* What regressed has regressed, whatever else is measured.
LEMMA RegressionsStay ==
  ASSUME NEW name \in Names, NEW file, NEW rows \in Seq(Row), NEW row \in Row
  PROVE  Cardinality(Regressions(name, file, rows)) > Cards[name].serious
           => Recommended(name, file, Append(rows, row)) = "reject"
<1> DEFINE more == Append(rows, row)
           before == Regressions(name, file, rows)
           after == Regressions(name, file, more)
<1>1. /\ Len(rows) \in Nat /\ Len(more) = Len(rows) + 1
      /\ \A n \in 1..Len(rows) : more[n] = rows[n]
  OBVIOUS
<1>2. /\ Len(Cards[name].items) \in Nat /\ Cards[name].serious \in Nat
      /\ DOMAIN Cards[name].items = 1..Len(Cards[name].items)
  BY StepsOf
<1> HIDE DEF more
<1>3. ASSUME NEW i \in DOMAIN Cards[name].items, NEW s \in {0, 1},
             Side(name, file, rows, i, s) \in {0, 1}
      PROVE  Side(name, file, more, i, s) = Side(name, file, rows, i, s)
  <2>1. ~(2 * i - 1 + s > Len(rows))
    BY <1>3, ScoreAssumption DEF Side
  <2>2. ~(2 * i - 1 + s > Len(more)) /\ 2 * i - 1 + s \in 1..Len(rows)
    BY <2>1, <1>1, <1>2
  <2> QED
    BY <2>1, <2>2, <1>1 DEF Side
<1>4. before \subseteq after
  BY <1>3 DEF Regressions
<1>5. IsFiniteSet(after)
  <2>1. after \subseteq 1..Len(Cards[name].items)
    BY <1>2 DEF Regressions
  <2>2. IsFiniteSet(1..Len(Cards[name].items))
    BY <1>2, FS_Interval
  <2> QED
    BY <2>1, <2>2, FS_Subset
<1>6. Cardinality(before) <= Cardinality(after) /\ Cardinality(before) \in Nat /\ Cardinality(after) \in Nat
  BY <1>4, <1>5, FS_Subset, FS_CardinalityType
<1>7. Cardinality(before) > Cards[name].serious => Cardinality(after) > Cards[name].serious
  BY <1>2, <1>6
<1> QED
  BY <1>7 DEF Recommended, more

\* At first nothing is measured and nothing reported.
LEMMA InitVerdict == Init => VerdictInv
<1> SUFFICES ASSUME Init PROVE VerdictInv
  OBVIOUS
<1>1. /\ DOMAIN report = Uses /\ DOMAIN pinned = Names /\ shown \in Versions
      /\ journal = [use \in Uses |-> <<>>] /\ DOMAIN pass = {}
      /\ report = [use \in Uses |-> None]
  BY DEF Init, LabelInit
<1>2. \A use \in Uses : 0 <= Steps(use.card)
  BY StepsOf DEF Uses
<1>3. JournalOK
  <2>1. journal \in [Uses -> Seq(Row)]
    BY <1>1
  <2>2. \A use \in Uses : Len(journal[use]) = 0
    BY <1>1
  <2> QED
    BY <1>1, <1>2, <2>1, <2>2 DEF JournalOK
<1> QED
  BY <1>1, <1>3, ScoreAssumption DEF VerdictInv, FrozenFirst, VerdictStands

\* Labels that are pinned stay.
LEMMA PinnedStays ==
  JournalOK /\ [Next]_vars => \A name \in Names : pinned[name] # None => pinned'[name] = pinned[name]
<1> SUFFICES ASSUME JournalOK, [Next]_vars
             PROVE  \A name \in Names : pinned[name] # None => pinned'[name] = pinned[name]
  OBVIOUS
<1>1. ASSUME NEW name \in Names, NEW file \in merged, Freeze(name, file)
      PROVE  \A other \in Names : pinned[other] # None => pinned'[other] = pinned[other]
  BY <1>1 DEF Freeze, JournalOK
<1>2. CASE ~\E name \in Names, file \in merged : Freeze(name, file)
  <2>1. UNCHANGED pinned
    BY <1>2 DEF Next, PassStep, vars, assessVars, Start, Create, Write, Accept, Refuse, OpenItems,
       Measure, Report, Die, Rebuild, Edit, Label
  <2> QED
    BY <2>1
<1> QED
  BY <1>1, <1>2

\* A pass that is alive was alive, or it has just started on pinned labels.
LEMMA LiveWas ==
  ASSUME IInv, [Next]_vars, NEW p \in DOMAIN pass', pass'[p].stage # "ended"
  PROVE  \/ p \in DOMAIN pass /\ pass[p].stage # "ended"
         \/ \A name \in Names : pinned[name] # None
<1> DEFINE Passes == [stage : {"ended"}] \cup
             [stage : {"claiming", "writing", "trial"}, use : Uses, resume : BOOLEAN, n : Nat \ {0}]
<1>1. pass \in Seq(Passes)
  BY DEF IInv, TypeOK
<1> HIDE DEF Passes
<1>2. CASE \E r \in Requests : Start(r)
  BY <1>2 DEF Start
<1>3. ASSUME NEW q \in DOMAIN pass, PassStep(q)
      PROVE  p \in DOMAIN pass /\ pass[p].stage # "ended"
  <2>1. /\ pass[q].stage # "ended" \/ UNCHANGED pass
        /\ UNCHANGED pass \/ \E new : pass' = [pass EXCEPT ![q] = new]
    BY <1>3 DEF PassStep, Create, Write, Accept, Refuse, OpenItems, Measure, Report, Die, Claiming,
       Claimed, Found, Live, Stage, To, End, Advance, disk
  <2> QED
    BY <1>1, <2>1
<1>4. CASE UNCHANGED vars \/ Rebuild \/ Edit \/ Label
           \/ \E name \in Names, file \in merged : Freeze(name, file)
  BY <1>4 DEF vars, assessVars, Rebuild, Edit, Label, Freeze
<1> QED
  BY <1>2, <1>3, <1>4 DEF Next

\* Passes keep running on pinned labels.
LEMMA StepFrozen == IInv /\ JournalOK /\ FrozenFirst /\ [Next]_vars => FrozenFirst'
BY PinnedStays, LiveWas DEF FrozenFirst

\* The pass that measures or reports.
LEMMA TrialPass ==
  ASSUME IInv, NEW p \in DOMAIN pass, Stage(p, "trial")
  PROVE  pass[p].use \in Uses /\ pass[p].use.card \in Names /\ pass[p].stage # "ended"
BY LivePass DEF IInv, Stage

\* Measuring appends a row to one journal, while there is room.
LEMMA MeasureAppends ==
  ASSUME IInv, JournalOK, NEW p \in DOMAIN pass, Measure(p)
  PROVE  \E row \in Row :
           /\ journal' = [journal EXCEPT ![pass[p].use] = Append(@, row)]
           /\ row.shown = shown /\ row.builds = builds
<1>1. Stage(p, "trial")
  BY DEF Measure
<1>2. pass[p].use \in Uses
  BY <1>1, TrialPass
<1>3. Len(journal[pass[p].use]) \in Nat
  BY <1>2 DEF JournalOK
<1>4. Len(journal[pass[p].use]) % 2 \in {0, 1}
  <2>1. \A n \in Nat : n % 2 \in {0, 1}
    OBVIOUS
  <2> QED
    BY <1>3, <2>1
<1>5. PICK answer \in Answers[Len(journal[pass[p].use]) % 2] :
        journal' = [journal EXCEPT ![pass[p].use] =
          Append(@, [answer |-> answer, shown |-> shown, builds |-> builds])]
  BY DEF Measure
<1>6. answer \in Answers[0] \cup Answers[1]
  BY <1>4, <1>5
<1>7. [answer |-> answer, shown |-> shown, builds |-> builds] \in Row
  BY <1>6 DEF Row, JournalOK, IInv, TypeOK
<1> QED
  BY <1>5, <1>7

\* What the step that measures does to the journals.
LEMMA MeasureJournal ==
  ASSUME IInv, JournalOK, NEW p \in DOMAIN pass, Measure(p)
  PROVE  /\ DOMAIN journal' = Uses
         /\ \A use \in Uses : use # pass[p].use => journal'[use] = journal[use]
         /\ \E row \in Row : /\ journal'[pass[p].use] = Append(journal[pass[p].use], row)
                             /\ row.shown = shown /\ row.builds = builds
         /\ Len(journal'[pass[p].use]) <= Steps(pass[p].use.card)
         /\ journal' \in [Uses -> Seq(Row)]
<1> DEFINE use == pass[p].use
<1>1. use \in Uses /\ use.card \in Names
  BY TrialPass DEF Measure
<1>2. PICK row \in Row : /\ journal' = [journal EXCEPT ![use] = Append(@, row)]
                         /\ row.shown = shown /\ row.builds = builds
  BY MeasureAppends
<1>3. journal \in [Uses -> Seq(Row)] /\ journal[use] \in Seq(Row)
  BY <1>1 DEF JournalOK
<1>4. Append(journal[use], row) \in Seq(Row) /\ Len(Append(journal[use], row)) = Len(journal[use]) + 1
  BY <1>3
<1>5. Len(journal[use]) < Steps(use.card) /\ Len(journal[use]) \in Nat /\ Steps(use.card) \in Nat
  BY <1>1, <1>3, StepsOf DEF Measure
<1> HIDE DEF use
<1>6. /\ DOMAIN journal' = Uses /\ journal'[use] = Append(journal[use], row)
      /\ \A other \in Uses : other # use => journal'[other] = journal[other]
      /\ journal' \in [Uses -> Seq(Row)]
  BY <1>1, <1>2, <1>3, <1>4
<1> QED
  BY <1>2, <1>4, <1>5, <1>6 DEF use

\* The journals stay within their plans.
LEMMA StepJournal == IInv /\ JournalOK /\ [Next]_vars => JournalOK'
<1> SUFFICES ASSUME IInv, JournalOK, [Next]_vars PROVE JournalOK'
  OBVIOUS
<1>1. ASSUME NEW p \in DOMAIN pass, Measure(p) PROVE JournalOK'
  <2>1. UNCHANGED <<report, pinned, shown>>
    BY <1>1 DEF Measure, labelVars
  <2>2. journal' \in [Uses -> Seq(Row)] /\ \A use \in Uses : Len(journal'[use]) <= Steps(use.card)
    BY <1>1, MeasureJournal DEF JournalOK
  <2> QED
    BY <2>1, <2>2 DEF JournalOK
<1>2. CASE ~\E p \in DOMAIN pass : Measure(p)
  <2>1. journal' = journal
    BY <1>2 DEF Next, PassStep, vars, assessVars, disk, Start, Create, Write, Accept, Refuse, OpenItems,
       Report, Die, Rebuild, Edit, Label, Freeze
  <2>2. DOMAIN report' = DOMAIN report
    BY <1>2 DEF Next, PassStep, vars, assessVars, disk, Start, Create, Write, Accept, Refuse, OpenItems,
       Report, Die, Rebuild, Edit, Label, Freeze
  <2>3. DOMAIN pinned' = DOMAIN pinned
    BY <1>2 DEF Next, PassStep, vars, assessVars, Start, Create, Write, Accept, Refuse, OpenItems,
       Report, Die, Rebuild, Edit, Label, Freeze
  <2>4. shown' \in Versions
    BY <1>2 DEF Next, PassStep, vars, labelVars, Start, Create, Write, Accept, Refuse, OpenItems,
       Report, Die, Rebuild, Edit, Label, Freeze, EditSuite, LabelStep, Build, Return, Import, Merge, JournalOK
  <2> QED
    BY <2>1, <2>2, <2>3, <2>4 DEF JournalOK
<1> QED
  BY <1>1, <1>2

\* A verdict still says what the journal says: a journal that decided before
\* its plan was done decided by its regressions, and those stay.
LEMMA StepStands == IInv /\ VerdictInv /\ [Next]_vars => VerdictStands'
<1> SUFFICES ASSUME IInv, VerdictInv, [Next]_vars, NEW use \in Uses, report'[use] \in {"adopt", "reject"}
             PROVE  /\ pinned'[use.card] # None
                    /\ report'[use] = Recommended(use.card, pinned'[use.card], journal'[use])
  BY DEF VerdictStands
<1>0. use.card \in Names /\ JournalOK /\ FrozenFirst /\ VerdictStands
  BY DEF Uses, VerdictInv
<1>1. pinned[use.card] # None => pinned'[use.card] = pinned[use.card]
  BY <1>0, PinnedStays
<1>2. ASSUME NEW p \in DOMAIN pass, Measure(p)
      PROVE  report'[use] = Recommended(use.card, pinned'[use.card], journal'[use]) /\ pinned[use.card] # None
  <2>1. report' = report /\ report[use] = Recommended(use.card, pinned[use.card], journal[use])
          /\ pinned[use.card] # None
    BY <1>0, <1>2 DEF Measure, VerdictStands
  <2>2. CASE use = pass[p].use
    <3>1. PICK row \in Row : journal'[use] = Append(journal[use], row)
      BY <1>0, <1>2, <2>2, MeasureJournal
    <3>2. journal[use] \in Seq(Row) /\ Len(journal[use]) < Steps(use.card)
      BY <1>0, <1>2, <2>2 DEF JournalOK, Measure
    <3>3. /\ report[use] = "reject"
          /\ Cardinality(Regressions(use.card, pinned[use.card], journal[use])) > Cards[use.card].serious
      BY <1>0, <2>1, <3>2, UndecidedShort
    <3>4. Recommended(use.card, pinned[use.card], Append(journal[use], row)) = "reject"
      BY <1>0, <3>2, <3>3, RegressionsStay
    <3> QED
      BY <1>1, <2>1, <3>1, <3>3, <3>4
  <2>3. CASE use # pass[p].use
    BY <1>0, <1>1, <1>2, <2>1, <2>3, MeasureJournal
  <2> QED
    BY <2>1, <2>2, <2>3
<1>3. ASSUME NEW p \in DOMAIN pass, Report(p)
      PROVE  report'[use] = Recommended(use.card, pinned'[use.card], journal'[use]) /\ pinned[use.card] # None
  <2>1. pinned' = pinned /\ journal' = journal
          /\ report' = [report EXCEPT ![pass[p].use] =
               Recommended(pass[p].use.card, pinned[pass[p].use.card], journal[pass[p].use])]
    BY <1>3 DEF Report
  <2>2. CASE use = pass[p].use
    <3>1. pinned[use.card] # None
      BY <1>0, <1>3, <2>2, TrialPass DEF Report, FrozenFirst
    <3> QED
      BY <1>0, <2>1, <2>2, <3>1 DEF JournalOK
  <2>3. CASE use # pass[p].use
    BY <1>0, <2>1, <2>3 DEF JournalOK, VerdictStands
  <2> QED
    BY <2>2, <2>3
<1>4. CASE ~(\E p \in DOMAIN pass : Measure(p) \/ Report(p))
  <2>1. journal' = journal /\ report' = report
    BY <1>4 DEF Next, PassStep, vars, assessVars, disk, Start, Create, Write, Accept, Refuse, OpenItems,
       Die, Rebuild, Edit, Label, Freeze
  <2> QED
    BY <1>0, <1>1, <2>1 DEF VerdictStands
<1> QED
  BY <1>1, <1>2, <1>3, <1>4

\* The invariant of the verdicts holds of every behaviour.
LEMMA VerdictInvariant == Spec => [](IInv /\ VerdictInv)
<1>1. IInv /\ VerdictInv /\ [Next]_vars => VerdictInv'
  BY StepJournal, StepFrozen, StepStands DEF VerdictInv
<1> QED
  BY <1>1, InitIInv, InitVerdict, NextKeeps, PTL DEF Spec

\* A recommendation to adopt or to reject stands: where the plan was done
\* nothing is measured any more, and where it was not the regressions that
\* rejected are still there (assessReport).
THEOREM VerdictFinal == Spec => VerdictIsFinal
<1>1. ASSUME IInv, VerdictInv, [Next]_vars, NEW use \in Uses, report[use] \in {"adopt", "reject"}
      PROVE  report'[use] = report[use]
  <2>1. DOMAIN report = Uses /\ report[use] = Recommended(use.card, pinned[use.card], journal[use])
    BY <1>1 DEF VerdictInv, JournalOK, VerdictStands
  <2>2. ASSUME NEW p \in DOMAIN pass, Report(p) PROVE report'[use] = report[use]
    BY <2>1, <2>2 DEF Report
  <2>3. CASE ~(\E p \in DOMAIN pass : Report(p))
    BY <1>1, <2>3 DEF Next, PassStep, vars, assessVars, disk, Start, Create, Write, Accept, Refuse,
       OpenItems, Measure, Die, Rebuild, Edit, Label, Freeze
  <2> QED
    BY <2>2, <2>3
<1>2. IInv /\ VerdictInv /\ [Next]_vars
        => [\A use \in Uses : report[use] \in {"adopt", "reject"} => report'[use] = report[use]]_vars
  BY <1>1
<1> QED
  BY <1>2, VerdictInvariant, PTL DEF Spec, VerdictIsFinal

-----------------------------------------------------------------------------
(***************************************************************************)
(* What was scored is what people judged                                   *)
(***************************************************************************)

\* What a person thinks of every labelled item of a version.
Thought(by, saw) == [item \in Labelled |-> Opinion[by][saw][item]]

\* Ticks, imports and merges say what people think of the version they saw.
LabelsTrue ==
  /\ \A packet \in packets : packet.by \in People /\ packet.saw \in Versions
  /\ \A answers \in returned : answers.mapping \in packets
       /\ answers.ticks = [item \in Labelled |-> Ticks(answers.mapping, item)]
  /\ \A file \in imports : file.by \in People /\ file.ok = Thought(file.by, file.saw)
  /\ \A file \in merged : \A by \in DOMAIN file.votes :
       by \in People /\ file.votes[by] = Thought(by, file.saw)

\* So does what is pinned.
PinnedTrue ==
  \A name \in Names : pinned[name] # None =>
    \A by \in DOMAIN pinned[name].votes : \A item \in DOMAIN pinned[name].votes[by] :
      item \in DOMAIN Opinion[by][pinned[name].saw] =>
        pinned[name].votes[by][item] = Opinion[by][pinned[name].saw][item]

\* A pass runs on the builds of the finalist, and its trial on the files its
\* labels are about.
PassesRunOn ==
  \A p \in DOMAIN pass :
    /\ pass[p].stage # "ended" => builds = Cards[pass[p].use.card].finalist.identity.builds
    /\ Stage(p, "trial") => Consistent(pass[p].use.card)

\* What a journal holds was measured there.
RowsRanOn ==
  \A use \in Uses : \A n \in DOMAIN journal[use] :
    /\ pinned[use.card] # None
    /\ Resolvable(pinned[use.card], ItemsOf(use.card))
    /\ journal[use][n].shown = pinned[use.card].saw
    /\ journal[use][n].builds = Cards[use.card].finalist.identity.builds

ScoreInv == LabelsTrue /\ PinnedTrue /\ PassesRunOn /\ RowsRanOn

\* Nothing is labelled at first, and what is given is taken as made by people.
LEMMA InitScore == Init => ScoreInv
<1> SUFFICES ASSUME Init PROVE ScoreInv
  OBVIOUS
<1>1. LabelsTrue
  BY DEF Init, LabelInit, LabelsTrue
<1>2. PinnedTrue
  BY GivenAssumption DEF Init, PinnedTrue
<1>3. PassesRunOn /\ RowsRanOn
  BY DEF Init, PassesRunOn, RowsRanOn
<1> QED
  BY <1>1, <1>2, <1>3 DEF ScoreInv

\* Translating the letters a person ticked gives back what they think, whatever
\* the letters stood for: every candidate has a letter.
LEMMA TranslatedIsThought ==
  ASSUME NEW packet, packet.by \in People, packet.saw \in Versions,
         NEW answers, answers.ticks = [item \in Labelled |-> Ticks(packet, item)]
  PROVE  Translated(packet, answers) = Thought(packet.by, packet.saw)
<1> SUFFICES ASSUME NEW item \in Labelled
             PROVE  {Letter[packet.by][item][letter] : letter \in answers.ticks[item]}
                      = Opinion[packet.by][packet.saw][item]
  BY DEF Translated, Thought
<1> DEFINE letters == Letter[packet.by][item]
           liked == Opinion[packet.by][packet.saw][item]
<1>1. liked \subseteq {letters[letter] : letter \in DOMAIN letters}
  <2>1. Range(letters) = Positions /\ liked \subseteq Positions
    BY LabelsAssumption
  <2> QED
    BY <2>1 DEF Range
<1>2. answers.ticks[item] = {letter \in DOMAIN letters : letters[letter] \in liked}
  BY DEF Ticks
<1> HIDE DEF letters, liked
<1>3. {letters[letter] : letter \in answers.ticks[item]} = liked
  BY <1>1, <1>2
<1> QED
  BY <1>3 DEF letters, liked

\* A merge of imports that saw one version holds what everybody thinks of it.
LEMMA JoinedIsThought ==
  ASSUME NEW inputs, NEW rulings, Cardinality(inputs) >= 2, SameInputs(inputs),
         \A file \in inputs : file.by \in People /\ file.ok = Thought(file.by, file.saw)
  PROVE  LET file == Joined(inputs, rulings)
         IN \A by \in DOMAIN file.votes : by \in People /\ file.votes[by] = Thought(by, file.saw)
<1>1. PICK some \in inputs : TRUE
  <2>1. inputs # {}
    BY FS_EmptySet
  <2> QED
    BY <2>1
<1> DEFINE one == CHOOSE file \in inputs : TRUE
<1>2. one \in inputs
  BY <1>1
<1> HIDE DEF one
<1> SUFFICES ASSUME NEW by \in {file.by : file \in inputs}
             PROVE  by \in People /\ (CHOOSE file \in inputs : file.by = by).ok = Thought(by, one.saw)
  BY DEF Joined, one
<1> DEFINE his == CHOOSE file \in inputs : file.by = by
<1>3. his \in inputs /\ his.by = by
  OBVIOUS
<1> HIDE DEF his
<1>4. his.ok = Thought(by, his.saw) /\ by \in People /\ his.saw = one.saw
  BY <1>2, <1>3 DEF SameInputs
<1> QED
  BY <1>4 DEF his

\* Labels stay true under every step people make.
LEMMA StepLabels == LabelsTrue /\ shown \in Versions /\ [Next]_vars => LabelsTrue'
<1> SUFFICES ASSUME LabelsTrue, shown \in Versions, [Next]_vars PROVE LabelsTrue'
  OBVIOUS
<1>1. ASSUME NEW by \in People, Build(by) PROVE LabelsTrue'
  <2>1. /\ packets' = packets \cup {[by |-> by, saw |-> shown]}
        /\ returned' = returned /\ imports' = imports /\ merged' = merged
    BY <1>1 DEF Build
  <2> QED
    BY <2>1 DEF LabelsTrue
<1>2. ASSUME NEW packet \in packets, Return(packet) PROVE LabelsTrue'
  <2>1. /\ returned' = returned \cup {[mapping |-> packet, ticks |-> [item \in Labelled |-> Ticks(packet, item)]]}
        /\ packets' = packets /\ imports' = imports /\ merged' = merged
    BY <1>2 DEF Return
  <2> QED
    BY <2>1 DEF LabelsTrue
<1>3. ASSUME NEW packet \in packets, NEW answers \in returned, Import(packet, answers) PROVE LabelsTrue'
  <2>1. /\ answers.mapping = packet
        /\ imports' = imports \cup {[by |-> packet.by, saw |-> packet.saw, ok |-> Translated(packet, answers)]}
        /\ packets' = packets /\ returned' = returned /\ merged' = merged
    BY <1>3 DEF Import, Matches
  <2>2. packet.by \in People /\ Translated(packet, answers) = Thought(packet.by, packet.saw)
    BY <2>1, TranslatedIsThought DEF LabelsTrue
  <2> QED
    BY <2>1, <2>2 DEF LabelsTrue
<1>4. ASSUME NEW inputs \in SUBSET imports, NEW rulings \in Rulings, Merge(inputs, rulings) PROVE LabelsTrue'
  <2>1. /\ Cardinality(inputs) >= 2 /\ SameInputs(inputs)
        /\ merged' = merged \cup {Joined(inputs, rulings)}
        /\ packets' = packets /\ returned' = returned /\ imports' = imports
    BY <1>4 DEF Merge
  <2> DEFINE new == Joined(inputs, rulings)
  <2>2. \A by \in DOMAIN new.votes : by \in People /\ new.votes[by] = Thought(by, new.saw)
    BY <2>1, JoinedIsThought DEF LabelsTrue
  <2> HIDE DEF new
  <2>3. \A file \in merged' : file \in merged \/ file = new
    BY <2>1 DEF new
  <2> QED
    BY <2>1, <2>2, <2>3 DEF LabelsTrue
<1>5. CASE ~Label
  <2>1. UNCHANGED labelFiles
    BY <1>5 DEF Next, PassStep, vars, assessVars, labelVars, labelFiles, Start, Create, Write, Accept,
       Refuse, OpenItems, Measure, Report, Die, Rebuild, Edit, EditSuite, Freeze
  <2> QED
    BY <2>1 DEF LabelsTrue, labelFiles
<1> QED
  BY <1>1, <1>2, <1>3, <1>4, <1>5 DEF Label, LabelStep

\* What is pinned is true: it was given, or a merge.
LEMMA StepPinned == JournalOK /\ LabelsTrue /\ PinnedTrue /\ [Next]_vars => PinnedTrue'
<1> SUFFICES ASSUME JournalOK, LabelsTrue, PinnedTrue, [Next]_vars PROVE PinnedTrue'
  OBVIOUS
<1>1. ASSUME NEW name \in Names, NEW file \in merged, Freeze(name, file) PROVE PinnedTrue'
  <2>1. pinned'[name] = file /\ \A other \in Names : other # name => pinned'[other] = pinned[other]
    BY <1>1 DEF Freeze, JournalOK
  <2>2. \A by \in DOMAIN file.votes : \A item \in DOMAIN file.votes[by] :
          file.votes[by][item] = Opinion[by][file.saw][item]
    <3> SUFFICES ASSUME NEW by \in DOMAIN file.votes, NEW item \in DOMAIN file.votes[by]
                 PROVE  file.votes[by][item] = Opinion[by][file.saw][item]
      OBVIOUS
    <3>1. file.votes[by] = [it \in Labelled |-> Opinion[by][file.saw][it]]
      BY DEF LabelsTrue, Thought
    <3> QED
      BY <3>1
  <2> QED
    BY <2>1, <2>2 DEF PinnedTrue
<1>2. CASE ~\E name \in Names, file \in merged : Freeze(name, file)
  <2>1. UNCHANGED pinned
    BY <1>2 DEF Next, PassStep, vars, assessVars, Start, Create, Write, Accept, Refuse, OpenItems,
       Measure, Report, Die, Rebuild, Edit, Label
  <2> QED
    BY <2>1 DEF PinnedTrue
<1> QED
  BY <1>1, <1>2

\* A pass keeps its assessment, and its trial begins on consistent inputs.
LEMMA PassMoves ==
  ASSUME IInv, NEW q \in DOMAIN pass, PassStep(q)
  PROVE  \/ UNCHANGED pass
         \/ /\ pass[q].stage # "ended" /\ Others(q)
            /\ pass'[q].stage # "ended" =>
                 /\ pass'[q].use = pass[q].use
                 /\ pass'[q].stage = "trial" => Consistent(pass[q].use.card)
<1> DEFINE Live4 == [stage : {"claiming", "writing", "trial"}, use : Uses, resume : BOOLEAN, n : Nat \ {0}]
<1>1. pass[q].stage # "ended" \/ UNCHANGED pass
  BY DEF PassStep, Create, Write, Accept, Refuse, OpenItems, Measure, Report, Die, Claiming,
     Claimed, Found, Live, Stage
<1>2. CASE UNCHANGED pass
  BY <1>2
<1>3. CASE pass[q].stage # "ended"
  <2>1. pass[q] \in Live4
    BY <1>3, LivePass DEF IInv
  <2>2. pass \in Seq([stage : {"ended"}] \cup Live4)
    BY DEF IInv, TypeOK
  <2>3. CASE End(q)
    BY <2>2, <2>3 DEF End, Others
  <2>4. CASE To(q, "writing")
    <3> DEFINE new == [pass[q] EXCEPT !.stage = "writing"]
    <3>1. pass' = [pass EXCEPT ![q] = new]
      BY <2>4 DEF To
    <3>2. new.use = pass[q].use /\ new.stage = "writing"
      BY <2>1
    <3> HIDE DEF new
    <3> QED
      BY <2>2, <3>1, <3>2, <1>3 DEF Others
  <2>5. CASE To(q, "trial") /\ Consistent(pass[q].use.card)
    <3> DEFINE new == [pass[q] EXCEPT !.stage = "trial"]
    <3>1. pass' = [pass EXCEPT ![q] = new]
      BY <2>5 DEF To
    <3>2. new.use = pass[q].use
      BY <2>1
    <3> HIDE DEF new
    <3> QED
      BY <2>2, <2>5, <3>1, <3>2, <1>3 DEF Others
  <2>6. CASE Advance(q)
    <3> DEFINE new == [pass[q] EXCEPT !.stage = "claiming", !.n = pass[q].n + 1]
    <3>1. pass' = [pass EXCEPT ![q] = new]
      <4>1. new = [pass[q] EXCEPT !.n = @ + 1, !.stage = "claiming"]
        BY <2>1
      <4> QED
        BY <2>6, <4>1 DEF Advance
    <3>2. new.use = pass[q].use /\ new.stage = "claiming"
      BY <2>1
    <3> HIDE DEF new
    <3> QED
      BY <2>2, <3>1, <3>2, <1>3 DEF Others
  <2> QED
    BY <1>2, <2>3, <2>4, <2>5, <2>6 DEF PassStep, Create, Write, Accept, Refuse, OpenItems, Measure, Report, Die
<1> QED
  BY <1>1, <1>2, <1>3

\* The builds change while nothing runs, the suite while no trial does.
LEMMA Protected ==
  ASSUME [Next]_vars
  PROVE  /\ builds' # builds => UNCHANGED pass /\ \A p \in DOMAIN pass : pass[p].stage = "ended"
         /\ shown' # shown => UNCHANGED pass /\ \A p \in DOMAIN pass : ~Stage(p, "trial")
BY DEF Next, PassStep, vars, assessVars, labelVars, disk, Start, Create, Write, Accept, Refuse,
   OpenItems, Measure, Report, Die, Rebuild, Edit, Label, LabelStep, Build, Return, Import, Merge,
   EditSuite, Freeze, Live

\* A pass goes on running where it began, a trial on what it began with.
LEMMA StepRunsOn ==
  IInv /\ JournalOK /\ FrozenFirst /\ PassesRunOn /\ [Next]_vars => PassesRunOn'
<1> SUFFICES ASSUME IInv, JournalOK, FrozenFirst, PassesRunOn, [Next]_vars,
                    NEW p \in DOMAIN pass', pass'[p].stage # "ended"
             PROVE  /\ builds' = Cards[pass'[p].use.card].finalist.identity.builds
                    /\ pass'[p].stage = "trial" =>
                         /\ Resolvable(pinned'[pass'[p].use.card], ItemsOf(pass'[p].use.card))
                         /\ shown' = pinned'[pass'[p].use.card].saw
  BY DEF PassesRunOn, Stage, Consistent, SameBodies, ItemsOf
<1> DEFINE Passes == [stage : {"ended"}] \cup
             [stage : {"claiming", "writing", "trial"}, use : Uses, resume : BOOLEAN, n : Nat \ {0}]
<1>0. pass \in Seq(Passes)
  BY DEF IInv, TypeOK
<1> HIDE DEF Passes
<1>1. CASE \E r \in Requests : Start(r)
  <2>1. PICK r \in Requests : Start(r)
    BY <1>1
  <2> DEFINE new == [use |-> [card |-> r.card, out |-> r.out, builds |-> builds],
                     resume |-> r.resume, stage |-> "claiming", n |-> 1]
  <2>2. /\ pass' = Append(pass, new) /\ UNCHANGED <<builds, pinned, shown>>
        /\ builds = Cards[r.card].finalist.identity.builds
    BY <2>1 DEF Start, Admissible, SameExperiment, labelVars
  <2>3. new.use.card = r.card /\ new.stage = "claiming"
    OBVIOUS
  <2> HIDE DEF new
  <2>4. pass'[p] = new \/ (p \in DOMAIN pass /\ pass'[p] = pass[p])
    BY <1>0, <2>2
  <2> QED
    BY <2>2, <2>3, <2>4 DEF PassesRunOn, Stage, Consistent, SameBodies
<1>2. CASE ~\E r \in Requests : Start(r)
  <2>1. /\ p \in DOMAIN pass /\ pass[p].stage # "ended" /\ pass'[p].use = pass[p].use
        /\ pass'[p].stage = "trial" => Stage(p, "trial") \/ (Consistent(pass[p].use.card) /\ ~UNCHANGED pass)
    <3>1. CASE UNCHANGED pass
      BY <3>1 DEF Stage
    <3>2. CASE \E q \in DOMAIN pass : PassStep(q)
      <4>1. PICK q \in DOMAIN pass : PassStep(q)
        BY <3>2
      <4> QED
        BY <3>1, <4>1, PassMoves DEF Others, Stage
    <3> QED
      BY <1>2, <3>1, <3>2 DEF Next, vars, assessVars, Rebuild, Edit, Label, Freeze
  <2>2. builds' = builds
    BY <2>1, Protected
  <2>3. /\ pass[p].use.card \in Names
        /\ pinned'[pass[p].use.card] = pinned[pass[p].use.card]
    <3>1. pass[p].use.card \in Names
      BY <2>1, LivePass DEF IInv
    <3> QED
      BY <2>1, <3>1, PinnedStays DEF FrozenFirst
  <2>4. ASSUME pass'[p].stage = "trial"
        PROVE  /\ Resolvable(pinned[pass[p].use.card], ItemsOf(pass[p].use.card))
               /\ shown' = pinned[pass[p].use.card].saw
    BY <2>1, <2>4, Protected DEF PassesRunOn, Consistent, SameBodies
  <2> QED
    BY <2>1, <2>2, <2>3, <2>4 DEF PassesRunOn
<1> QED
  BY <1>1, <1>2

\* A journal keeps what it holds, and the next row is measured by a pass that
\* runs on the same.
LEMMA StepRows ==
  IInv /\ JournalOK /\ FrozenFirst /\ PassesRunOn /\ RowsRanOn /\ [Next]_vars => RowsRanOn'
<1> SUFFICES ASSUME IInv, JournalOK, FrozenFirst, PassesRunOn, RowsRanOn, [Next]_vars,
                    NEW use \in Uses, NEW n \in DOMAIN journal'[use]
             PROVE  /\ pinned'[use.card] # None
                    /\ Resolvable(pinned'[use.card], ItemsOf(use.card))
                    /\ journal'[use][n].shown = pinned'[use.card].saw
                    /\ journal'[use][n].builds = Cards[use.card].finalist.identity.builds
  BY DEF RowsRanOn
<1> DEFINE RanOn(row) == /\ pinned[use.card] # None
                         /\ Resolvable(pinned[use.card], ItemsOf(use.card))
                         /\ row.shown = pinned[use.card].saw
                         /\ row.builds = Cards[use.card].finalist.identity.builds
<1>1. use.card \in Names /\ \A m \in DOMAIN journal[use] : RanOn(journal[use][m])
  BY DEF Uses, RowsRanOn
<1>2. pinned[use.card] # None => pinned'[use.card] = pinned[use.card]
  BY <1>1, PinnedStays
<1>3. RanOn(journal'[use][n])
  <2>1. ASSUME NEW p \in DOMAIN pass, Measure(p) PROVE RanOn(journal'[use][n])
    <3>1. CASE use = pass[p].use
      <4>1. PICK row \in Row : /\ journal'[use] = Append(journal[use], row)
                               /\ row.shown = shown /\ row.builds = builds
        BY <2>1, <3>1, MeasureJournal
      <4>2. Stage(p, "trial") /\ pass[p].stage # "ended"
        BY <2>1 DEF Measure, Stage
      <4>3. RanOn(row)
        BY <1>1, <3>1, <4>1, <4>2 DEF PassesRunOn, FrozenFirst, Consistent, SameBodies
      <4>4. journal[use] \in Seq(Row)
        BY DEF JournalOK
      <4> HIDE DEF RanOn
      <4> QED
        BY <1>1, <4>1, <4>3, <4>4
    <3>2. CASE use # pass[p].use
      <4>1. journal'[use] = journal[use]
        BY <2>1, <3>2, MeasureJournal
      <4> QED
        BY <1>1, <4>1
    <3> QED
      BY <3>1, <3>2
  <2>2. CASE ~\E p \in DOMAIN pass : Measure(p)
    <3>1. journal' = journal
      BY <2>2 DEF Next, PassStep, vars, assessVars, disk, Start, Create, Write, Accept, Refuse, OpenItems,
         Report, Die, Rebuild, Edit, Label, Freeze
    <3> QED
      BY <1>1, <3>1
  <2> QED
    BY <2>1, <2>2
<1> QED
  BY <1>2, <1>3

\* Labels, pins, passes and journals stay in step with what people judged.
LEMMA ScoreInvariant == Spec => [](IInv /\ VerdictInv /\ ScoreInv)
<1>1. VerdictInv /\ IInv /\ ScoreInv /\ [Next]_vars => ScoreInv'
  BY StepLabels, StepPinned, StepRunsOn, StepRows DEF ScoreInv, VerdictInv, JournalOK
<1> QED
  BY <1>1, InitScore, VerdictInvariant, PTL DEF Spec

\* A recommendation scored records of the finalist's builds on the files its
\* labels are about, against what the people who saw those files found
\* acceptable, wherever they agreed.
THEOREM ScoredAsJudged == Spec => []ScoredOnWhatPeopleJudged
<1>1. ASSUME IInv, VerdictInv, ScoreInv PROVE ScoredOnWhatPeopleJudged
  <2> SUFFICES ASSUME NEW use \in Uses, NEW n \in DOMAIN journal[use]
               PROVE  LET file == pinned[use.card]
                          row == journal[use][n]
                          item == Cards[use.card].items[(n + 1) \div 2]
                      IN /\ row.shown = file.saw
                         /\ row.builds = Cards[use.card].finalist.identity.builds
                         /\ (/\ \A by \in DOMAIN file.votes : item \in DOMAIN Opinion[by][row.shown]
                             /\ \A a, b \in DOMAIN file.votes :
                                  Opinion[a][row.shown][item] = Opinion[b][row.shown][item])
                            => \A by \in DOMAIN file.votes :
                                 Resolved(file, item) = Opinion[by][row.shown][item]
    BY DEF ScoredOnWhatPeopleJudged
  <2> DEFINE file == pinned[use.card]
             row == journal[use][n]
             item == Cards[use.card].items[(n + 1) \div 2]
  <2>1. use.card \in Names
    BY DEF Uses
  <2>2. /\ file # None /\ Resolvable(file, ItemsOf(use.card)) /\ row.shown = file.saw
        /\ row.builds = Cards[use.card].finalist.identity.builds
    BY <1>1 DEF ScoreInv, RowsRanOn
  <2>3. item \in ItemsOf(use.card)
    <3>1. journal[use] \in Seq(Row) /\ Len(journal[use]) <= Steps(use.card)
      BY <1>1 DEF VerdictInv, JournalOK
    <3>2. Len(Cards[use.card].items) \in Nat /\ DOMAIN Cards[use.card].items = 1..Len(Cards[use.card].items)
            /\ Steps(use.card) = 2 * Len(Cards[use.card].items)
      BY <2>1, StepsOf
    <3>3. n \in Nat /\ 1 <= n /\ n <= 2 * Len(Cards[use.card].items)
      BY <3>1, <3>2
    <3>4. (n + 1) \div 2 \in 1..Len(Cards[use.card].items)
      BY <3>2, <3>3
    <3> QED
      BY <3>2, <3>4 DEF ItemsOf, Range
  <2> HIDE DEF item
  <2>4. ASSUME \A by \in DOMAIN file.votes : item \in DOMAIN Opinion[by][file.saw]
        PROVE  \A by \in DOMAIN file.votes : file.votes[by][item] = Opinion[by][file.saw][item]
    BY <1>1, <2>1, <2>2, <2>3, <2>4 DEF ScoreInv, PinnedTrue, Resolvable
  <2>5. ASSUME \A by \in DOMAIN file.votes : item \in DOMAIN Opinion[by][file.saw],
               \A a, b \in DOMAIN file.votes : Opinion[a][file.saw][item] = Opinion[b][file.saw][item],
               NEW by \in DOMAIN file.votes
        PROVE  Resolved(file, item) = Opinion[by][file.saw][item]
    <3> HIDE DEF file
    <3>1. Agreed(file, item)
      BY <2>4, <2>5 DEF Agreed
    <3>2. (CHOOSE one \in DOMAIN file.votes : TRUE) \in DOMAIN file.votes
      BY <2>5
    <3> QED
      BY <2>4, <2>5, <3>1, <3>2 DEF Resolved
  <2> HIDE DEF file, row
  <2>6. row.shown = file.saw
    BY <2>2
  <2>7. (/\ \A by \in DOMAIN file.votes : item \in DOMAIN Opinion[by][row.shown]
         /\ \A a, b \in DOMAIN file.votes :
              Opinion[a][row.shown][item] = Opinion[b][row.shown][item])
        => \A by \in DOMAIN file.votes : Resolved(file, item) = Opinion[by][row.shown][item]
    BY <2>5, <2>6
  <2> QED
    BY <2>2, <2>7 DEF item, file, row
<1> QED
  BY <1>1, ScoreInvariant, PTL
=============================================================================
