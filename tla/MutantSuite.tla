---------------------------- MODULE MutantSuite ----------------------------
(* The mutants of a task (internal/mutate, task.json): a generation reads the *)
(* suite, plans the mutations it does not hold, writes their diffs one by one *)
(* and then appends them to the manifest, which it truncates and fills. It    *)
(* may be killed anywhere and run again, and a person edits the suite too.    *)
EXTENDS Integers, Sequences, FiniteSets, Functions, FiniteSetsExt, SequencePicks

CONSTANTS
    Nodes,      \* the syntax nodes of the task's files, in source order
    Viable(_),  \* whether the mutation of a site compiles
    Maximum,    \* --max
    Hands,      \* the defects a person may declare by hand
    MaxRuns     \* bound on the generations

(* What the operators look at in a node: the kind, the operator token or      *)
(* literal, and whether the site is one the operators refuse (a "+" on        *)
(* strings, a constant of an array length or an iota block, a definition or a *)
(* statement sharing its line, a result whose zero nobody can name) or one    *)
(* the mutation leaves as it was.                                             *)
Node == [kind : {"binary", "if", "int", "stmt", "return"}, token : STRING,
         refused : BOOLEAN, same : BOOLEAN]

ASSUME SuiteAssumption ==
    /\ Nodes \in Seq(Node) /\ Maximum \in Nat \ {0} /\ MaxRuns \in Nat
    /\ \A s \in (1..Len(Nodes)) \X {"arith", "cond", "bound", "const", "stmt", "ret"} :
          Viable(s) \in BOOLEAN
    /\ <<0, "torn">> \notin Hands

VARIABLES
    manifest,  \* task.json: whether it is whole, and the diffs it declares
    files,     \* mutants/: what each diff holds
    gen,       \* the generation that runs
    runs       \* how many were started
suiteVars == <<manifest, files, gen, runs>>

AllOperators == <<"arith", "cond", "bound", "const", "stmt", "ret">>

ArithMap == {"+", "-", "*", "/"}
BoundMap == {"<", "<=", ">", ">=", "==", "!="}

(* Whether a node is a site of an operator.                                   *)
Answers(node, op) ==
    CASE op = "arith" -> node.kind = "binary" /\ node.token \in ArithMap /\ ~(node.token = "+" /\ node.refused)
      [] op = "bound" -> node.kind = "binary" /\ node.token \in BoundMap
      [] op = "cond"  -> node.kind = "if"
      [] op = "const" -> node.kind = "int" /\ ~node.refused
      [] op = "stmt"  -> node.kind = "stmt" /\ ~node.refused
      [] op = "ret"   -> node.kind = "return" /\ ~node.refused

(* The mutations in order of the source and then of the operators; a site     *)
(* whose mutation changes nothing is none.                                    *)
Site(g) == LET n == Len(AllOperators) IN <<1 + ((g - 1) \div n), AllOperators[1 + ((g - 1) % n)]>>
Sites == [g \in 1..Len(Nodes) * Len(AllOperators) |-> Site(g)]
Mutates(ops, s) == s[2] \in ops /\ Answers(Nodes[s[1]], s[2]) /\ ~Nodes[s[1]].same
Mutations(ops) == Picked(Sites, {g \in DOMAIN Sites : Mutates(ops, Sites[g])})

(* A diff's path opens with a number and names its site.                      *)
Number(path) == path[1]
Torn == <<0, "torn">>

Digests_Declared(m, fs) == {fs[p] : p \in Range(m) \cap DOMAIN fs}

(* The diffs the task already carries, whether its manifest m declares them   *)
(* or they only lie in the directory.                                         *)
Digests(m, fs) == {fs[p] : p \in (Range(m) \cap DOMAIN fs) \cup DOMAIN fs}

NextIndex(m, fs) == Max({0} \cup {Number(p) : p \in Range(m) \cup DOMAIN fs}) + 1

(* The new mutants: the mutations that compile and that no diff holds, at     *)
(* most Maximum of them, numbered on from the highest number taken.           *)
Generate(ops, m, fs) ==
    LET offered == Mutations(ops)
        fresh == Picked(offered, {i \in DOMAIN offered : Viable(offered[i]) /\ offered[i] \notin Digests(m, fs)})
        cut == IF Len(fresh) < Maximum THEN Len(fresh) ELSE Maximum
    IN [i \in 1..cut |-> <<NextIndex(m, fs) + i - 1, fresh[i]>>]

-----------------------------------------------------------------------------
Resting == [pc |-> "idle"]

SuiteInit ==
    /\ manifest = [whole |-> TRUE, mutants |-> <<>>] /\ files = <<>>
    /\ gen = Resting /\ runs = 0

(* The task is loaded and the plan made from it and from the directory.       *)
Start(ops) ==
    LET plan == Generate(ops, manifest.mutants, files)
    IN /\ gen.pc = "idle" /\ runs < MaxRuns /\ manifest.whole
       /\ runs' = runs + 1
       /\ gen' = IF plan = <<>> THEN [pc |-> "covered", ops |-> ops]
                 ELSE [pc |-> "writing", plan |-> plan, done |-> 0]
       /\ UNCHANGED <<manifest, files>>

Acknowledge == gen.pc = "covered" /\ gen' = Resting /\ UNCHANGED <<manifest, files, runs>>

Put(path, body) == files' = [p \in DOMAIN files \cup {path} |-> IF p = path THEN body ELSE files[p]]

WriteDiff ==
    /\ gen.pc = "writing" /\ gen.done < Len(gen.plan)
    /\ Put(gen.plan[gen.done + 1], gen.plan[gen.done + 1][2])
    /\ gen' = [gen EXCEPT !.done = @ + 1]
    /\ UNCHANGED <<manifest, runs>>

AllWritten_First(g) == g.pc = "writing" /\ g.done = 0

AllWritten(g) == g.pc = "writing" /\ g.done = Len(g.plan)

(* All diffs written: the manifest is read again, and what it is to say now   *)
(* is the entries of this run after what is there.                            *)
Reread ==
    /\ AllWritten(gen) /\ manifest.whole
    /\ gen' = [pc |-> "filling", declare |-> manifest.mutants \o gen.plan, plan |-> gen.plan]
    /\ UNCHANGED <<manifest, files, runs>>

Truncate ==
    /\ gen.pc = "filling" /\ manifest.whole
    /\ manifest' = [whole |-> FALSE, mutants |-> manifest.mutants]
    /\ UNCHANGED <<files, gen, runs>>

Fill ==
    /\ gen.pc = "filling" /\ ~manifest.whole
    /\ manifest' = [whole |-> TRUE, mutants |-> gen.declare] /\ gen' = Resting
    /\ UNCHANGED <<files, runs>>

(* The process dies, between two writes or inside the one of a diff.          *)
GenerationDies ==
    /\ gen.pc \in {"writing", "filling"} /\ gen' = Resting
    /\ \/ UNCHANGED files
       \/ /\ gen.pc = "writing" /\ gen.done < Len(gen.plan)
          /\ Put(gen.plan[gen.done + 1], Torn)
    /\ UNCHANGED <<manifest, runs>>

(* A person puts back the manifest a dead process left truncated, and adds a  *)
(* defect of their own under a number of their own.                           *)
PutBack ==
    /\ gen.pc = "idle" /\ ~manifest.whole
    /\ manifest' = [manifest EXCEPT !.whole = TRUE]
    /\ UNCHANGED <<files, gen, runs>>

ByHand(site) ==
    LET path == <<NextIndex(manifest.mutants, files), site>>
    IN /\ gen.pc \in {"idle", "writing"} /\ manifest.whole
       /\ site \notin Range(files) /\ \A p \in DOMAIN files : p[2] # site
       /\ gen.pc = "writing" => \A i \in DOMAIN gen.plan : gen.plan[i][2] # site
       /\ Put(path, site)
       /\ manifest' = [manifest EXCEPT !.mutants = Append(@, path)]
       /\ UNCHANGED <<gen, runs>>

SuiteNext ==
    \/ \E ops \in {Range(AllOperators), {"arith", "cond"}} : Start(ops)
    \/ Acknowledge \/ WriteDiff \/ Reread \/ Truncate \/ Fill \/ GenerationDies
    \/ PutBack \/ \E site \in Hands : ByHand(site)

SuiteSpec == SuiteInit /\ [][SuiteNext]_suiteVars

-----------------------------------------------------------------------------
SuiteTypeOK ==
    /\ DOMAIN manifest = {"whole", "mutants"} /\ manifest.whole \in BOOLEAN
    /\ gen.pc \in {"idle", "covered", "writing", "filling"} /\ runs \in 0..MaxRuns

(* However often a generation is killed and run again, no defect is in the    *)
(* suite twice: an orphan of an earlier run counts as held (digests).         *)
NoDefectTwice ==
    \A p, q \in DOMAIN files : p # q /\ files[p] # Torn => files[p] # files[q]

(* What the manifest declares is on disk, whole, and is declared once, so the *)
(* task loads and every declared mutant can be verified (Write, then the      *)
(* manifest; task.Load refuses a path twice).                                 *)
DeclaredIsWhole ==
    manifest.whole =>
        /\ \A i \in DOMAIN manifest.mutants :
              manifest.mutants[i] \in DOMAIN files /\ files[manifest.mutants[i]] # Torn
        /\ IsInjective(manifest.mutants)

(* What cmd/uzushio/mutate.go:90 tells the person who ran it: no new mutants, *)
(* because every site the operators found is covered - by a mutant the suite  *)
(* declares, for doctor verifies no other.                                    *)
CoveredMeansDeclared ==
    gen.pc = "covered" =>
        \A s \in Range(Mutations(gen.ops)) :
            Viable(s) => \E p \in Range(manifest.mutants) : p \in DOMAIN files /\ files[p] = s
=============================================================================
