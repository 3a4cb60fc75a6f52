----------------------------- MODULE MineRules -----------------------------
(***************************************************************************)
(* What the miner reads in recorded runs (internal/mine/trace.go: Load;   *)
(* rules.go: the rules; mine.go: Mine).  A rule is a predicate over one    *)
(* run; what fires is clustered by exact agreement on rule, task and key,  *)
(* and a cluster with enough support becomes a pattern.                    *)
(*                                                                         *)
(* A run is a record: its id, schema, task, the files the task listed,     *)
(* what its instruction says of tests ("gone" when the task directory is), *)
(* its proposers, a candidate per proposer that answered, a verification   *)
(* per candidate that was verified, and the selection.                     *)
(***************************************************************************)
EXTENDS Naturals, FiniteSets, Sequences, TLC

CONSTANTS
  TestFiles,    \* the paths that end in _test.go
  Words(_),     \* the words slugify makes of a task's or an invariant's name
  MinRuns,      \* --min-support
  MinProposers  \* --min-proposers

\* A schema this build does not know is passed over; a run that does not
\* decode stops the whole pass.
Decodes(runs) == \A r \in runs : r.schema # "torn"
Load(runs) == {r \in runs : r.schema = "known"}

Asked(r, Is(_)) == {p \in DOMAIN r.candidates : Is(r.candidates[p])}
Judged(r, Is(_)) == {p \in DOMAIN r.candidates \cap DOMAIN r.verifies : Is(r.verifies[p])}

\* A 4xx is the server refusing a request the harness built; anything else
\* that went wrong on the wire is counted and never written down.
Rejected(c) == c.status = "http_error" /\ c.code \in 400..499
Unreachable(c) == c.status = "http_error" /\ ~ Rejected(c)

Reason(c) ==
  IF c.overflow THEN "context-length"
  ELSE CASE c.code = 413 -> "payload-too-large"
         [] c.code = 429 -> "rate-limited"
         [] c.code \in {401, 403} -> "not-authorised"
         [] OTHER -> "http-" \o ToString(c.code)

\* One apply failure prints several messages and is read once.
ApplyOrder == <<"R3", "R4", "R5">>
ApplyReading(says) ==
  LET read == {i \in DOMAIN ApplyOrder : ApplyOrder[i] \in says}
  IN IF read = {} THEN "none" ELSE ApplyOrder[CHOOSE i \in read : \A j \in read : i <= j]

ApplyFailed(r, rule) ==
  Judged(r, LAMBDA v : v.status = "apply_failed" /\ ApplyReading(v.says) = rule)

Disagreement(r) ==
  IF Judged(r, LAMBDA v : v.status = "pass") = {} THEN {}
  ELSE Judged(r, LAMBDA v : v.status = "fail" /\ v.exit # 0)

NoCandidate(r) ==
  LET ok == Asked(r, LAMBDA c : c.status = "ok")
  IN IF /\ r.selection.kind = "no_candidate"
        /\ ok \subseteq Judged(r, LAMBDA v : v.status = "fail")
     THEN ok ELSE {}

EditsUnlisted(r) ==
  IF r.files = {} THEN {} ELSE Asked(r, LAMBDA c : ~ c.files \subseteq r.files)

EditsTests(r) ==
  IF r.instruction # "silent" THEN {} ELSE Asked(r, LAMBDA c : c.files \cap TestFiles # {})

SingleProposer(r) ==
  IF r.selection.kind = "selected" /\ r.selection.also = {}
  THEN {r.selection.chosen} \cap DOMAIN r.candidates ELSE {}

\* Who fires each rule that has one bucket per task, or one in all.
Fires(r) == [
  R1  |-> Asked(r, LAMBDA c : c.status = "no_diff"),
  R2  |-> Asked(r, LAMBDA c : c.status = "malformed"),
  R3  |-> ApplyFailed(r, "R3"), R4 |-> ApplyFailed(r, "R4"), R5 |-> ApplyFailed(r, "R5"),
  R6  |-> Disagreement(r),
  R7  |-> NoCandidate(r),
  R8  |-> Asked(r, LAMBDA c : c.status = "timeout"),
  R9  |-> Judged(r, LAMBDA v : v.status = "timeout"),
  R10 |-> Asked(r, LAMBDA c : c.status = "ok" /\ c.finish = "length"),
  R11 |-> EditsUnlisted(r),
  R12 |-> EditsTests(r),
  R13 |-> SingleProposer(r)]

TaskScoped == {"R3", "R4", "R5", "R6", "R7", "R9", "R11", "R12", "R13", "R14"}
MinPool(rule) == IF rule \in {"R6", "R7", "R13"} THEN 2 ELSE 0

Pool(r) == Cardinality(IF r.proposers = {} THEN DOMAIN r.candidates ELSE r.proposers)

\* Every firing in one run: the rule, the key of its bucket, the proposer.
Fired(r) ==
  UNION {{<<rule, "", p>> : p \in Fires(r)[rule]} : rule \in DOMAIN Fires(r)}
  \cup UNION {{<<"R14", i, p>> : i \in r.verifies[p].breached} : p \in Judged(r, LAMBDA v : TRUE)}
  \cup {<<"R16", Reason(r.candidates[p]), p>> : p \in Asked(r, Rejected)}

Observations(runs) ==
  UNION {{[signature |-> <<f[1], IF f[1] \in TaskScoped THEN r.task ELSE "", f[2]>>,
           run |-> r.id, proposer |-> f[3], pool |-> Pool(r)] : f \in Fired(r)} : r \in Load(runs)}

Signatures(runs) == {o.signature : o \in Observations(runs)}
Bucket(runs, s) == {o \in Observations(runs) : o.signature = s}
RunsOf(bucket) == {o.run : o \in bucket}

Supported_Counted(bucket) ==
  /\ Cardinality(bucket) >= MinRuns
  /\ Cardinality({o.proposer : o \in bucket}) >= MinProposers

\* A claim about the pool needs every run behind it to have had one.
Supported(bucket) ==
  /\ Cardinality(RunsOf(bucket)) >= MinRuns
  /\ Cardinality({o.proposer : o \in bucket}) >= MinProposers
  /\ LET rule == (CHOOSE o \in bucket : TRUE).signature[1]
     IN \A o \in bucket : o.pool >= MinPool(rule)

Mined(runs) == {s \in Signatures(runs) : Supported(Bucket(runs, s))}

\* The words of the three parts are joined by one hyphen, so two signatures
\* can share an identifier.
PatternID(s) == <<s[1]>> \o Words(s[2]) \o Words(s[3])
=============================================================================
