---------------------------- MODULE DoctorCheck ----------------------------
(* The health check of a verifier (internal/doctor): checks over one task     *)
(* plan their verifications, run them side by side, conclude from the rows    *)
(* and write a report, and a later check may take the reference runs of an    *)
(* earlier report instead of running them. Checks run concurrently, may share *)
(* an output directory, are interrupted or killed, and the verifier's         *)
(* environment is edited under them.                                          *)
EXTENDS VerifierEnvironment, VerifyRunner, Functions

CONSTANTS
    Checks,          \* one number per check: its run identifier, in the order they begin
    Alone,           \* bound: the checks that run while no other does; the others overlap
                     \* in one directory, for in two they share nothing
    MaxEdits,        \* bound on the edits of the environment
    Dirs,            \* output directories
    Environments,    \* the environments the verifier may be in, a sequence
    EndingsUsed,     \* the endings of a verification this instance explores
    Onlys,           \* per check, the sets of --only selectors this instance explores
    Mutants,         \* the task's mutants, in the manifest's order
    ReferenceRuns,   \* doctor.reference_runs
    Kind, Requested, Explicit,   \* verify.kind, --parallel, and whether it was typed
    MinNum, MinDen   \* doctor.kill_rate_min as a fraction

ASSUME DoctorAssumption ==
    /\ Checks \subseteq Nat \ {0} /\ Alone \subseteq Checks /\ MaxEdits \in Nat
    /\ Environments \in Seq(Environment) /\ Environments # <<>>
    /\ EndingsUsed \subseteq Endings
    /\ Mutants \in Seq([expect : {"killed", "equivalent"}, origin : {"hand", "generated"},
                        applies : BOOLEAN])
    /\ ReferenceRuns \in Nat \ {0} /\ Requested \in Int
    /\ Kind \in {"exit-code", "band"} /\ Explicit \in BOOLEAN
    /\ MinNum \in Nat \ {0} /\ MinDen \in Nat \ {0} /\ MinNum <= MinDen

VARIABLES
    env,    \* what the verifier runs in now, by its place in Environments
    edits,  \* how often it was edited
    fs,     \* per directory, the result.json of each label and the check whose report it holds
    chk     \* the checks
vars == <<env, edits, fs, chk>>

DefaultParallel == 2
BandParallel == 1

(* How many verifications may run at once: a banded verifier measures         *)
(* latency, so it is held to one unless the caller typed the number.          *)
Parallel ==
    LET requested == IF Requested < 1 THEN DefaultParallel ELSE Requested
    IN IF Kind = "band" /\ requested > BandParallel /\ ~Explicit THEN BandParallel ELSE requested

(* A label is a kind and a number; number 0 stands for the whole group. The   *)
(* rows of a check are kept under their labels, which no two of them share.   *)
Reference(i) == <<"reference", i>>
Mutant(i) == <<"mutant", i>>
References == {Reference(i) : i \in 1..ReferenceRuns}
MutantLabels == {Mutant(i) : i \in DOMAIN Mutants}
IsMutant(label) == label[1] = "mutant"
MutantOf(label) == Mutants[label[2]]

(* The order of the plan: the reference runs, then the mutants.               *)
Before(a, b) == IF a[1] = b[1] THEN a[2] < b[2] ELSE IsMutant(b)

Names(selector, label) == selector = label \/ selector = <<label[1], 0>>
Matches(only, label) == only = {} \/ \E s \in only : Names(s, label)

NoCheck == 0

(* A function, and another for what the first says nothing of.                *)
Over(f, g) == [x \in DOMAIN f \cup DOMAIN g |-> IF x \in DOMAIN f THEN f[x] ELSE g[x]]

Unanswered == "unanswered"

NewRow(label) ==
    [from |-> NoCheck,
     status |-> IF IsMutant(label) /\ ~MutantOf(label).applies THEN "apply_failed" ELSE Unanswered]

(* The verifications of a check: the reference runs unless they are reused,   *)
(* and the mutants, as far as they are selected. A mutant that does not apply *)
(* on top of the reference is answered by the plan.                           *)
Planned(only, reused) ==
    {label \in (IF reused THEN {} ELSE References) \cup MutantLabels : Matches(only, label)}

Unmatched(only, reused) ==
    {s \in only : \A label \in Planned(only, reused) : ~Names(s, label)}

ReferenceRows(rows) == Restrict(rows, {label \in DOMAIN rows : ~IsMutant(label)})

Reused_Remarked(earlier, all) ==
    LET rows == ReferenceRows(all)
    IN [label \in DOMAIN rows |-> [rows[label] EXCEPT !.from = earlier]]

(* The reference rows of an earlier report, marked with the check that ran    *)
(* them, which is not the report they are read from when that one reused them *)
(* too.                                                                       *)
Reused(earlier, all) ==
    LET rows == ReferenceRows(all)
    IN [label \in DOMAIN rows |->
          [rows[label] EXCEPT !.from = IF @ = NoCheck THEN earlier ELSE @]]

OutcomeOf(label, status) ==
    CASE ~IsMutant(label)   -> "none"
      [] status = "fail"    -> "killed"
      [] status = "pass"    -> "survived"
      [] OTHER              -> "inconclusive"

Killable(label) == IsMutant(label) /\ MutantOf(label).expect = "killed"

(* The mutants of a report with an outcome, the killable ones apart.          *)
With(rows, outcome) ==
    {label \in DOMAIN rows : IsMutant(label) /\ OutcomeOf(label, rows[label].status) = outcome}
KillableWith(rows, outcome) == {label \in With(rows, outcome) : Killable(label)}

(* The counts of a report. A mutant declared equivalent is counted apart.     *)
Aggregate(rows) ==
    LET references == {label \in DOMAIN rows : ~IsMutant(label)}
    IN [references   |-> Cardinality(references),
        failures     |-> Cardinality({label \in references : rows[label].status = "fail"}),
        unknown      |-> Cardinality({label \in references : rows[label].status \notin {"pass", "fail"}}),
        killed       |-> Cardinality(KillableWith(rows, "killed")),
        survived     |-> Cardinality(KillableWith(rows, "survived")),
        inconclusive |-> Cardinality(KillableWith(rows, "inconclusive"))]

Measured(a) == a.killed + a.survived > 0

(* A rate is evidence only where some reference run was accepted and none     *)
(* was rejected.                                                              *)
Meaningful(a) == a.failures = 0 /\ a.unknown < a.references

HandSurvivor(rows) ==
    \E label \in KillableWith(rows, "survived") : MutantOf(label).origin = "hand"

InconclusiveEquivalent(rows) == \E label \in With(rows, "inconclusive") : ~Killable(label)

Verdict_Rated(rows) ==
    LET a == Aggregate(rows)
    IN IF a.failures > 0 \/ HandSurvivor(rows) THEN "unhealthy"
       ELSE IF ~Meaningful(a) \/ ~Measured(a) THEN "inconclusive"
       ELSE IF a.killed * MinDen < MinNum * (a.killed + a.survived) THEN "unhealthy" ELSE "healthy"

(* The verdict, in the order of severity.                                     *)
Verdict(rows) ==
    LET a == Aggregate(rows)
    IN IF a.failures > 0 \/ HandSurvivor(rows) THEN "unhealthy"
       ELSE IF ~Meaningful(a) THEN "inconclusive"
       ELSE IF Measured(a) /\ a.killed * MinDen < MinNum * (a.killed + a.survived) THEN "unhealthy"
       ELSE IF ~Measured(a) \/ a.unknown > 0 \/ a.inconclusive > 0 \/ InconclusiveEquivalent(rows)
       THEN "inconclusive" ELSE "healthy"

(* A killed mutant of a check whose rate is no evidence carries a note.       *)
Annotated(rows) == IF Meaningful(Aggregate(rows)) THEN {} ELSE With(rows, "killed")

-----------------------------------------------------------------------------
NotStarted == [pc |-> "idle"]

Init ==
    /\ env = 1 /\ edits = 0
    /\ fs = [d \in Dirs |-> [results |-> <<>>, report |-> NoCheck]]
    /\ chk = [c \in Checks |-> NotStarted]

Verifying(c) == chk[c].pc = "verifying"

Refuse(c) == chk' = [chk EXCEPT ![c] = [pc |-> "refused"]]

(* A check starts in a directory without a report, under its selectors, with  *)
(* or without an earlier report whose reference runs it reuses.               *)
Begin(c, d, only, earlier) ==
    LET reuse == earlier # NoCheck
        refused ==
           \/ fs[d].report # NoCheck
           \/ reuse /\ Reference(0) \in only
           \/ reuse /\ Fingerprint(Environments[chk[earlier].at]) # Fingerprint(Environments[env])
           \/ reuse /\ DOMAIN ReferenceRows(chk[earlier].rows) = {}
           \/ Unmatched(only, reuse) # {}
        reused == IF reuse THEN Reused(earlier, chk[earlier].rows) ELSE <<>>
        planned == [label \in Planned(only, reuse) |-> NewRow(label)]
    IN /\ chk[c].pc = "idle" /\ \A b \in Checks : b < c => chk[b].pc # "idle"
       /\ \A b \in Checks : Verifying(b) => {b, c} \cap Alone = {} /\ chk[b].dir = d
       /\ IF refused THEN Refuse(c)
          ELSE chk' = [chk EXCEPT ![c] =
                 [pc |-> "verifying", dir |-> d, at |-> env, running |-> {},
                  cancelled |-> FALSE,
                  rows |-> Over(reused, planned)]]
       /\ UNCHANGED <<env, edits, fs>>

Written == {fs[d].report : d \in Dirs} \ {NoCheck}

Open(c) == {label \in DOMAIN chk[c].rows : chk[c].rows[label].status = Unanswered}

(* The next planned verification takes a ticket. The rows are filled in       *)
(* place, in whatever order the verifications end.                            *)
Launch(c) ==
    /\ Verifying(c) /\ Cardinality(chk[c].running) < Parallel
    /\ \E label \in Open(c) \ chk[c].running :
          /\ \A other \in Open(c) \ chk[c].running : other = label \/ Before(label, other)
          /\ chk' = [chk EXCEPT ![c].running = @ \cup {label}]
    /\ UNCHANGED <<env, edits, fs>>

(* How `cmoa verify` may end: it does not run at all under a cancelled        *)
(* context or over an existing result.json, and otherwise leaves one.         *)
EndingsOf(c, label) ==
    IF chk[c].cancelled \/ label \in DOMAIN fs[chk[c].dir].results THEN {"nothing"} ELSE EndingsUsed

ResultOf(ending) == IF ending = "pass_and_failed" THEN "pass" ELSE ending

Answer(c, label, ending) ==
    /\ Verifying(c) /\ label \in chk[c].running /\ ending \in EndingsOf(c, label)
    /\ chk' = [chk EXCEPT ![c].running = @ \ {label}, ![c].rows[label].status = StatusOf(ending)]
    /\ fs' = [fs EXCEPT ![chk[c].dir].results =
                IF ending \in {"nothing", "garbled", "mislabelled"} THEN @
                ELSE Over(@, [l \in {label} |-> ResultOf(ending)])]
    /\ UNCHANGED <<env, edits>>

(* Every row is answered: the report is written over whatever is there. What  *)
(* it says is kept with the check, and the directory names the check.         *)
Conclude(c) ==
    /\ Verifying(c) /\ Open(c) = {}
    /\ fs' = [fs EXCEPT ![chk[c].dir].report = c]
    /\ chk' = [chk EXCEPT ![c] = [pc |-> "written", at |-> chk[c].at, rows |-> chk[c].rows,
                                  running |-> {}, verdict |-> Verdict(chk[c].rows),
                                  noted |-> Annotated(chk[c].rows)]]
    /\ UNCHANGED <<env, edits>>

(* An interrupt or --timeout cancels the context the verifications run under. *)
Cancel(c) ==
    /\ Verifying(c) /\ ~chk[c].cancelled
    /\ chk' = [chk EXCEPT ![c].cancelled = TRUE]
    /\ UNCHANGED <<env, edits, fs>>

Die(c) ==
    /\ Verifying(c)
    /\ chk' = [chk EXCEPT ![c] = [pc |-> "dead"]]
    /\ UNCHANGED <<env, edits, fs>>

Edit ==
    /\ edits < MaxEdits /\ edits' = edits + 1
    /\ env' \in DOMAIN Environments \ {env} /\ UNCHANGED <<fs, chk>>

CheckStep(c) ==
    \/ Launch(c) \/ Conclude(c)
    \/ \E label \in DOMAIN chk[c].rows, e \in EndingsUsed \cup {"nothing"} : Answer(c, label, e)

Next ==
    \/ \E c \in Checks : \E d \in Dirs, only \in Onlys[c], earlier \in Written \cup {NoCheck} : Begin(c, d, only, earlier)
    \/ \E c \in Checks : Verifying(c) /\ CheckStep(c)
    \/ \E c \in Checks : Cancel(c) \/ Die(c)
    \/ Edit

Spec == Init /\ [][Next]_vars

-----------------------------------------------------------------------------
(* The shape of the rows, of a check and of an output directory: a written    *)
(* check has no row unanswered.                                               *)
Row == [from : Checks \cup {NoCheck}, status : Statuses \cup {Unanswered}]
Rows == UNION {[labels -> Row] : labels \in SUBSET (References \cup MutantLabels)}

TypeOK ==
    /\ env \in DOMAIN Environments /\ edits \in 0..MaxEdits
    /\ \A d \in Dirs : fs[d].report \in Checks \cup {NoCheck}
    /\ \A c \in Checks :
          /\ chk[c].pc \in {"idle", "refused", "verifying", "written", "dead"}
          /\ chk[c].pc \in {"verifying", "written"} =>
                chk[c].rows \in Rows /\ chk[c].running \subseteq Open(c)
          /\ chk[c].pc = "written" => Open(c) = {}

(* A pass or a fail in a report is the answer of the verification of that     *)
(* label in the report's own directory, in whatever order the goroutines      *)
(* ended and whoever else writes there (doctor.go, verify).                   *)
RowsAreResults ==
    \A d \in Dirs : fs[d].report # NoCheck =>
        LET rows == chk[fs[d].report].rows
        IN \A label \in DOMAIN rows :
              rows[label].from = NoCheck /\ rows[label].status \in {"pass", "fail"} =>
                  /\ label \in DOMAIN fs[d].results
                  /\ fs[d].results[label] = rows[label].status

(* A healthy report stands on measurement alone: some reference run passed    *)
(* and none did otherwise, every mutant it holds was answered, none a person  *)
(* wrote survived, and the rejected ones reach the task's rate (verdict).     *)
HealthyMeansMeasured ==
    \A c \in Written : chk[c].verdict = "healthy" =>
        LET rows == chk[c].rows
            status(label) == rows[label].status
            rejected == {label \in DOMAIN rows : Killable(label) /\ status(label) = "fail"}
            accepted == {label \in DOMAIN rows : Killable(label) /\ status(label) = "pass"}
        IN /\ \E label \in DOMAIN rows : ~IsMutant(label) /\ status(label) = "pass"
           /\ \A label \in DOMAIN rows :
                 status(label) = "pass" \/ (IsMutant(label) /\ status(label) = "fail")
           /\ \A label \in accepted : MutantOf(label).origin # "hand"
           /\ rejected # {}
           /\ Cardinality(rejected) * MinDen >= MinNum * (Cardinality(rejected) + Cardinality(accepted))

(* A reused reference run names the check that ran it, however often it has   *)
(* been reused since: that check holds the same row as its own, and where     *)
(* docker answered and the compose file could be read, its verifier was the   *)
(* one this check began with (reuse).                                         *)
ReuseNamesTheMeasurement ==
    \A c \in Written : \A label \in DOMAIN chk[c].rows : chk[c].rows[label].from # NoCheck =>
        LET row == chk[c].rows[label]
            then == Environments[chk[row.from].at]
        IN /\ label \in DOMAIN chk[row.from].rows
           /\ chk[row.from].rows[label] = [row EXCEPT !.from = NoCheck]
           /\ then.docker /\ then.compose # "unparsed"
                 => SameInstrument(then, Environments[chk[c].at])

(* What README.md:151-155 says of the reference runs: their number is the     *)
(* task's own, and no flag lowers it under a verdict.                         *)
HealthyOnEveryReferenceRun ==
    \A c \in Written : chk[c].verdict = "healthy" =>
        Cardinality(DOMAIN ReferenceRows(chk[c].rows)) >= ReferenceRuns
=============================================================================
