---------------------------- MODULE EditLifecycle ---------------------------
(***************************************************************************)
(* What the vault promises about one proposed edit: it is decided at most  *)
(* once, by a person or by a run, and a run decides it only after the      *)
(* measurement it decides on is on file.  EditRuns implements this         *)
(* specification with the files and the order `uzushio run` writes them    *)
(* in (internal/loop/loop.go: Run; internal/loop/record.go).               *)
(***************************************************************************)
EXTENDS AcceptanceRule

CONSTANT Runs

VARIABLES
  autonomy,  \* who may accept an edit to this surface
  status,    \* "damaged" when the document no longer reads
  filed,     \* per run: the results on file, or Nothing
  author     \* who decided it

lifeVars == <<autonomy, status, filed, author>>

Nothing == [split \in SplitNames |-> "none"]

LifeInit ==
  /\ autonomy \in Autonomies
  /\ status = "proposed"
  /\ filed = [r \in Runs |-> Nothing]
  /\ author = "nobody"

File(r) ==
  /\ status = "proposed"
  /\ filed[r] = Nothing
  /\ \E results \in [SplitNames -> Results] : filed' = [filed EXCEPT ![r] = results]
  /\ UNCHANGED <<autonomy, status, author>>

RunDecides(r) ==
  /\ status = "proposed"
  /\ filed[r] # Nothing
  /\ status' = StatusAfter(filed[r], autonomy, status)
  /\ status' # status
  /\ author' = r
  /\ UNCHANGED <<autonomy, filed>>

PersonDecides ==
  /\ status = "proposed"
  /\ status' \in {"accepted", "rejected", "withdrawn"}
  /\ author' = "person"
  /\ UNCHANGED <<autonomy, filed>>

\* A process dies in the middle of rewriting the document.
Damage ==
  /\ status = "proposed"
  /\ status' = "damaged"
  /\ UNCHANGED <<autonomy, filed, author>>

LifeNext == (\E r \in Runs : File(r) \/ RunDecides(r)) \/ PersonDecides \/ Damage

LifeSpec == LifeInit /\ [][LifeNext]_lifeVars
=============================================================================
