---------------------------- MODULE ProposeEdit ----------------------------
(***************************************************************************)
(* How one proposer's answer becomes an edit or a refusal                  *)
(* (internal/proposeedit/edit.go: Convert; internal/doc/edit.go:           *)
(* CheckPaths; internal/surfaces).  An answer is a record: its status and  *)
(* what its diff does to a copy of the rendered harness: whether it        *)
(* applies, how it changes each path, and the text it leaves.              *)
(***************************************************************************)
EXTENDS FiniteSets

CONSTANT SurfaceOf(_)  \* the surface a path belongs to by its shape, or "nowhere"

Injectable == {"system-prompt", "memory", "skill"}
AutoAccept == {"memory", "skill"}

\* Applied, the diff is read back from git: per path, how it changed.
Representable(changes) ==
  /\ DOMAIN changes # {}
  /\ \A path \in DOMAIN changes : changes[path] \in {"A", "M"}

Surfaces(changes) == {SurfaceOf(path) : path \in DOMAIN changes}
Classified(changes) == Cardinality(Surfaces(changes)) = 1 /\ Surfaces(changes) \subseteq Injectable
Component(changes) == CHOOSE s \in Surfaces(changes) : TRUE

\* A memory or a skill edit is the whole text of the one file it owns; a
\* system-prompt edit keeps its diff beside it.
CheckPaths(component, changes) ==
  component = "system-prompt" \/ Cardinality(DOMAIN changes) = 1

Converts(answer) ==
  /\ answer.status = "ok" /\ answer.applies
  /\ Representable(answer.changes)
  /\ Classified(answer.changes)
  /\ LET component == Component(answer.changes)
     IN /\ component = "system-prompt" \/ answer.text \notin {"empty", "tab"}
        /\ CheckPaths(component, answer.changes)

Proposal(answer) ==
  LET component == Component(answer.changes)
  IN [component |-> component,
      sidecar   |-> component = "system-prompt",
      approval  |-> IF component \in AutoAccept THEN "auto" ELSE "human",
      paths     |-> DOMAIN answer.changes,
      text      |-> answer.text]
=============================================================================
