----------------------------- MODULE MCImprove -----------------------------
EXTENDS Improve

MCWords(name) == IF name = "" THEN <<>> ELSE <<name>>
MCSurfaceOf(path) ==
  CASE path = "SYSTEM.md" -> "system-prompt" [] path = "memory/n.md" -> "memory" [] OTHER -> "nowhere"

Candidate(status) ==
  [status |-> status, code |-> 0, overflow |-> FALSE, finish |-> "stop", files |-> {}]
Passed == [status |-> "pass", exit |-> 0, says |-> {}, breached |-> {}]
Trace(id, proposers, candidates, winner) ==
  [id |-> id, schema |-> "known", task |-> "web", files |-> {}, instruction |-> "gone",
   proposers |-> proposers, candidates |-> candidates, verifies |-> [p \in {winner} |-> Passed],
   selection |-> [kind |-> "selected", chosen |-> winner, also |-> {}]]

Two(id) == Trace(id, {"a", "b"}, [p \in {"a", "b"} |-> Candidate(IF p = "a" THEN "no_diff" ELSE "ok")], "b")
One(id) == Trace(id, {"b"}, [p \in {"b"} |-> Candidate("ok")], "b")
Foreign(id) == [Two(id) EXCEPT !.schema = "other"]

MCRecorded == <<Two("r1"), Foreign("r2"), Two("r3"), One("r4")>>
MCOpen == [status |-> "open", evidence |-> {}, reading |-> "mined"]
ByHandID == <<"by-hand">>
MCExisting == [id \in {<<"R1">>, ByHandID} |-> MCOpen]
ClosedBefore == [MCExisting EXCEPT ![<<"R1">>].status = "resolved"]

Answer(changes, text) == [status |-> "ok", applies |-> TRUE, changes |-> changes, text |-> text]
Prompt == Answer([x \in {"SYSTEM.md"} |-> "M"], "fine")
Note == Answer([x \in {"memory/n.md"} |-> "A"], "fine")
MCAnswers == {<<Prompt>>, <<Note, Answer([x \in {"memory/n.md"} |-> "D"], "fine"), Prompt>>}
MCAsks == {[kind |-> "mined", ids |-> {}], [kind |-> "named", ids |-> {<<"R1">>, ByHandID}]}
PassSymmetry == Permutations(Passes)
=============================================================================
