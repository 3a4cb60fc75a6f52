----------------------------- MODULE MCHarness -----------------------------
(* Instances of Harness for TLC: nine edits over three paths. *)
EXTENDS Harness

Prompt == "system-prompt.md"
Note == "memory/n.md"
Skill == "skills/x/SKILL.md"
MCSurfaceOf(path) ==
  CASE path = Prompt -> "system-prompt" [] path = Note -> "memory" [] path = Skill -> "skill" [] OTHER -> "nowhere"
MCWalk == <<Note, "render.json", Skill, Prompt>>

Change(how, needs, removes, adds) ==
  [how |-> how, mode |-> "regular", needs |-> needs, removes |-> removes, adds |-> adds]
ByDiff(diff) ==
  [component |-> "system-prompt", paths |-> {Prompt}, touches |-> {"system-prompt"},
   sidecar |-> TRUE, text |-> {}, diff |-> diff]
ByText(path, text) ==
  [component |-> MCSurfaceOf(path), paths |-> {path}, touches |-> {MCSurfaceOf(path)},
   sidecar |-> FALSE, text |-> text, diff |-> EmptyTree]

Creates == [path \in {Prompt} |-> Change("A", {}, {}, {"p"})]
Rewords == [path \in {Prompt} |-> Change("M", {"p"}, {"p"}, {"q"})]
Extends == [path \in {Prompt} |-> Change("M", {"p"}, {}, {"r"})]
Smuggles == [path \in {Prompt, Skill} |->
              IF path = Prompt THEN Change("M", {"r"}, {}, {"s"}) ELSE Change("A", {}, {}, {"t"})]
Links == [path \in {Prompt} |-> [Change("M", {}, {}, {"l"}) EXCEPT !.mode = "link"]]

MCDocuments ==
  <<ByDiff(Creates), ByDiff(Rewords), ByDiff(Extends), ByText(Note, {"n"}), ByText(Note, {"m"}),
    ByText(Skill, {"heading"}), ByDiff(Smuggles), ByText(Skill, {"heading", "line"}), ByDiff(Links)>>
MCHeadings == {"heading"}
MCDecided == {1, 3, 4}

RunOf(e) == [kind |-> "run", edit |-> e]
RenderWith(with, without, force) == [kind |-> "render", with |-> with, without |-> without, force |-> force]
MCJobs == {RunOf(e) : e \in {2, 5, 7, 8}}
          \cup {RenderWith({}, {}, TRUE), RenderWith({8}, {4}, FALSE), RenderWith({6}, {}, TRUE),
                RenderWith({}, {2}, FALSE), RenderWith({2, 9}, {3}, TRUE)}
=============================================================================
