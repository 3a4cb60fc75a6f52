------------------------------ MODULE MCPanel ------------------------------
(* Instances of Panel for TLC. *)
EXTENDS Panel

CONSTANT Named  \* the directory --out names

Run(kind, candidate, rule, pairs) ==
  [kind |-> kind, candidate |-> candidate, rule |-> rule, pairs |-> pairs]
Sweep(c) == Run("selected", c, "condorcet", << <<"A", "B">> >>)
Draw == Run("no_candidate", None, None, << <<"A", "A">> >>)
Consensus(c) == Run("selected", c, "consensus", <<>>)
Timeout == Run("judge_timeout", None, None, <<>>)

\* What each seed of each item may answer; i3 has no derived label.
MCDays == <<1, 31, 62>>
MCItems == {"i1", "i2", "i3"}
MCGold == [i1 |-> "c1", i2 |-> Abstain, i3 |-> None]
MCHarness ==
  [i1 |-> << {Sweep("c1"), Timeout}, {Sweep("c2")} >>,
   i2 |-> << {Draw}, {Draw} >>,
   i3 |-> << {Consensus("c2")}, {Timeout} >>]
\* The newer rule parts what was drawn.
MCResettle(run) == IF run = Draw THEN Run("selected", "c2", "tie_break", run.pairs) ELSE run

\* Two people, the later by name first in the file, who changes an answer.
MCLabels ==
  << [item |-> "i3", by |-> 2, choice |-> "c1"], [item |-> "i3", by |-> 1, choice |-> "c2"],
     [item |-> "i1", by |-> 2, choice |-> "c1"], [item |-> "i2", by |-> 2, choice |-> "all_bad"],
     [item |-> "i1", by |-> 2, choice |-> "c2"] >>
MCRequests ==
  {[seeds |-> 2, labels |-> MCLabels, out |-> None, days |-> {1}, near |-> TRUE],
   [seeds |-> 1, labels |-> <<>>, out |-> Named, days |-> {31}, near |-> FALSE]}

\* One item, one seed, one answer: what counts is which document replaces which.
OneDay == <<1>>
OneItem == {"i1"}
OneGold == [i1 |-> "c1"]
OneHarness == [i1 |-> << {Sweep("c1")} >>]
OneRequest == {[seeds |-> 1, labels |-> <<>>, out |-> None, days |-> {1}, near |-> TRUE]}
=============================================================================
