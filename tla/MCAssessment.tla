---------------------------- MODULE MCAssessment ----------------------------
(* Instances of Assessment for TLC. *)
EXTENDS Assessment

From(conversation, id, cluster) ==
  [conversation |-> conversation, source |-> "s", id |-> id, cluster |-> cluster]
\* A task of one turn, and three turns of another.
MCSources ==
  [i1 |-> From("x1", "1", "t1"), i2 |-> From("x2", "2", "t2"),
   i3 |-> From("x3", "3", "t2"), i4 |-> From("x4", "4", "t2")]

MCSetup == [seed |-> 1, conditions |-> [base |-> "old", candidate |-> "new"]]
MCBuilds == {[base |-> "g1", candidate |-> "g1"], [base |-> "g1", candidate |-> "g2"]}
Finalists == [base |-> "g1", candidate |-> "g1"]
Both(item, set) == {[item |-> item, set |-> set, side |-> side] : side \in Sides}
MCPlan == <<[item |-> "d", set |-> "D", side |-> "base"], [item |-> "d", set |-> "D", side |-> "candidate"],
            [item |-> "r", set |-> "R", side |-> "base"], [item |-> "r", set |-> "R", side |-> "candidate"]>>
MCRows == [n \in 1..4 |-> [step |-> MCPlan[n], source |-> "measured", measured |-> TRUE,
                           failed |-> FALSE, chosen |-> "a",
                           condition |-> MCSetup.conditions[MCPlan[n].side]]]
MCReport ==
  [stage |-> "B", suggested |-> "finalist", recorded |-> "result", stop |-> "completed",
   interrupted |-> 0, plan |-> MCPlan, setup |-> MCSetup, completed |-> 2, reused |-> 0,
   measured |-> 4,
   items |-> <<[item |-> "d", set |-> "D", complete |-> TRUE, chosen |-> [side \in Sides |-> "a"]],
               [item |-> "r", set |-> "R", complete |-> TRUE, chosen |-> [side \in Sides |-> "a"]]>>]
MCFinalist ==
  [report |-> MCReport, rows |-> MCRows,
   identity |-> [setup |-> MCSetup, plan |-> MCPlan, builds |-> Finalists, files |-> {"x9"}]]
Card(items, clusters, serious) ==
  [items |-> items, clusters |-> clusters, setup |-> MCSetup, finalist |-> MCFinalist,
   serious |-> serious, margin |-> 1, floor |-> 6]
\* The card that may be resumed tolerates no regression: its first item alone
\* may reject, with the other still to be measured.
MCCards == [mine |-> Card(<<"i1", "i2">>, 2, 0), rival |-> Card(<<"i3", "i4">>, 2, 1)]
MCRequests ==
  {[card |-> "mine", out |-> "o1", resume |-> FALSE], [card |-> "mine", out |-> "o1", resume |-> TRUE],
   [card |-> "mine", out |-> "o2", resume |-> TRUE], [card |-> "rival", out |-> "o3", resume |-> FALSE]}
MCGiven == [rival |-> [saw |-> "v1", rulings |-> <<>>,
                       votes |-> [by \in {"ann", "bea"} |-> [i3 |-> {"a"}, i4 |-> {"a"}]]]]

MCLabelled == {"i1", "i2"}
MCLetter ==
  [ann |-> [item \in MCLabelled |-> <<"a", "b">>],
   bea |-> [i1 |-> <<"b", "a">>, i2 |-> <<"a", "b">>]]
MCOpinion ==
  [ann |-> [v1 |-> [i1 |-> {"a"}, i2 |-> {"a"}],
            v2 |-> [i1 |-> {"b"}, i2 |-> {"a"}]],
   bea |-> [v1 |-> [i1 |-> {"a"}, i2 |-> {"b"}],
            v2 |-> [i1 |-> {"b"}, i2 |-> {"b"}]]]
\* On an item they disagree about, and on one they do not.
MCRulings == {[i1 |-> {"b"}, i2 |-> {"a", "b"}]}
\* What the base answers is known; the candidate may answer anything.
MCAnswers == [side \in {0, 1} |-> IF side = 0 THEN {"a"} ELSE {"a", "b", "invalid_output"}]
\* Wider where the values differ.
MCWidth(values) ==
  IF \A x, y \in DOMAIN values : values[x] = values[y] THEN 1 ELSE 2
=============================================================================
