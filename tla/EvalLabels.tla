----------------------------- MODULE EvalLabels -----------------------------
(***************************************************************************)
(* How the labels of an evaluation set come about (internal/judge:         *)
(* evalpacket.go, evalmerge.go, evaldata.go; cmd/uzushio: evalpacket.go,   *)
(* evalmerge.go).  A packet shows one person the candidates of every item  *)
(* under anonymous letters; the answers come back as letters; an import    *)
(* translates them through the packet's mapping; a merge joins the imports *)
(* of several people, who may disagree; a reader resolves each item.  The  *)
(* suite's files may be edited at any time between these commands.  Every  *)
(* output path is new, so what was written stays.                          *)
(*                                                                         *)
(* A version stands for the bytes of every file the suite holds for an     *)
(* item; a digest is the version itself.                                   *)
(***************************************************************************)
EXTENDS Naturals, FiniteSets, Sequences, SequencesExt

CONSTANTS
  Labelled,    \* the items that are labelled
  Positions,   \* the candidates of an item
  People,      \* the annotators
  Versions,    \* what the suite may hold
  Letter,      \* person -> item -> letter -> candidate, what the seed shuffles
  Opinion,     \* person -> version -> item -> the candidates acceptable to them
  Rulings,     \* what an adjudicator may decide: some items -> candidates
  MaxPackets,  \* bound: packets built
  MaxEdits     \* bound: edits people make

ASSUME LabelsAssumption ==
  /\ MaxPackets \in Nat /\ MaxEdits \in Nat
  /\ \A by \in People, item \in Labelled :
       /\ IsInjective(Letter[by][item]) /\ Range(Letter[by][item]) = Positions
       /\ \A version \in Versions : Opinion[by][version][item] \subseteq Positions

VARIABLES
  shown,     \* the version the suite holds now
  edits,     \* how often anything was edited under the people's hands
  packets,   \* packets built, with their mapping
  returned,  \* answer files that came back
  imports,   \* label files of one person
  merged     \* label files of several

labelVars == <<shown, edits, packets, returned, imports, merged>>
labelFiles == <<packets, returned, imports, merged>>

LabelInit ==
  /\ shown \in Versions /\ edits = 0
  /\ packets = {} /\ returned = {} /\ imports = {} /\ merged = {}

-----------------------------------------------------------------------------
\* BuildEvaluationPacket: the mapping digests every file it reads.
Build(by) ==
  /\ Cardinality(packets) < MaxPackets
  /\ packets' = packets \cup {[by |-> by, saw |-> shown]}
  /\ UNCHANGED <<shown, edits, returned, imports, merged>>

\* A person ticks the letters under which they read what is acceptable.  The
\* template they fill names the mapping it was written with.
Ticks(packet, item) ==
  {letter \in DOMAIN Letter[packet.by][item] :
     Letter[packet.by][item][letter] \in Opinion[packet.by][packet.saw][item]}

Return(packet) ==
  /\ packet \in packets
  /\ returned' = returned \cup
       {[mapping |-> packet, ticks |-> [item \in Labelled |-> Ticks(packet, item)]]}
  /\ UNCHANGED <<shown, edits, packets, imports, merged>>

\* The answers are to this packet, and its inputs are still what it digested.
Matches(packet, answers) == answers.mapping = packet /\ shown = packet.saw

Translated(packet, answers) ==
  [item \in Labelled |-> {Letter[packet.by][item][letter] : letter \in answers.ticks[item]}]

Import(packet, answers) ==
  /\ packet \in packets /\ answers \in returned
  /\ Matches(packet, answers)
  /\ imports' = imports \cup
       {[by |-> packet.by, saw |-> packet.saw, ok |-> Translated(packet, answers)]}
  /\ UNCHANGED <<shown, edits, packets, returned, merged>>

-----------------------------------------------------------------------------
SameInputs(inputs) == \A a, b \in inputs : a.saw = b.saw

\* MergeEvaluationLabels joins the imports of two people or more.  A ruling is
\* attached to its item; what it was made from is not compared with anything.
Joined(inputs, rulings) ==
  LET one == CHOOSE file \in inputs : TRUE
  IN [saw |-> one.saw, rulings |-> rulings,
      votes |-> [by \in {file.by : file \in inputs} |->
                   (CHOOSE file \in inputs : file.by = by).ok]]

Merge(inputs, rulings) ==
  /\ inputs \subseteq imports /\ Cardinality(inputs) >= 2
  /\ \A a, b \in inputs : a.by = b.by => a = b
  /\ SameInputs(inputs)
  /\ merged' = merged \cup {Joined(inputs, rulings)}
  /\ UNCHANGED <<shown, edits, packets, returned, imports>>

\* Somebody rewrites the suite: a candidate, a rubric, a conversation.
EditSuite ==
  /\ edits < MaxEdits /\ edits' = edits + 1
  /\ shown' \in Versions \ {shown}
  /\ UNCHANGED labelFiles

LabelStep ==
  \/ \E by \in People : Build(by)
  \/ \E packet \in packets : Return(packet)
  \/ \E packet \in packets, answers \in returned : Import(packet, answers)
  \/ \E inputs \in SUBSET imports, rulings \in Rulings : Merge(inputs, rulings)

-----------------------------------------------------------------------------
(***************************************************************************)
(* LoadEvaluationLabels: what a reader makes of a label file               *)
(***************************************************************************)
Agreed(file, item) ==
  \A a, b \in DOMAIN file.votes : file.votes[a][item] = file.votes[b][item]

Resolvable(file, items) ==
  /\ Cardinality(DOMAIN file.votes) >= 2
  /\ \A by \in DOMAIN file.votes : DOMAIN file.votes[by] = items
  /\ \A item \in items : Agreed(file, item) \/ item \in DOMAIN file.rulings

\* A ruling counts only where they disagree.  Nothing acceptable is all_bad.
Resolved(file, item) ==
  IF Agreed(file, item) THEN file.votes[CHOOSE by \in DOMAIN file.votes : TRUE][item]
  ELSE file.rulings[item]

\* VerifyEvaluationLabelCandidates: the suite holds the bytes people saw.
SameBodies(file) == shown = file.saw
=============================================================================
