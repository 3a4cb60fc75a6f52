---------------------------- MODULE HoldoutLedger ---------------------------
(***************************************************************************)
(* What the opening registry promises (docs/p1-evaluation.md): the final   *)
(* set is opened by one assessment, and whatever shares a conversation, a  *)
(* source or a task cluster with it is never opened by another.            *)
(***************************************************************************)
CONSTANTS
  Uses,   \* an assessment: its card, its builds and its output directory
  KeysOf  \* use -> what its items are known by

VARIABLE opened

LedgerInit == opened = {}

Open(use) ==
  /\ \A other \in opened : other = use \/ KeysOf[other] \cap KeysOf[use] = {}
  /\ opened' = opened \cup {use}

LedgerNext == \E use \in Uses : Open(use)

LedgerSpec == LedgerInit /\ [][LedgerNext]_opened
=============================================================================
