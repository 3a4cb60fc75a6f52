\* Two runs one after the other, with a name free for both, for one or for none.
CONSTANTS
  Runs = {r1, r2}
  LastSeq = 1
  Overlap = FALSE
SPECIFICATION Spec
INVARIANT DecisionsPassTheVault
PROPERTIES ImplementsLifecycle DocumentsAreAppendOnly
SYMMETRY RunSymmetry
CHECK_DEADLOCK FALSE
