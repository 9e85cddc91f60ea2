\* Four racing posts, a conversation whose status changes, a context of three.
SPECIFICATION Spec
CONSTANTS
  Turn = {t1, t2, t3, t4}
  ContextLimit = 3
SYMMETRY Symmetry
CHECK_DEADLOCK FALSE
INVARIANTS
  SequenceContiguous TurnsAdjacent ConflictHasWinner ContextKeepsOwnPrompt
PROPERTY ImplementsLedger
