\* Two deliveries of good, unlinked or poisoned events, two worker slots.
SPECIFICATION Spec
CONSTANTS
  Delivery = {d1, d2}
  EventId = {good, plain, bad}
  Keyed = {good, plain}
  Linked = {good, bad}
  Poison = {bad}
  Sparse = {plain}
  Slot = {w1, w2}
  None = None
  MaxAttempts = 2
  MaxStalls = 1
  MaxFaults = 1
  MaxCrashes = 1
  MaxRetries = 1
  MaxRetentions = 1
SYMMETRY Symmetry
CHECK_DEADLOCK FALSE
INVARIANTS
  UniqueLog AcceptedNotLost EventImpliesVerdict FailedMeansExhausted
  FailureHasACause DuplicatesBounded
