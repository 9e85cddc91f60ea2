\* Two deliveries of one keyed event, one failing call.
SPECIFICATION Spec
CONSTANTS
  Delivery = {d1, d2}
  EventId = {good}
  Keyed = {good}
  Linked = {good}
  Poison = {}
  Sparse = {}
  Slot = {w1}
  None = None
  MaxAttempts = 2
  MaxStalls = 1
  MaxFaults = 1
  MaxCrashes = 0
  MaxRetries = 0
  MaxRetentions = 0
CHECK_DEADLOCK FALSE
INVARIANT RetriesAreSafe
