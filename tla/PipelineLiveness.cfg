\* One delivery with faults, a worker crash, a retry and a clean-up.
SPECIFICATION FairSpec
CONSTANTS
  Delivery = {d1}
  EventId = {good, bad}
  Keyed = {good}
  Linked = {good, bad}
  Poison = {bad}
  Sparse = {good}
  Slot = {w1, w2}
  None = None
  MaxAttempts = 2
  MaxStalls = 1
  MaxFaults = 1
  MaxCrashes = 1
  MaxRetries = 1
  MaxRetentions = 1
CHECK_DEADLOCK FALSE
PROPERTY AcceptedSettles
