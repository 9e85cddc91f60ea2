\* The answer of the cancel endpoint against the final row: no fault, no crash.
SPECIFICATION Spec
CONSTANTS
  Inference = {i1}
  Provider = {anthropic}
  NoProvider = NoProvider
  CancelCall = {c1}
  NoInference = NoInference
  MaxTokens = 1
  MaxFaults = 0
  MaxCrashes = 0
CHECK_DEADLOCK FALSE
INVARIANT CancelReplyHonoured
