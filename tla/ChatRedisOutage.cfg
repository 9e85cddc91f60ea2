\* One inference without a fault or a crash; Redis may go away and come back.
SPECIFICATION OutageSpec
CONSTANTS
  Inference = {i1}
  Provider = {anthropic}
  NoProvider = NoProvider
  CancelCall = {c1}
  NoInference = NoInference
  MaxTokens = 1
  MaxFaults = 0
  MaxCrashes = 0
CHECK_DEADLOCK FALSE
PROPERTY ChatSucceedsAnyway
