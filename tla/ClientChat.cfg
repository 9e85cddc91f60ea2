\* Two messages of a patient user; one broken connection, crash or reload.
SPECIFICATION FairClientSpec
CONSTANTS
  Inference = {1, 2}
  NoInference = 0
  Patient = TRUE
  MaxTokens = 1
  MaxDrops = 1
  MaxCrashes = 1
  MaxTroubles = 1
CHECK_DEADLOCK FALSE
INVARIANTS NothingMissed ShownTextIsOwn ShownVerdictIsStored
PROPERTIES SettledViewIsFinal PlaceholderSettles
