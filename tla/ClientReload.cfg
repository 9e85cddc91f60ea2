\* One message, a page that is reloaded once, nothing breaks.
SPECIFICATION FairClientSpec
CONSTANTS
  Inference = {1}
  NoInference = 0
  Patient = TRUE
  MaxTokens = 1
  MaxDrops = 0
  MaxCrashes = 0
  MaxTroubles = 1
CHECK_DEADLOCK FALSE
PROPERTY ReloadResumes
