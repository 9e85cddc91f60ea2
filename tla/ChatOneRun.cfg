\* One inference under every combination of faults, two cancels and a crash.
SPECIFICATION FairSpec
CONSTANTS
  Inference = {i1}
  Provider = {anthropic, gemini}
  NoProvider = NoProvider
  CancelCall = {c1, c2}
  NoInference = NoInference
  MaxTokens = 2
  MaxFaults = 3
  MaxCrashes = 1
CHECK_DEADLOCK FALSE
INVARIANTS
  TypeOK StreamMatchesStore SingleProviderContent NoLeakedRun
  SettledMessageFirst LoggedEventMatchesRow OneFaultTolerated CancelStopsOutput
PROPERTIES
  ToldVerdictIsFinal ImplementsLifecycle ImplementsSource EveryRunEnds
  CancelledRunSettles
