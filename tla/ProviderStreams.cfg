\* The three adapters, streams of three items, a cancel at any time.
SPECIFICATION FairSpec
CONSTANTS
  Adapters = {"anthropic", "openai", "gemini"}
  MaxItems = 3
  Counts = {1, 2}
INVARIANTS CompletedIsFaithful FailedKeepsText
PROPERTIES ImplementsAttempt AbortEnds
