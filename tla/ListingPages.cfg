\* Three rows, pages of one, four writes that may be on their way at once.
SPECIFICATION Spec
CONSTANTS
  Row <- Ids
  MaxWrites = 4
  Limit = 1
  MaxTime = 3
  Lists = {"conversations", "requests"}
CHECK_DEADLOCK FALSE
INVARIANTS ShownOnce NothingSkipped SummaryCovers
