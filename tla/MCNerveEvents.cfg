SPECIFICATION FairEventsSpec
CONSTANTS
  opening = opening
  sale = sale
  resent = resent
  Events <- MCEvents
  Position <- MCPosition
  OccurredAt <- MCOccurredAt
  Calls = {c1, c2}
  Workers = {w1, w2}
  MaximumAttempts = 2
  MaxReplays = 1
  MaxOperatorRetries = 1
CHECK_DEADLOCK FALSE
INVARIANTS EachReleaseQueuedOnce
PROPERTIES ReleasesInOrder ReleasedIsSettled
