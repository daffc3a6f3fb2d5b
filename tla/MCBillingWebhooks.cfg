CONSTANTS
  Workers = {w1, w2}
  Keys = {1, 2}
  NoWork = 0
  NoWorker = none
  ClaimsOutliveRuns = TRUE
  Second <- MCSecond
  Cancels <- MCCancels
SPECIFICATION WebhookSpec
INVARIANTS
  CompleteMeansHandled
PROPERTIES
  OnceSpec
CHECK_DEADLOCK FALSE
