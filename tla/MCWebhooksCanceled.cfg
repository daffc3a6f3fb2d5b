CONSTANTS
  Workers = {w1}
  Keys = {1, 2}
  NoWork = 0
  NoWorker = none
  ClaimsOutliveRuns = TRUE
  Second <- MCSecond
  Cancels <- MCCancels
SPECIFICATION WebhookSpec
INVARIANTS
  CanceledAnnounced
CHECK_DEADLOCK FALSE
