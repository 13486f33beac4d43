SPECIFICATION FairSpec
CONSTANTS
  Deliveries = {d1}
  Payloads = {p1}
  Workers = {w1, w2}
  email = email
  mlflow = mlflow
  Handlers <- TwoHandlers
  MaxAttempts = 3
  BaseBackoff = 1
  MaxBackoff = 2
  Lease = 1
  MaxBatch = 2
  MaxSweeps = 2
  NotStored = NotStored
  NoOne = NoOne
INVARIANTS
  DeliveryMatchesOutbox
  HistoryIsAChain
  AttemptsAreDistinct
PROPERTIES
  FinishedRowsStay
  DeliverySettles
CHECK_DEADLOCK FALSE
