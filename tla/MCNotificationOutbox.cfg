\* Two processes over PostgreSQL, or one over SQLite.
SPECIFICATION FairSpec
CONSTANTS
  p = p  q = q  None = None
  Processes = {p, q}
  Solo = p
  Notifications = {1, 2, 3}
  Raisers = {p}
  Agents = {1, 2}
  Targets <- MCTargets
  MaxAttempts = 2
  MaxRows = 1
  ScanBatch = 1
  Concurrency = 1
  QueueLimit = 0
  Instances <- MCInstances
INVARIANTS TypeOK SentAfterCommit NoSilentLoss SentOnce
PROPERTY EventuallyHandled
CHECK_DEADLOCK FALSE
