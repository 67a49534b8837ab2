\* One book request whose retries race the worker of its failed dispatch.
SPECIFICATION FairSpec
CONSTANTS
  r1 = r1  r2 = r2  a1 = a1  a2 = a2  b1 = b1  b2 = b2  p1 = p1  p2 = p2
  t1 = t1  t2 = t2  t3 = t3  t4 = t4
  Processes = {p1}
  Requests = {r1}
  Books = {r1}
  RowIds = {a1, a2}
  RequestOf <- MCRequestOf
  Tokens = {t1, t2}
  None = None
  MaxAttempts = 2
  MaxRows = 2
  Concurrency = 1
  QueueLimit = 0
  MaxFaults = 1
  Operations = {"create", "retry", "complete", "reconcile"}
PROPERTIES EventuallySettled ApprovedBooksSettle
CHECK_DEADLOCK FALSE
