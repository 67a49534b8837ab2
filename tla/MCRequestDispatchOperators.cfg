\* Two processes, one request, no faults: every operation of an operator, with
\* retries, repairs and clearings racing the workers.
SPECIFICATION Spec
CONSTANTS
  r1 = r1  r2 = r2  a1 = a1  a2 = a2  b1 = b1  b2 = b2  p1 = p1  p2 = p2
  t1 = t1  t2 = t2  t3 = t3  t4 = t4
  Processes = {p1, p2}
  Requests = {r1, r2}
  Books = {r2}
  RowIds = {a1, a2, b1, b2}
  RequestOf <- MCRequestOf
  Tokens = {t1, t2, t3}
  None = None
  MaxAttempts = 2
  MaxRows = 2
  Concurrency = 1
  QueueLimit = 1
  MaxFaults = 0
  Operations = {"create", "decide", "repair", "retry", "clear", "remove", "complete"}
CONSTRAINT OneRequest
SYMMETRY ProcessSymmetry
INVARIANT NoDuplicateSend
CHECK_DEADLOCK FALSE
