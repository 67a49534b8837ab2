\* Two processes, one request, two faults: approval, delivery and removal.
SPECIFICATION Spec
CONSTANTS
  r1 = r1  r2 = r2  a1 = a1  a2 = a2  b1 = b1  b2 = b2  p1 = p1  p2 = p2
  t1 = t1  t2 = t2  t3 = t3  t4 = t4
  Processes = {p1, p2}
  Requests = {r1, r2}
  Books = {r2}
  RowIds = {a1, b1}
  RequestOf <- MCRequestOf
  Tokens = {t1, t2, t3}
  None = None
  MaxAttempts = 3
  MaxRows = 2
  Concurrency = 1
  QueueLimit = 1
  MaxFaults = 2
  Operations = {"create", "decide", "remove", "complete"}
CONSTRAINT OneRequest
SYMMETRY ProcessSymmetry
INVARIANTS TypeOK ClaimHeldOnce NoSilentLoss NoDuplicateSend
PROPERTY LiveClaimEndsByHolder
CHECK_DEADLOCK FALSE
