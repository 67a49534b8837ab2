\* One or two processes recover the downloads of one service.
SPECIFICATION FairSpec
CONSTANTS
  p = p  q = q  r = r  s = s  film = film  series = series  None = None
  Processes = {p, q}
  Runs = {r, s}
  Downloads = {1, 2, 3, 4}
  Media = {film, series}
  MediaOf <- MCMediaOf
  MaxRetries = 1
  MaxMediaRetries = 1
  Concurrency = 2
  Instances <- MCInstances
INVARIANTS TypeOK LimitsHeld
PROPERTY Handled
CHECK_DEADLOCK FALSE
