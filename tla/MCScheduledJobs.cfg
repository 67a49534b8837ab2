\* Two processes, a call of each kind, one fault, one stall and one stop.
SPECIFICATION FairSpec
CONSTANTS
  p1 = p1  p2 = p2  invoke = invoke  enable = enable  start = start
  Over = Over  None = None
  Processes = {p1, p2}
  Invokes = {invoke}
  Enables = {enable}
  Starts = {start}
  ServerOf <- MCServerOf
  Instances <- MCInstances
  MaxFaults = 1  MaxStalls = 1  MaxStops = 1
INVARIANTS TypeOK LastClaimSucceeds TasksExclude CleanExitUnscheduled
PROPERTIES LeaseRecovered ShutdownEnds
