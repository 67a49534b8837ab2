\* Three operations of two hosts; a process may die and start again with a new
\* id, and a heartbeat may be late.
SPECIFICATION FairSpec
CONSTANTS
  p = p  q = q  r = r  load = load  save = save  change = change
  here = here  there = there
  None = None
  Operations = {load, save, change}
  ProcessOf <- MCProcessOf
  Processes = {p, q, r}
  Hosts = {here, there}
  HostOf <- MCHostOf
  Pids = {1, 2, 3}
  PidOf <- MCPidOf
  RestartPids = {3}
  MaxCrashes = 1
  MaxStalls = 2
INVARIANTS TypeOK MutualExclusion LockRemoved
PROPERTIES LockRecovered ExclusionRegained Implements
