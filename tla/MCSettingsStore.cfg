\* Two processes, a change of each, one that calls save(), two faults.
SPECIFICATION Spec
CONSTANTS
  p1 = p1  p2 = p2  start = start  restart = restart  begin = begin
  rename = rename  retitle = retitle  toggle = toggle
  main = main  jobs = jobs  secrets = secrets
  None = None
  Processes = {p1, p2}
  Loads = {start, restart, begin}
  Changes = {rename, retitle}
  Saves = {toggle}
  ProcessOf <- MCProcessOf
  Sections = {main, jobs, secrets}
  Secrets = secrets
  SectionOf <- MCSectionOf
  MaxFaults = 2
INVARIANTS TypeOK SharedSecrets ChangesKeptUnsaved MemoryBackedUnsaved
CHECK_DEADLOCK FALSE
