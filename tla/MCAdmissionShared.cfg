\* PostgreSQL, two processes, two slots each; a handler starts a dispatch.
SPECIFICATION Spec
CONSTANTS
  p = p  q = q  handler = handler  other = other  worker = worker
  settings = settings  request = request  second = second
  media = media  instance = instance  collection = collection  user = user
  s1 = s1  s2 = s2
  None = None
  Keys <- MCKeys
  Rank <- MCRank
  Processes = {p, q}
  Tasks = {handler, other, worker, settings}
  ProcessOf <- TwoProcesses
  Slots = {s1, s2}
  SlotOf <- TwoSlots
  Programs <- MCPrograms
  Spawns <- BackgroundSpawned
  Coordinated = TRUE
  Breakable = {handler, worker}
INVARIANTS TypeOK ExclusionWhileConnected NoDeadlock
