\* PostgreSQL: a dispatch started in the background of a handler.
SPECIFICATION Spec
CONSTANTS
  p = p  q = q  handler = handler  other = other  worker = worker
  settings = settings  request = request  second = second  media = media
  instance = instance  collection = collection  user = user  s1 = s1  s2 = s2
  None = None
  Keys <- MCKeys
  Rank <- MCRank
  Processes = {p, q}
  Tasks = {handler, other, worker}
  ProcessOf <- HandlerAndWorker
  Slots = {s1, s2}
  SlotOf <- TwoSlots
  Programs <- RivalPrograms
  Spawns <- WorkerSpawned
  Coordinated = TRUE
  Breakable = {}
INVARIANT MutualExclusion
