\* One slot: what finds it taken is queued.
CONSTANTS
  s1 = s1  s2 = s2  t1 = t1  t2 = t2
  Dir <- MCDir
  NameLen <- EqualLengths
  Capacity = 193
  WorkerLimit = 1
  Status = {"SUCCESS"}
  Faults = {}
  Cuts = {6}
  ConfigFiles <- OnePair
  NoSuchDir = {}
  Commands <- OneDirectory
  MaxCommands = 2
  MaxEvents = 1
  EventsPerRead = 3
SPECIFICATION Spec
PROPERTY QueuedIsLaunched
