\* A directory is cancelled, added and cancelled again.
CONSTANTS
  s1 = s1  s2 = s2  t1 = t1  t2 = t2
  Dir <- MCDir
  NameLen <- EqualLengths
  Capacity = 193
  WorkerLimit = 1
  Status = {"SUCCESS"}
  Faults = {}
  Cuts = {6}
  ConfigFiles <- OnePair
  NoSuchDir = {}
  Commands <- OneDirectory
  MaxCommands = 3
  MaxEvents = 0
  EventsPerRead = 3
SPECIFICATION Spec
INVARIANT CancelStops
