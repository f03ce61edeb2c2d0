\* Two directories, one hashed away from itself, a full table and every fault.
CONSTANTS
  s1 = s1  s2 = s2  t1 = t1  t2 = t2
  Dir <- MCDir
  NameLen <- OneLongTarget
  Capacity = 3
  WorkerLimit = 2
  Status = {"SUCCESS"}
  Faults = {"fork", "die", "wild"}
  Cuts = {3, 6}
  ConfigFiles <- OnePair
  NoSuchDir = {}
  Commands <- TwoDirectories
  MaxCommands = 2
  MaxEvents = 1
  EventsPerRead = 3
SPECIFICATION Spec
INVARIANT SlotAccounting
PROPERTY ManagerIsLossyPool
