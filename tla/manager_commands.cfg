\* Three commands about one directory, shutdown among them, and two file events.
CONSTANTS
  s1 = s1  s2 = s2  t1 = t1  t2 = t2
  Dir <- MCDir
  NameLen <- EqualLengths
  Capacity = 193
  WorkerLimit = 1
  Status = {"SUCCESS"}
  Faults = {}
  Cuts = {6}
  ConfigFiles <- OnePair
  NoSuchDir = {}
  Commands <- OneDirectory
  MaxCommands = 3
  MaxEvents = 2
  EventsPerRead = 3
SPECIFICATION Spec
INVARIANT TypeOK
INVARIANT DescriptorsKnown
INVARIANT ActiveIsWatched
INVARIANT DoneIsQuiet
PROPERTY ManagerIsLossyPool
PROPERTY CommandsAreTaken
PROPERTY ShutdownCompletes
