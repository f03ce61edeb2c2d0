\* One worker at a time on two files.
CONSTANTS
  f1 = f1  f2 = f2  v1 = v1
  File <- Files
  Text <- Texts
  Fragile <- OneFile
  WorkerLimit = 1
  EventsPerRead = 3
  MaxEdits = 2
  MaxSyncs = 0
SPECIFICATION Spec
PROPERTY SourceIsTheUsers
