\* Two workers at a time on two files.
CONSTANTS
  f1 = f1  f2 = f2  v1 = v1
  File <- Files
  Text <- Texts
  Fragile <- OneFile
  WorkerLimit = 2
  EventsPerRead = 3
  MaxEdits = 2
  MaxSyncs = 1
SPECIFICATION Spec
INVARIANT TypeOK
INVARIANT QuietMeansMirrored
PROPERTY Settles
