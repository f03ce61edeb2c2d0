\* Targets have longer names than their sources.
CONSTANTS
  s1 = s1  s2 = s2  s3 = s3  t1 = t1  t2 = t2  t3 = t3
  Dir <- MCDir
  NameLen <- LongTargets
  Capacity = 193
  WorkerLimit = 2
  Status = {"SUCCESS"}
  Faults = {}
  Cuts = {6}
  ConfigFiles <- PairedFiles
  NoSuchDir = {}
SPECIFICATION ConfigSpec
INVARIANT StartedIsFound
