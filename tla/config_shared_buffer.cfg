\* Two slots: the buffer of one slot is handed to the other.
CONSTANTS
  s1 = s1  s2 = s2  s3 = s3  t1 = t1  t2 = t2  t3 = t3
  Dir <- MCDir
  NameLen <- EqualLengths
  Capacity = 193
  WorkerLimit = 2
  Status = {"SUCCESS"}
  Faults = {}
  Cuts = {1, 6}
  ConfigFiles <- LongestFile
  NoSuchDir = {}
SPECIFICATION ConfigSpec
INVARIANT StatusIsOwn
