\* Two slots, reports cut in three, workers that die, NUL bytes, a full store.
CONSTANTS
  s1 = s1  s2 = s2  s3 = s3  t1 = t1  t2 = t2  t3 = t3
  Dir <- MCDir
  NameLen <- OneLonger
  Capacity = 4
  WorkerLimit = 2
  Status = {"SUCCESS", "PARTIAL"}
  Faults = {"die", "garble"}
  Cuts = {1, 4, 6}
  ConfigFiles <- ReportFiles
  NoSuchDir = {}
SPECIFICATION ReportsSpec
INVARIANT OwnWhileApart
INVARIANT FlagWhileApart
INVARIANT EndsWhileApart
PROPERTY ConfigLoopEnds
