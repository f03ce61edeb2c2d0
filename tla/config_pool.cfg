\* Up to four pairs, two slots, reports seen in two pieces: buffers come to be shared.
CONSTANTS
  s1 = s1  s2 = s2  s3 = s3  t1 = t1  t2 = t2  t3 = t3
  Dir <- MCDir
  NameLen <- OneLonger
  Capacity = 193
  WorkerLimit = 2
  Status = {"SUCCESS", "PARTIAL"}
  Faults = {"fork", "die", "garble"}
  Cuts = {3, 6}
  ConfigFiles <- MixedFiles
  NoSuchDir = {s3}
SPECIFICATION ConfigSpec
INVARIANT ConfigTypeOK
INVARIANT TableInv
INVARIANT FoundByBucket
PROPERTY ConfigIsPool
