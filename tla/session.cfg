\* A console and a manager with two workers.
CONSTANTS
  c1 = c1  c2 = c2
  Child <- Children
  WorkerLimit = 2
  ReportSize = 2
  PipeSize = 2
  Scripts <- ShortScripts
SPECIFICATION Spec
\* A console that waits in open for an earlier manager's fifo may wait for ever.
CHECK_DEADLOCK FALSE
INVARIANT TypeOK
INVARIANT ConnectedIsWhole
INVARIANT NothingIsLost
PROPERTY HandlerReturns
PROPERTY ConsoleIsServed
PROPERTY LinesAreRead
PROPERTY SessionEnds
